SPECIFICATION Spec
CONSTANTS
  c1 = c1
  c2 = c2
  Clients <- MCClients
  EventCap = 1
  MaxLines = 1
  MaxEvents = 2
INVARIANTS
  TypeOK
  StreamContiguous
PROPERTIES
  AcceptLoopEnds
  StreamsEnd
  DrainWaitsForClients
\* Nothing happens any more after the end of the server.
CHECK_DEADLOCK FALSE
