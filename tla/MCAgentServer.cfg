SPECIFICATION Spec
CONSTANTS
  here = here
  there = there
  OriginOf <- MCOriginOf
  NumRequests = 3
  MaxPerOrigin = 1
  MaxTotal = 2
  MaxName = 2
  MaxMillis = 2
INVARIANTS
  TypeOK
  RepliedIdStoppable
PROPERTIES
  RequestsEnd
\* When the last request is answered nothing need happen any more.
CHECK_DEADLOCK FALSE
