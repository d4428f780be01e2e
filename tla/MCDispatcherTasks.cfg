SPECIFICATION Spec
CONSTANTS
  PcmCap <- MCTwo
  PktCap <- MCTwo
  MaxStarts <- MCOne
  MaxFrames <- MCTwo
PROPERTIES
  TasksEnd
  MeteringNeverStalls
  ShutdownEnds
\* A connection that is over does nothing any more.
CHECK_DEADLOCK FALSE
