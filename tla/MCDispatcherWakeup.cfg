SPECIFICATION Spec
CONSTANTS
  PcmCap <- MCOne
  PktCap <- MCOne
  MaxStarts <- MCTwo
  MaxFrames <- MCOne
PROPERTIES
  ExpiresOverRunningTask
\* A connection that is over does nothing any more.
CHECK_DEADLOCK FALSE
