SPECIFICATION Spec
CONSTANTS
  PcmCap <- MCOne
  PktCap <- MCOne
  MaxStarts <- MCTwo
  MaxFrames <- MCOne
INVARIANTS
  TypeOK
  NoOrphan
  CompletedMeansDone
  TotalCoversRecording
\* A connection that is over does nothing any more.
CHECK_DEADLOCK FALSE
