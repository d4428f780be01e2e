SPECIFICATION Spec
CONSTANTS
  Requests <- MCRequests
  Machines <- MCMachines
  MixRate = 48000
  Cap = 1
  MaxOpens = 2
  MaxFrames = 2
  MaxCancels = 1
INVARIANTS
  TypeOK
  FramesInOrder
  NegotiatedNear
PROPERTIES
  ReplacedThreadEnds
  NextFrameReturns
\* A dropped backend does nothing any more.
CHECK_DEADLOCK FALSE
