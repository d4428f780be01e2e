SPECIFICATION Spec
CONSTANTS
  PcmCap <- MCPcmCap
  PktCap <- MCPktCap
  HoldCap <- MCHoldCap
  MaxFrames <- MCMaxFrames
INVARIANTS
  TypeOK
  LossBounded
PROPERTIES
  IsRecording
  SignalEndsWork
  StopEventuallyReturns
  ExternalSignalEnds
  InputDrains
  FailedStartLeavesNoTask
  FeederReleased
\* A stopped or failed session is over: nothing moves any more.
CHECK_DEADLOCK FALSE
