SPECIFICATION Spec
CONSTANTS
  SampleBits = 4
  RawBits = 5
  EscapeAbove = 2
  RiceCap = 2
  BlockSize = 3
  Wrap = 20
  Packets = {1, 3}
  Inputs <- MCInputs
  Headers <- MCHeaders
INVARIANTS
  TypeOK
  FramesInPlace
  FileAccounts
\* A muxer that was finalized does nothing any more.
CHECK_DEADLOCK FALSE
