SPECIFICATION Spec
CONSTANTS
  Words = 7
  Sizes = {4, 9}
  MaxFrames = 3
  TxCount = 2
  MaxSends = 3
  MaxDepth = 2
INVARIANTS InOrder WireIsSent
PROPERTIES FramesDelivered
CHECK_DEADLOCK FALSE
