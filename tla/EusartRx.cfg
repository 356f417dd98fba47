SPECIFICATION FairSpec
CONSTANTS
  Size = 2
  CountMod = 4
  HwDepth = 2
  MaxBytes = 6
  MaxResets = 1
INVARIANTS
  RingAligned
PROPERTIES
  ReadInOrder
  FifoUntilLoss
  ReceiverRecovers
CHECK_DEADLOCK FALSE
