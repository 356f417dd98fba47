SPECIFICATION FairSpec
CONSTANTS
  Size = 2
  MaxBytes = 5
  MaxResets = 2
INVARIANTS
  TypeOK
  RingAligned
  NoStrandedByte
PROPERTIES
  LineInOrder
  FifoUntilCleared
  AllSent
CHECK_DEADLOCK FALSE
