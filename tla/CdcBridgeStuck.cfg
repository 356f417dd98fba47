SPECIFICATION FairSpec
CONSTANTS
  EpSize = 3
  IndexMod = 5
  RxSize = 2
  RxCountMod = 4
  MaxOut = 1
  MaxIn = 3
  MaxResets = 0
PROPERTY ReceivedIsForwarded
CHECK_DEADLOCK FALSE
