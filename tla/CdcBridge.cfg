SPECIFICATION FairSpec
CONSTANTS
  EpSize = 3
  IndexMod = 5
  RxSize = 2
  RxCountMod = 4
  MaxOut = 3
  MaxIn = 3
  MaxResets = 1
INVARIANTS NothingLostToHost NothingLostToModem
PROPERTIES PacketsAccepted StagedIsSent
CHECK_DEADLOCK FALSE
