SPECIFICATION Spec
CONSTANTS
  EpSize = 3
  IndexMod = 5
  RxSize = 2
  RxCountMod = 4
  MaxOut = 3
  MaxIn = 0
  MaxResets = 1
INVARIANT SendsThePacket
