CONSTANTS
  InBuffers = 1
  Buffers = {"EP0OutEvenBuf", "EP0OutOddBuf", "CtrlTrfData"}
  Ep0Size = 2
  MaxFaults = 1
  Requests <- MCRequests
  DescLength <- MCDescLength
SPECIFICATION Spec
INVARIANTS SetupAcceptedUnlessSpent ReadsAreExact
PROPERTIES TransfersEnd
CHECK_DEADLOCK FALSE
