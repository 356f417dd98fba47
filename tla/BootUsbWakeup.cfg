CONSTANTS
  InBuffers = 1
  Buffers = {"EP0OutEvenBuf", "EP0OutOddBuf", "CtrlTrfData"}
  Ep0Size = 2
  MaxFaults = 0
  Requests <- MCRequests
  DescLength <- MCDescLength
SPECIFICATION Spec
INVARIANT WakesUp
CHECK_DEADLOCK FALSE
