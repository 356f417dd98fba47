CONSTANTS
  InBuffers = 2
  Buffers = {"SetupPkt", "CtrlTrfData"}
  Ep0Size = 2
  MaxFaults = 1
  StatusTimeout = 1
  Requests <- MCRequests
  DescLength <- MCDescLength
SPECIFICATION Spec
INVARIANTS SetupAccepted ReadsAreExact WritesAreDone AddressAgrees WakesUp
PROPERTIES Chapter9 TransfersEnd
CHECK_DEADLOCK FALSE
