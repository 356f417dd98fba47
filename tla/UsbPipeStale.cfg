CONSTANTS
  EpSize = 2
  Lengths = {1, 2, 3}
  MaxOut = 3
  MaxIn = 2
  MaxFaults = 1
  MaxRequests = 1
SPECIFICATION Spec
INVARIANT OnlyNewData
CHECK_DEADLOCK FALSE
