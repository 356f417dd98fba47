SPECIFICATION FairSpec
CONSTANTS
  Versions = {1, 2}
  Sections <- WholeSections
  ConfigAsked = {TRUE, FALSE}
  MaxSessions = 3
  MaxFaults = 2
  Block = 3
  Page = 6
  DataSize = 4
  AppStart = 6
  FlashEnd = 18
  SigAddress = 8
  Segment = 24
  LowByte = 4
  DataBytes = 2
INVARIANTS SignedIsComplete BootloaderIntact FlashSessionVerifies
PROPERTIES SessionEnds UpdateIsAtomic
