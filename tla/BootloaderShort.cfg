SPECIFICATION Spec
CONSTANTS
  Versions = {1}
  Sections <- ShortSections
  ConfigAsked = {FALSE}
  MaxSessions = 2
  MaxFaults = 0
  Block = 3
  Page = 6
  DataSize = 4
  AppStart = 6
  FlashEnd = 18
  SigAddress = 8
  Segment = 24
  LowByte = 4
  DataBytes = 2
INVARIANT FlashSessionVerifies
