SPECIFICATION FairSpec
CONSTANTS
  Channels = 3
  OnChannels = {1}
  RestPasses = 1
  Rates = 2
  Plugged = {FALSE}
  InitialLines <- AnsweredResync
  Downlinks = FALSE
  PcCommands <- NoCommands
  MaxPending = 0
  MaxTroubles = 0
PROPERTY JoinRecoversAlways
CHECK_DEADLOCK FALSE
