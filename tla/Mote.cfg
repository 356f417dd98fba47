SPECIFICATION FairSpec
CONSTANTS
  Channels = 3
  OnChannels = {1}
  RestPasses = 1
  Rates = 2
  Plugged = {TRUE, FALSE}
  InitialLines <- Silent
  Downlinks = TRUE
  PcCommands <- SomeCommands
  MaxPending = 1
  MaxTroubles = 2
INVARIANTS JoinedConfigured InStep RateLabelTrue
PROPERTIES JoinRecovers MeasurementFollows
CHECK_DEADLOCK FALSE
