SPECIFICATION FairSpec
CONSTANTS
  JobList <- MCJobList
  Startup <- MCStartup
  Level <- MCLevel
  Channels <- MCChannels
  Delivery <- MCDelivery
  MaxRuns = 2
  MaxFaults = 0
CHECK_DEADLOCK FALSE
INVARIANTS
  EveryRunRecords
