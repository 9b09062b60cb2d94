SPECIFICATION TerminalSpec
CONSTANTS
  DBs = {"ro", "rw"}
  Writable = {"rw"}
  MaxAgenticLoops = 2
  MinMessages = 4
  MinSavings = 1
  RecentWindow = 3
  TokenThreshold = 200
  MaxTokens = 60
  CallIds = {1, 2}
  MinImportant = 2
  Lengths = {100}
  MaxParallel = 2
  MaxQueries = 2
  MaxCommands = 2
  Procs = {"cli", "other"}
  Origins = {"here", "there"}
  Pointings <- OneOrTwoServers
  DeviceLifetime = 6
  DeviceInterval = 0
  MaxPairs = 2
  MaxRuns = 2
  MaxFaults = 1
INVARIANTS CompactionPairs FlagSound LoginHolds
PROPERTIES ConfirmedUnlessMissed EverythingEnds
CHECK_DEADLOCK FALSE
