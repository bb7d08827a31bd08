CONSTANTS
  Trades <- MCTrades
  Configs <- MCConfigs
  Queries <- MCQueries
  DayLength = 1
  DefaultLimit = 1
  MaxLimit = 2
  MaxRounds = 2
  MaxFrames = 1
  MaxTime = 2
  None = None
SPECIFICATION Spec
INVARIANT ScanExact
PROPERTY SizeCostsNoMore
CHECK_DEADLOCK FALSE
