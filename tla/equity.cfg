CONSTANTS
  Symbols = {"AAPL"}
  EngineSize = 1
  Quantities = {1}
  OrderCap = 1
  MaxStart = 1
  MaxMsgs = 2
  MaxOrders = 2
  MaxRuns = 2
  None = None
SPECIFICATION FairSpec
INVARIANTS ShortOnlyByRace NothingSkipped OnceARun
PROPERTY CommandsAnswered
CHECK_DEADLOCK FALSE
