CONSTANTS
  Instruments = {"BTC"}
  Kinds = {"momentum", "meanrev", "adaptive", "llm", "llm+momentum", "llm+adaptive"}
  Prices = {1, 2, 4}
  Arms <- MCArms
  Fast = 1
  Slow = 3
  Window = 5
  EntryZ = 15
  ExitZ = 5
  MinBars = 5
  MaxAnswer = 2
  Foreign = "TSLA"
  None = None
SPECIFICATION StrategiesSpec
INVARIANTS BooksAgree ExitNotMissed
PROPERTY OneDecisionPerBar
CHECK_DEADLOCK FALSE
