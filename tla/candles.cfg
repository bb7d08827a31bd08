CONSTANTS
  Instruments = {"BTC", "ETH"}
  Interval = 2
  History = 1
  MaxEventTime = 4
  Prices <- MCPrices
  Quantities <- MCQuantities
  MaxTicks = 4
  Base = 4
  Width = 7
  MaxScale = 2
SPECIFICATION CandlesSpec
INVARIANT MatchesReference
PROPERTY PublishedBarsAreFinal
CHECK_DEADLOCK FALSE
