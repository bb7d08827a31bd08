CONSTANTS
  Instruments = {"BTC", "ETH"}
  StartingCash = 95
  Fee = 100
  Slippage = 50
  Fraction = 600
  PriceUnit = 100
  QtyUnit = 10
  Prices = {300, 700}
  Strengths = {1000}
  MaxTicks = 3
  MaxTrades = 3
  MaxRuns = 2
  None = None
  Torn = Torn
SPECIFICATION Spec
INVARIANTS TypeOK BooksBalance StateFileIsWhole
PROPERTY ImplementsAccount
CHECK_DEADLOCK FALSE
