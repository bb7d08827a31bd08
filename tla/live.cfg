CONSTANTS
  Instruments = {"BTC", "ETH"}
  Size = 2
  MaxOrders = 3
  MaxRuns = 2
  None = None
SPECIFICATION Spec
INVARIANTS FillsAreFinal BeliefIsExact
CHECK_DEADLOCK FALSE
