CONSTANTS
  Instruments = {"BTC"}
  Size = 2
  MaxOrders = 2
  MaxRuns = 1
  None = None
SPECIFICATION Spec
INVARIANT NoDuplicatePosition
CHECK_DEADLOCK FALSE
