CONSTANTS
  Handles = {"replay", "sample", "candles", "paper"}
  Instruments = {"BTC", "ETH"}
  MaxSubs = 1
  MaxSeq = 2
  MaxBatch = 2
  MaxReclosed = 0
  None = None
  Name <- MCName
  Policy <- MCPolicy
  Capacity <- MCCapacity
  Filter <- MCFilter
SPECIFICATION Spec
INVARIANTS TypeOK InOrder PolicyKept NothingVanishes
PROPERTY ImplementsFeed
CHECK_DEADLOCK FALSE
