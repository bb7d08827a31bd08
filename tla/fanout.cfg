CONSTANTS
  Conns = {"dash", "cli"}
  Instruments = {"BTC"}
  Filter <- MCFilter
  ClientQueue = 1
  MaxSeq = 2
  None = None
SPECIFICATION FairSpec
INVARIANTS NewestWaits NobodyKicked
PROPERTIES ClientsAreFed BroadcastReturns GoneIsForgotten
CHECK_DEADLOCK FALSE
