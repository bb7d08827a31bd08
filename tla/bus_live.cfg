CONSTANTS
  Handles = {"ws1", "ws2"}
  Instruments = {"BTC"}
  MaxSubs = 2
  MaxSeq = 2
  MaxBatch = 1
  MaxReclosed = 1
  None = None
  Name <- MCName
  Policy <- MCPolicy
  Capacity <- MCCapacity
  Filter <- MCFilter
SPECIFICATION FairSpec
INVARIANTS NoOrphan NoLostWake
PROPERTIES NeverStalled LoopEnds LatestArrives
CHECK_DEADLOCK FALSE
