CONSTANTS
  MaxTrade = 3
  MaxFrames = 4
  MaxRuns = 2
  QueueCap = 2
  BatchSize = 2
  RawBatch = 2
SPECIFICATION ArchiveFairSpec
INVARIANTS ReceivedIsKept StatsTellTheTable LossIsCounted
PROPERTY NotStranded
CHECK_DEADLOCK FALSE
