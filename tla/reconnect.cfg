CONSTANTS
  Policies <- MCPolicies
  RawCap = 1
  MaxDials = 3
  MaxTime = 8
SPECIFICATION FairSpec
INVARIANTS NoHammering IngestSurvives DiagnosisWins
PROPERTY PingersEnd
CHECK_DEADLOCK FALSE
