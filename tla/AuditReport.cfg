CONSTANTS
  Order <- MCOrder
  Outcomes <- MCOutcomes
  Retries = 1
  PayloadIterations <- MCPayloadIterations
  IterationCounts = {1, 3, 9, 101}
  RequestCounts = {1, 3, 250}
  AuditCap = 198
  EnvironmentCap = 0
  MaxRuns = 2
SPECIFICATION Spec
INVARIANTS
  PercentilesAreRanks
  LabelsAgree
  ScoreFollowsOutcome
  CertifiedIffEven
CHECK_DEADLOCK FALSE
