SPECIFICATION Spec
CONSTANTS
  BenchCount = 2
  Options <- RecordOptions
  MaxSessions = 2
  MaxClock = 1
  MaxFaults = 1
  InitialCapacity = 2
  MaxInvocations = 2
INVARIANTS
  RecordsTypeOK
  SuccessIsRecorded
  NoSampleMissing
  RunsKeptApart
  RefusedOnlyAfterFailure
  DoubleFreeNeedsGrowth
  BaseNeverDrifts
  PrevIsLatestInvocation
  MetricsOfEveryRun
CHECK_DEADLOCK FALSE
