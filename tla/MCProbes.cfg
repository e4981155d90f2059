SPECIFICATION ProbedSpec
CONSTANTS
  Plans <- GoodAndBadPlans
  NoPlan = NoPlan
  MaxSignals = 4
  MaxTrays = 2
  NetsPerTray = 2
  MaxPrimaryInputs = 2
  InputValues = {0, 1, 4}
  TestProbes = TRUE
  MaxTicks = 3
  MaxInputs = 2
INVARIANTS
  DriveAccounting
  DriveBound
  CommitProbesBounded
