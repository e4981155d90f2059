SPECIFICATION WaterfallSpec
CONSTANTS
  Plans <- DepthPlans
  NetLevel <- Levels
  MaxSignals = 4
  MaxTrays = 2
  MaxPrimaryInputs = 1
  MaxCalm = 4
INVARIANTS
  SettledBelowCalm
