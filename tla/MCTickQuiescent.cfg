SPECIFICATION HistorySpec
CONSTANTS
  Plans <- WaterfallPlans
  NoPlan = NoPlan
  MaxSignals = 4
  MaxTrays = 2
  NetsPerTray = 2
  MaxPrimaryInputs = 2
  InputValues = {0, 1, 4}
INVARIANTS
  QuiescentBeforeCommit
