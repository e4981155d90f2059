SPECIFICATION Spec
CONSTANTS
  Plans <- GateAndSkipPlans
  NoPlan = NoPlan
  MaxSignals = 4
  MaxTrays = 2
  NetsPerTray = 2
  MaxPrimaryInputs = 2
  InputValues = {0, 1, 2, 3, 4, 5, 6, 7}
INVARIANTS
  GatesAreKleene
PROPERTIES
  TickTerminates
