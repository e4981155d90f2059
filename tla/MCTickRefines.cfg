SPECIFICATION HistorySpec
CONSTANTS
  Plans <- RefinePlans
  NoPlan = NoPlan
  MaxSignals = 4
  MaxTrays = 2
  NetsPerTray = 2
  MaxPrimaryInputs = 2
  InputValues = {0, 1, 4}
PROPERTIES
  ImplementsNetlist
