SPECIFICATION Spec
CONSTANTS
  Plans <- MCPlansAll
  NoPlan = NoPlan
  MaxSignals = 6
  MaxTrays = 3
  NetsPerTray = 2
  MaxPrimaryInputs = 2
  InputValues = {1, 3, 4, 5, 8}
INVARIANTS
  TypeOK
  DirtyListExact
  DirtyListFits
  TrayProjection
  CarryIsCapture
PROPERTIES
  InputReadsBack
