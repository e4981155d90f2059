CONSTANTS
  Identifiers <- Names
  Files <- TwoSourceFiles
  Netlists <- NoNetlists
  NetsPerTray = 2
  LevelModulus = 2
  BatchChunk = 2
SPECIFICATION LoaderSpec
INVARIANTS
  LoaderTypeOK
  GatesNameTheirNets
  TwoSourceOrder
CHECK_DEADLOCK FALSE
