CONSTANTS
  Identifiers <- Names
  Files <- ThreeSourceFiles
  Netlists <- NoNetlists
  NetsPerTray = 2
  LevelModulus = 2
  BatchChunk = 2
SPECIFICATION LoaderSpec
INVARIANTS
  WaterfallOrder
CHECK_DEADLOCK FALSE
