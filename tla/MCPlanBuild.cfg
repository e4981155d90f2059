CONSTANTS
  Netlists <- BuildNetlists
  NetsPerTray = 2
  LevelModulus = 4
  BatchChunk = 2
SPECIFICATION BuildSpec
INVARIANTS
  LevelizeTypeOK
  ConvergesIffAcyclic
  LevelsRise
  LevelsBounded
  PackedOnce
  PackedAfterSources
  BuildTypeOK
  FillFits
  PlanLoads
  SpansTile
