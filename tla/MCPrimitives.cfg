CONSTANTS
  MaxDrivers = 4
SPECIFICATION PrimitivesSpec
INVARIANTS
  ResolutionsAgree
  GatesAgree
CHECK_DEADLOCK FALSE
