CONSTANT MaxNames = 5
SPECIFICATION Spec
INVARIANTS
  MemoryTypeOK
  NoBadFree
  NothingLost
CHECK_DEADLOCK FALSE
