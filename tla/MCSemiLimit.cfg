SPECIFICATION SemiSpec
CONSTANTS
  Slots = {s1, s2}
  PageSize = 2
  InitialSize = 4
  MaxRegion = 6
  LargeSizes = {1, 2}
  Headroom = 1
  MaxObjects = 3
  MaxCollections = 3
INVARIANTS
  SurvivorsFit
CHECK_DEADLOCK FALSE
