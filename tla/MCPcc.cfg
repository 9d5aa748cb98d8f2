SPECIFICATION PccSpec
CONSTANTS
  s1 = s1
  s2 = s2
  big = big
  RegionSize = 3
  SlabBlocks = 2
  ExtraBlocks = 0
  Mutators = {m1, m2}
  Tracers = {t1, t2}
  Small = {s1, s2}
  Large = {big}
  SizeOf <- MCSizeOf
  PageSize = 2
  HeapSize = 18
  Headroom = 4
  MaxCollections = 1
INVARIANTS
  ObjectsApart
  BlocksAccounted
  CopiedOnce
CHECK_DEADLOCK FALSE
