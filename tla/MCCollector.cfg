SPECIFICATION Spec
CONSTANTS
  Slots = {s1, s2}
  PageSize = 2
  InitialSize = 4
  MaxRegion = 6
  LargeSizes = {1, 2}
  Headroom = 1
  MaxObjects = 3
  MaxCollections = 2
  p1 = p1
  p2 = p2
  e1 = e1
  e2 = e2
  f1 = f1
  f2 = f2
  Workers = {w1, w2}
  Plain = {p1, p2}
  Ephemerons = {e1, e2}
  Finalizers = {f1, f2}
  Buckets <- MCBuckets
  BucketOf <- MCBucketOf
  Shapes <- MCShapes
  o1 = o1
  o2 = o2
  o3 = o3
  o4 = o4
  WorkerCount = 2
  BufSizes <- MCBufSizes
  MaxBuf = 1
  MaxSpurious = 1
  UnparkEvery = 2
  HeapObjects = {o1, o2, o3, o4}
  Graphs <- MCGraphs
  Rounds <- MCRounds
  LastAddr = 7
  HashedKeys = {0, 8, 16, 1, 7, 15, 23}
  MapValues = {1, 2}
  MinSize = 8
INVARIANTS
  SameGraph
  BudgetKept
  RefusedWhenGrown
  MarkedIsAlive
  FiredOnce
  RoundIsDone
  TreeFindsSpans
  MapFindsKeys
PROPERTIES
  CollectionsEnd
CHECK_DEADLOCK FALSE
