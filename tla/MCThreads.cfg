SPECIFICATION Spec
CONSTANTS
  Threads = {t1, t2, t3}
  Hashers = {t1, t2}
  Lockers = {t1, t2}
  MaxCollections = 3
  Objects = {o1, o2}
  Addrs = {1, 2}
  InitialBuckets = 1
  LoadFactor = 1
  Locks = {o1, o2}
  MaxNesting = 2
  Tasks = {k1, k2}
  Main = Main
  Loop = Loop
  Scopes = {"root", "child"}
  Root = "root"
  Parent <- MCParent
  Delays = {1, 2}
  MaxClock = 2
  MaxSends = 2
  MaxReceives = 3
INVARIANTS
  WorldStopped
  CountersAgree
  NoLostWakeup
  OneHashEach
  TableAgrees
  MutualExclusion
  ResumedOnce
  ReceivesInOrder
  LostOnlyToCancelled
PROPERTIES
  CollectionEnds
  QueuedRuns
CHECK_DEADLOCK FALSE
