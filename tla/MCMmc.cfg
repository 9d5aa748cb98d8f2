SPECIFICATION MmcSpec
CONSTANTS
  s1 = s1
  s2 = s2
  big = big
  BlockGranules = 3
  SlabBlocks = 4
  MetaBlocks = 1
  MinimumReserve = 2
  Mutators = {m1, m2}
  Tracers = {t1, t2}
  Small = {s1, s2}
  Large = {big}
  SizeOf <- MCSizeOf
  Slots <- MCSlots
  HeapSize = 9
  Growths = {3}
  Pinnable = {s1}
  Bounds <- MCBounds
INVARIANTS
  NoflApart
  NoflAccounted
  EvacuatedOnce
PROPERTIES
  PinnedStays
SYMMETRY MCSymmetry
CHECK_DEADLOCK FALSE
