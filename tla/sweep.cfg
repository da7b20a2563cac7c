SPECIFICATION HSpec
CONSTANTS
  p1 = p1
  p2 = p2
  p3 = p3
  NoPid = NoPid
  Pids = {p1, p2, p3}
  SlotCount = 2
  NodeCount = 1
  MaxHolders = 1
  SweepChunk = 1
  CacheSize = 1
  GenMod = 10
  Interval = 1
  MaxCreates = 2
  MaxWaits = 1
  MaxLives = 1
  MaxNow = 1
SYMMETRY Perms
INVARIANTS
  TypeOK
  HeldResolves
  NodesKept
PROPERTIES
  SweepComplete
  OnePassPerInterval
CHECK_DEADLOCK FALSE
