SPECIFICATION HSpec
CONSTANTS
  p1 = p1
  p2 = p2
  NoPid = NoPid
  Pids = {p1, p2}
  SlotCount = 2
  NodeCount = 1
  MaxHolders = 1
  SweepChunk = 1
  CacheSize = 1
  GenMod = 10
  Interval = 0
  MaxCreates = 1
  MaxWaits = 1
  MaxLives = 1
  MaxNow = 0
SYMMETRY Perms
PROPERTIES
  DeadNodesPurged
CHECK_DEADLOCK FALSE
