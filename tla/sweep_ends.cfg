SPECIFICATION FairSpec
CONSTANTS
  p1 = p1
  p2 = p2
  NoPid = NoPid
  Pids = {p1, p2}
  SlotCount = 2
  NodeCount = 1
  MaxHolders = 0
  SweepChunk = 1
  CacheSize = 1
  GenMod = 10
  Interval = 1
  MaxCreates = 1
  MaxWaits = 1
  MaxLives = 2
  MaxNow = 1
PROPERTIES
  SweepEnds
CHECK_DEADLOCK FALSE
