SPECIFICATION Spec
CONSTANTS
  Threads = {1, 2, 3}
  SlotCount = 3
  NodeCount = 3
  MaxWaitCount = 2
  MaxRec = 2
  SpinIters = 1
  TailOn = FALSE
  InitObjects <- ObjsReuse
  Fresh <- FreshReuse
  Menu <- MenuReuse
  MaxPulse = 1
  MaxGen = 2
INVARIANTS
  NotStranded
  TriesNamedObjects
  FreeSlotUnlisted
  NothingLeftBehind
