SPECIFICATION Spec
CONSTANTS
  Threads = {1, 2}
  SlotCount = 3
  NodeCount = 3
  MaxWaitCount = 2
  MaxRec = 2
  SpinIters = 0
  TailOn = FALSE
  InitObjects <- ObjsRollback
  Fresh = {}
  Menu <- MenuRollback
  MaxPulse = 0
  MaxGen = 0
INVARIANTS
  NoLostWakeup
