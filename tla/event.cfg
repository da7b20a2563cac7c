SPECIFICATION HSpec
CONSTANTS
  Threads = {1, 2, 3}
  SlotCount = 3
  NodeCount = 2
  MaxWaitCount = 2
  MaxRec = 2
  SpinIters = 1
  TailOn = TRUE
  InitObjects <- ObjsEvent
  Fresh = {}
  Menu <- MenuEvent
  MaxPulse = 1
  MaxGen = 0
INVARIANTS
  NoLostWakeup
PROPERTIES
  NoFalseTimeout
  PulseReaches
  Linearizable
