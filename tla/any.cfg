SPECIFICATION FairSpec
CONSTANTS
  Threads = {1, 2, 3}
  SlotCount = 3
  NodeCount = 2
  MaxWaitCount = 2
  MaxRec = 2
  SpinIters = 0
  TailOn = TRUE
  InitObjects <- ObjsAny
  Fresh = {}
  Menu <- MenuAny
  MaxPulse = 0
  MaxGen = 0
INVARIANTS
  TypeOK
  NoLostWakeup
  WordsWellFormed
PROPERTIES
  Linearizable
  SignalWakes
  TimedWaitReturns
