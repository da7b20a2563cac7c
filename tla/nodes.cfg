SPECIFICATION FairSpec
CONSTANTS
  p1 = p1
  p2 = p2
  p3 = p3
  NoProc = NoProc
  Procs = {p1, p2, p3}
  Signalers = {p3}
  Mortal = {p1}
  NodeCount = 3
  Slots = {1}
  Waits <- WaitsNodes
INVARIANTS
  TypeOK
  ListsSound
  NoWildPointer
  NoDoubleUse
PROPERTIES
  SectionEnds
CHECK_DEADLOCK FALSE
