SPECIFICATION Spec
CONSTANTS
    Procs = {p1, p2}
    NoProc = NoProc
    MaxTries = 2
    MaxInodes = 5
    FirstFiles <- Leftover
INVARIANT OneRegion
CHECK_DEADLOCK FALSE
