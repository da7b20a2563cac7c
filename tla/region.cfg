SPECIFICATION FairSpec
CONSTANTS
    Procs = {p1, p2, p3}
    NoProc = NoProc
    MaxTries = 2
    MaxInodes = 7
    FirstFiles <- Found
INVARIANTS
    TypeOK
    RegionReady
    RetryEnough
PROPERTIES
    NeverHarmed
    OpenEnds
CHECK_DEADLOCK FALSE
