SPECIFICATION Spec
CONSTANTS
    Unset = Unset
    Forever = Forever
    Environments <- Envs
    ItersCap = 100
    TailCap = 2
    PctCap = 10
    PctDefault = 4
    CreditMin <- MinusTwo
    CreditMax = 3
    ProbeEvery = 4
    ProbeWords = 8
    Second = 10
    Percent = 1
    BurstPart = 2
    MaxWord = 104
    MaxLeft = 3
    MaxLag = 1
    MaxTime = 13
INVARIANTS
    TypeOK
    RateBound
    RefillsByHalf
    ReEarned
    Punctual
