SPECIFICATION Spec
CONSTANTS
    w1 = w1
    w2 = w2
    w3 = w3
    Worker = {w1, w2, w3}
    Second = 20
    JitLookahead = 2
    JitSleepCap = 1
    TickPeriod = 2
    MaxTime = 19
    MaxCalls = 8
    Flags <- SomeFlags
    Profiles <- SomeProfiles
SYMMETRY WorkerSymmetry
INVARIANTS
    TypeOK
    NeverUnlimited
    GetTakesDuration
    MakesRepetitions
    PaceKept
    BacklogDropped
PROPERTIES
    MovesTowardsTarget
    ArrivesAtTarget
