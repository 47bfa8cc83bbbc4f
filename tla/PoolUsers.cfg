SPECIFICATION Spec
CONSTANTS
    w1 = w1
    w2 = w2
    w3 = w3
    c1 = c1
    e1 = e1
    Runner = Runner
    Nil = Nil
    Worker = {w1, w2}
    Caller = {c1}
    Targets <- UserTargets
    Errs = {e1}
    UserStops = TRUE
    UserCancels = TRUE
    StartFails = TRUE
    WorkerHooks = TRUE
    StepHooks = TRUE
    MaxAdjusts = 1
    MaxCount = 0
    Profiles <- MixedProfiles
SYMMETRY WorkerSymmetry
INVARIANTS
    TypeOK
    ActiveAccounting
    WgAccounting
    WaitReturnsFirst
    OverspawnBound
