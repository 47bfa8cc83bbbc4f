SPECIFICATION FairSpec
CONSTANTS
    w1 = w1
    w2 = w2
    w3 = w3
    c1 = c1
    e1 = e1
    Runner = Runner
    Nil = Nil
    Worker = {w1, w2, w3}
    Caller = {}
    Targets = {0, 2}
    Errs = {e1}
    UserStops = FALSE
    UserCancels = FALSE
    StartFails = FALSE
    WorkerHooks = FALSE
    StepHooks = FALSE
    MaxAdjusts = 1
    MaxCount = 0
    Profiles <- EndlessProfiles
PROPERTIES
    ConcurrencyConverges
