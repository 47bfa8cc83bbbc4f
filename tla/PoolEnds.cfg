SPECIFICATION FairSpec
CONSTANTS
    w1 = w1
    w2 = w2
    w3 = w3
    c1 = c1
    e1 = e1
    Runner = Runner
    Nil = Nil
    Worker = {w1, w2}
    Caller = {}
    Targets = {}
    Errs = {}
    UserStops = TRUE
    UserCancels = TRUE
    StartFails = FALSE
    WorkerHooks = TRUE
    StepHooks = FALSE
    MaxAdjusts = 0
    MaxCount = 0
    Profiles <- EndingProfiles
PROPERTIES
    RunEnds
    LivesAsPromised
