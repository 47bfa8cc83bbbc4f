SPECIFICATION Spec
CONSTANTS
    w1 = w1
    w2 = w2
    w3 = w3
    c1 = c1
    e1 = e1
    Runner = Runner
    Nil = Nil
    Worker = {w1, w2, w3}
    Caller = {}
    Targets = {1, 2}
    Errs = {e1}
    UserStops = FALSE
    UserCancels = FALSE
    StartFails = TRUE
    WorkerHooks = FALSE
    StepHooks = FALSE
    MaxAdjusts = 1
    MaxCount = 5
    Profiles <- StepProfiles
SYMMETRY WorkerSymmetry
INVARIANTS
    RepetitionsExact
    PauseBoundsCalls
    RepsOverrunBound
PROPERTIES
    NeverUndershoots
    RepsUseStepFunction
