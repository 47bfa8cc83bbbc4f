SPECIFICATION Spec
CONSTANTS
    w1 = w1
    w2 = w2
    w3 = w3
    s1 = s1
    Worker = {w1, w2}
    Setter = {s1}
    Second = 4
    JitLookahead = 1
    JitSleepCap = 1
    Rates = {2, 4}
    Bursts = {0}
    MinInterval = 1
    StartTime = 1
    MaxTime = 3
    MaxResets = 1
SYMMETRY WorkerSymmetry
INVARIANTS
    TypeOK
    Spacing
    NeverEarly
    LookaheadBound
    SkippedAccounted
PROPERTIES
    SendsArePaced
