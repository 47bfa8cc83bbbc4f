SPECIFICATION FairSpec
CONSTANTS
    w1 = w1
    w2 = w2
    w3 = w3
    s1 = s1
    Worker = {w1, w2}
    Setter = {}
    Second = 4
    JitLookahead = 2
    JitSleepCap = 1
    Rates = {2, 4}
    Bursts = {0}
    MinInterval = 1
    StartTime = 1
    MaxTime = 5
    MaxResets = 0
INVARIANTS
    BurstBound
PROPERTIES
    CancelledTakesReturn
