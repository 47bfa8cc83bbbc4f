SPECIFICATION Spec
CONSTANTS
    w1 = w1
    w2 = w2
    Worker = {w1, w2}
    Pattern = 2
    Word = 16
    Mixes <- SomeMixes
    DefaultChunk = 2
    Sizes = {1, 4}
    Chunks = {0, 3}
    Buffers = {1, 3}
    Programs = {"command", "early", "other"}
    SampleBuckets <- Buckets
    Durations <- SomeDurations
    LastBucket = 4
    Percents = {50, 99}
    MaxCalls = 2
SYMMETRY WorkerSymmetry
INVARIANTS
    EndsOnce
    CloseIsNoError
    FailuresCounted
    UploadIsExact
    MixIsProportional
    PercentilesFit
