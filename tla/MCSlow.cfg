CONSTANTS
    Radars = {r1}
    Slow = {r1}
    Workers = {w1}
    NoJob = NoJob
    MaxForwards = 1
    FailThreshold = 1
    OpenFor = 1
    Probes = 1
    Unit = 3
    RatePerTick = 1
    BurstTokens = 1
    Concurrency = 2
    Ordered = {}
    DlqMax = 1
    MaxAttempts = 2
    BackoffBase = 1
    BackoffCap = 1
    SkipDelay = 1
    Rate <- MCRate
    Burst <- MCBurst
    MaxInFlight <- MCMaxInFlight
SPECIFICATION FairSpec
PROPERTY EmptyBucketOnlyDelays
