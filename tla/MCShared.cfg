CONSTANTS
    Radars = {r1, r2}
    Slow = {r1}
    Workers = {w1}
    NoJob = NoJob
    MaxForwards = 2
    FailThreshold = 1
    OpenFor = 1
    Probes = 1
    Unit = 2
    RatePerTick = 4
    BurstTokens = 2
    Concurrency = 1
    Ordered = {}
    DlqMax = 1
    MaxAttempts = 2
    BackoffBase = 1
    BackoffCap = 1
    SkipDelay = 1
    Rate <- MCRate
    Burst <- MCBurst
    MaxInFlight <- MCMaxInFlight
SPECIFICATION FairSpec
PROPERTY ForwardsSettle
