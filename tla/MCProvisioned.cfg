CONSTANTS
    Radars = {r1, r2}
    Slow = {r1}
    Workers = {w1, w2}
    NoJob = NoJob
    MaxForwards = 2
    FailThreshold = 1
    OpenFor = 1
    Probes = 1
    Unit = 2
    RatePerTick = 6
    BurstTokens = 3
    Concurrency = 2
    Ordered = {r1}
    DlqMax = 1
    MaxAttempts = 1
    BackoffBase = 1
    BackoffCap = 1
    SkipDelay = 1
    Rate <- MCRate
    Burst <- MCBurst
    MaxInFlight <- MCMaxInFlight
SPECIFICATION FairSpec
INVARIANTS LeasesAreWorkers ProbeIsOwed
PROPERTY ForwardsSettle
