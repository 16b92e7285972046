CONSTANTS
    Radars = {r1}
    Slow = {}
    Workers = {w1, w2}
    NoJob = NoJob
    MaxForwards = 2
    FailThreshold = 1
    OpenFor = 1
    Probes = 1
    Unit = 2
    RatePerTick = 1
    BurstTokens = 1
    Concurrency = 2
    Ordered = {}
    DlqMax = 1
    MaxAttempts = 2
    BackoffBase = 1
    BackoffCap = 1
    SkipDelay = 1
    Rate <- MCRate
    Burst <- MCBurst
    MaxInFlight <- MCMaxInFlight
SPECIFICATION Spec
SYMMETRY WorkerSymmetry
INVARIANTS TypeOK Conservation AttemptBudget BreakerCoherent SettledIsJournaled
PROPERTIES OpenPauseIsKept DlqForgetsTheOldest ImplementsLifecycle ImplementsHub
