CONSTANTS
    Radars = {r1}
    MaxForwards = 1
    Workers = {w1, w2}
    FailThreshold = 2
    OpenFor = 2
    Probes = 2
    Unit = 2
    RatePerTick = 1
    BurstTokens = 1
    MaxTime = 3
    MaxSpan = 2
    MaxRestarts = 1
    NotRead = NotRead
    Rate <- MCRate
    Burst <- MCBurst
SPECIFICATION Spec
SYMMETRY WorkerSymmetry
INVARIANTS GatesTypeOK RateBound StrandedByLossOnly
PROPERTY ImplementsTicks
