SPECIFICATION MCSpec
CONSTANTS
    Jobs = {j1, j2}
    NoJob = NoJob
    Keys = {k1}
    NoKey = NoKey
    Producers = {p1, p2}
    Workers = {w1, w2}
    NoWorker = NoWorker
    MaxAttempts = 2
    Delays = {0, 1}
    MaxCrashes = 1
INVARIANTS TypeOK OneJobPerKey OrphansComeFromCrashes LimitKeptByOne
PROPERTIES ImplementsLeases EveryJobEnds
CHECK_DEADLOCK FALSE
