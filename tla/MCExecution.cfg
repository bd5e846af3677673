\* Futures, cancellation, replay, keys and Map on two pools.
CONSTANTS
    a = a
    b = b
    r = r
    m1 = m1
    m2 = m2
    w1 = w1
    w2 = w2
    c1 = c1
    Jobs = {a, b, r, m1, m2}
    Workers = {w1, w2}
    Cancellers = {c1}
    None = None
    Configs <- TwoConfigs
    Loads <- Pairs
    AutoID <- Autos
    Raw <- Calls
    HasFuture = {a, b}
    Replacing = {r}
    MapJobs = {m1, m2}
    DoneOnRefusal = TRUE
    Failing = {a}
    Refusable = {b, m2}
    Delayable = {a}
    CancelIDs = {"x"}
    MaxReplays = 1
    MaxObjs = 3
SPECIFICATION FairSpec
INVARIANTS
    TypeOK
    IndexTrue
    FutureTrue
    KeyExclusive
    InspectTrue
    MapComplete
PROPERTIES
    FutureEnds
    MapEnds
CHECK_DEADLOCK FALSE
