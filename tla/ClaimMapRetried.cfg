\* Map with MaxAttempts 2.
CONSTANTS
    a = a
    b = b
    r = r
    m1 = m1
    m2 = m2
    w1 = w1
    w2 = w2
    c1 = c1
    Jobs = {a, b, r, m1, m2}
    Workers = {w1, w2}
    Cancellers = {c1}
    None = None
    Configs <- Tracking
    Loads <- Map
    AutoID <- Autos
    Raw <- RetriedCalls
    HasFuture = {a, b}
    Replacing = {r}
    MapJobs = {m1, m2}
    DoneOnRefusal = TRUE
    Failing = {m1}
    Refusable = {b, m2}
    Delayable = {}
    CancelIDs = {"x"}
    MaxReplays = 1
    MaxObjs = 3
SPECIFICATION Spec
INVARIANTS
    CounterNatural
CHECK_DEADLOCK FALSE
