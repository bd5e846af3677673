\* A dead letter without a future, replayed and recycled under deadletter.
CONSTANTS
    a = a
    b = b
    r = r
    m1 = m1
    m2 = m2
    w1 = w1
    w2 = w2
    c1 = c1
    Jobs = {a, b, r, m1, m2}
    Workers = {w1, w2}
    Cancellers = {}
    None = None
    Configs <- TwoConfigs
    Loads <- Pairs
    AutoID <- Autos
    Raw <- Calls
    HasFuture = {b}
    Replacing = {r}
    MapJobs = {m1, m2}
    DoneOnRefusal = TRUE
    Failing = {a}
    Refusable = {b, m2}
    Delayable = {}
    CancelIDs = {"x"}
    MaxReplays = 1
    MaxObjs = 3
SPECIFICATION Spec
INVARIANTS
    FutureTrue
CHECK_DEADLOCK FALSE
