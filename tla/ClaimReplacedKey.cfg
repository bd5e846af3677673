\* Replace while the job it replaces is under way.
CONSTANTS
    a = a
    b = b
    r = r
    m1 = m1
    m2 = m2
    w1 = w1
    w2 = w2
    c1 = c1
    Jobs = {a, b, r, m1, m2}
    Workers = {w1, w2}
    Cancellers = {c1}
    None = None
    Configs <- TwoConfigs
    Loads <- Pairs
    AutoID <- Autos
    Raw <- Calls
    HasFuture = {a}
    Replacing = {r}
    MapJobs = {m1, m2}
    DoneOnRefusal = TRUE
    Failing = {a, b}
    Refusable = {b, m2}
    Delayable = {}
    CancelIDs = {"x"}
    MaxReplays = 1
    MaxObjs = 3
SPECIFICATION Spec
INVARIANTS
    KeyExclusiveAlways
CHECK_DEADLOCK FALSE
