\* CancelJob of an item of Map while the next item is submitted.
CONSTANTS
    a = a
    b = b
    r = r
    m1 = m1
    m2 = m2
    w1 = w1
    w2 = w2
    c1 = c1
    Jobs = {a, b, r, m1, m2}
    Workers = {w1, w2}
    Cancellers = {c1}
    None = None
    Configs <- Tracking
    Loads <- Map
    AutoID <- Autos
    Raw <- Calls
    HasFuture = {a, b}
    Replacing = {r}
    MapJobs = {m1, m2}
    DoneOnRefusal = TRUE
    Failing = {a, b}
    Refusable = {b, m2}
    Delayable = {}
    CancelIDs = {"auto-m1"}
    MaxReplays = 1
    MaxObjs = 3
SPECIFICATION Spec
INVARIANTS
    CancelNamesJob
CHECK_DEADLOCK FALSE
