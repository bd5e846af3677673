\* Group.Go refused by a full queue.
CONSTANTS
    a = a
    b = b
    r = r
    m1 = m1
    m2 = m2
    w1 = w1
    w2 = w2
    c1 = c1
    Jobs = {a, b, r, m1, m2}
    Workers = {w1, w2}
    Cancellers = {c1}
    None = None
    Configs <- Tracking
    Loads <- Map
    AutoID <- Autos
    Raw <- Calls
    HasFuture = {a, b}
    Replacing = {r}
    MapJobs = {m1, m2}
    DoneOnRefusal = FALSE
    Failing = {a, b}
    Refusable = {b, m2}
    Delayable = {}
    CancelIDs = {"x"}
    MaxReplays = 1
    MaxObjs = 3
SPECIFICATION FairSpec
PROPERTIES
    MapEnds
CHECK_DEADLOCK FALSE
