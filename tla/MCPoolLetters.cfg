\* Dead letters are replayed and purged while jobs are spilled and
\* submitted to a full heap; the autoscaler and idle workers change the number
\* of workers, and Terminate may end it all.
CONSTANTS
    w1 = w1
    w2 = w2
    w3 = w3
    h1 = h1
    h2 = h2
    h3 = h3
    BasicJobs = {}
    FastJobs = {}
    HeapJobs = {h1, h2, h3}
    Delayable = {}
    Cancellable = {}
    Workers = {w1, w2, w3}
    Stoppers = {}
    NoJob = NoJob
    MinWorkers = 1
    MaxWorkers = 2
    QueueSize = 2
    MaxAttempts = 1
    Backpressure = "reject"
    SubmitTimeout = FALSE
    Spillover = TRUE
    SpillMax = 1
    AutoScale = TRUE
    MaxReplays = 1
    MayPurge = TRUE
    RacingStart = FALSE
    MayPause = FALSE
    MayTerminate = TRUE
    MayGiveUp = FALSE
SPECIFICATION Spec
SYMMETRY Symmetry
INVARIANTS
    AttemptsBounded
    QueuesBounded
    WorkersBounded
PROPERTIES
    EndIsFinal
CHECK_DEADLOCK FALSE
