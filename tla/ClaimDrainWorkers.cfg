\* The autoscaler has decided on another worker when Shutdown begins.
CONSTANTS
    w1 = w1
    w2 = w2
    h1 = h1
    h2 = h2
    s1 = s1
    BasicJobs = {}
    FastJobs = {}
    HeapJobs = {h1, h2}
    Delayable = {}
    Cancellable = {}
    Workers = {w1, w2}
    Stoppers = {s1}
    NoJob = NoJob
    MinWorkers = 1
    MaxWorkers = 2
    QueueSize = 2
    MaxAttempts = 1
    Backpressure = "block"
    SubmitTimeout = FALSE
    Spillover = FALSE
    SpillMax = 0
    AutoScale = TRUE
    MaxReplays = 0
    MayPurge = FALSE
    RacingStart = FALSE
    MayPause = FALSE
    MayTerminate = FALSE
    MayGiveUp = FALSE
SPECIFICATION Spec
INVARIANTS
    DrainWaitsForWorkers
CHECK_DEADLOCK FALSE
