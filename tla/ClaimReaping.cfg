\* Two workers above a minimum of one become idle together.
CONSTANTS
    w1 = w1
    w2 = w2
    h1 = h1
    h2 = h2
    BasicJobs = {}
    FastJobs = {}
    HeapJobs = {h1, h2}
    Delayable = {}
    Cancellable = {}
    Workers = {w1, w2}
    Stoppers = {}
    NoJob = NoJob
    MinWorkers = 1
    MaxWorkers = 2
    QueueSize = 2
    MaxAttempts = 1
    Backpressure = "block"
    SubmitTimeout = FALSE
    Spillover = FALSE
    SpillMax = 0
    AutoScale = TRUE
    MaxReplays = 0
    MayPurge = FALSE
    RacingStart = FALSE
    MayPause = FALSE
    MayTerminate = FALSE
    MayGiveUp = FALSE
SPECIFICATION Spec
INVARIANTS
    ReapingStopsAtMin
CHECK_DEADLOCK FALSE
