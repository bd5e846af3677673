\* One worker, two jobs: what runs while the pool is paused.
CONSTANTS
    w1 = w1
    b1 = b1
    f1 = f1
    BasicJobs = {b1}
    FastJobs = {f1}
    HeapJobs = {}
    Delayable = {}
    Cancellable = {}
    Workers = {w1}
    Stoppers = {}
    NoJob = NoJob
    MinWorkers = 1
    MaxWorkers = 1
    QueueSize = 1
    MaxAttempts = 1
    Backpressure = "block"
    SubmitTimeout = FALSE
    Spillover = FALSE
    SpillMax = 0
    AutoScale = FALSE
    MaxReplays = 0
    MayPurge = FALSE
    RacingStart = FALSE
    MayPause = TRUE
    MayTerminate = FALSE
    MayGiveUp = FALSE
SPECIFICATION PauseSpec
SYMMETRY Symmetry
INVARIANTS
    PausedJobsWait
CHECK_DEADLOCK FALSE
