\* A job that overflows into the spill list before the pool is drained.
CONSTANTS
    w1 = w1
    f1 = f1
    f2 = f2
    s1 = s1
    BasicJobs = {}
    FastJobs = {f1, f2}
    HeapJobs = {}
    Delayable = {}
    Cancellable = {}
    Workers = {w1}
    Stoppers = {s1}
    NoJob = NoJob
    MinWorkers = 1
    MaxWorkers = 1
    QueueSize = 1
    MaxAttempts = 1
    Backpressure = "reject"
    SubmitTimeout = FALSE
    Spillover = TRUE
    SpillMax = 0
    AutoScale = FALSE
    MaxReplays = 0
    MayPurge = FALSE
    RacingStart = FALSE
    MayPause = FALSE
    MayTerminate = FALSE
    MayGiveUp = FALSE
SPECIFICATION Spec
INVARIANTS
    DrainFinishesSpilled
CHECK_DEADLOCK FALSE
