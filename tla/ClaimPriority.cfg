\* A job of high priority and one of normal priority wait for one worker.
CONSTANTS
    w1 = w1
    f1 = f1
    h1 = h1
    s1 = s1
    BasicJobs = {}
    FastJobs = {f1}
    HeapJobs = {h1}
    Delayable = {}
    Cancellable = {}
    Workers = {w1}
    Stoppers = {s1}
    NoJob = NoJob
    MinWorkers = 1
    MaxWorkers = 1
    QueueSize = 2
    MaxAttempts = 1
    Backpressure = "reject"
    SubmitTimeout = FALSE
    Spillover = FALSE
    SpillMax = 0
    AutoScale = FALSE
    MaxReplays = 0
    MayPurge = FALSE
    RacingStart = FALSE
    MayPause = FALSE
    MayTerminate = FALSE
    MayGiveUp = FALSE
SPECIFICATION Spec
PROPERTY
    PriorityRunsFirst
CHECK_DEADLOCK FALSE
