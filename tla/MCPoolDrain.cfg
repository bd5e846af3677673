\* A fixed pool of two workers that is started and shut down while a job of
\* each kind is submitted, retried, postponed and cancelled.
CONSTANTS
    w1 = w1
    w2 = w2
    b1 = b1
    f1 = f1
    h1 = h1
    s1 = s1
    BasicJobs = {b1}
    FastJobs = {f1}
    HeapJobs = {h1}
    Delayable = {h1}
    Cancellable = {f1}
    Workers = {w1, w2}
    Stoppers = {s1}
    NoJob = NoJob
    MinWorkers = 2
    MaxWorkers = 2
    QueueSize = 1
    MaxAttempts = 2
    Backpressure = "dropOldest"
    SubmitTimeout = FALSE
    Spillover = FALSE
    SpillMax = 0
    AutoScale = FALSE
    MaxReplays = 0
    MayPurge = FALSE
    RacingStart = FALSE
    MayPause = FALSE
    MayTerminate = FALSE
    MayGiveUp = FALSE
SPECIFICATION Spec
SYMMETRY Symmetry
INVARIANTS
    OnePlace
    DrainComplete
CHECK_DEADLOCK FALSE
