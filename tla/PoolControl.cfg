\* Pause, Resume, Terminate and two callers of Shutdown interleave; a deadline
\* ends blocked submissions and requeues.
CONSTANTS
    w1 = w1
    b1 = b1
    f1 = f1
    s1 = s1
    s2 = s2
    BasicJobs = {b1}
    FastJobs = {f1}
    HeapJobs = {}
    Delayable = {}
    Cancellable = {}
    Workers = {w1}
    Stoppers = {s1, s2}
    NoJob = NoJob
    MinWorkers = 1
    MaxWorkers = 1
    QueueSize = 1
    MaxAttempts = 2
    Backpressure = "block"
    SubmitTimeout = TRUE
    Spillover = FALSE
    SpillMax = 0
    AutoScale = FALSE
    MaxReplays = 0
    MayPurge = FALSE
    RacingStart = TRUE
    MayPause = TRUE
    MayTerminate = TRUE
    MayGiveUp = TRUE
SPECIFICATION PauseSpec
SYMMETRY Symmetry
INVARIANTS
    PauseBounds
PROPERTIES
    StopIsFinal
CHECK_DEADLOCK FALSE
