\* A caller of WaitIdle beside two workers and a heap with room for every job, a
\* retried and a cancelled one among them; nothing stops the pool.  No symmetry: liveness.
CONSTANTS
    w1 = w1
    w2 = w2
    b1 = b1
    f1 = f1
    BasicJobs = {b1}
    FastJobs = {f1}
    HeapJobs = {}
    Delayable = {}
    Cancellable = {f1}
    Workers = {w1, w2}
    Stoppers = {}
    NoJob = NoJob
    MinWorkers = 2
    MaxWorkers = 2
    QueueSize = 2
    MaxAttempts = 2
    Backpressure = "block"
    SubmitTimeout = FALSE
    Spillover = FALSE
    SpillMax = 0
    AutoScale = FALSE
    MaxReplays = 0
    MayPurge = FALSE
    RacingStart = FALSE
    MayPause = FALSE
    MayTerminate = FALSE
    MayGiveUp = FALSE
SPECIFICATION IdleFairSpec
PROPERTIES
    WaitIdleReturns
    AcceptedEnds
CHECK_DEADLOCK FALSE
