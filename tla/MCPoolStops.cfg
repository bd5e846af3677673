\* Start, Pause, Shutdown and Terminate of a pool that may be postponing jobs,
\* with a submitter blocked on the full heap; the context given to Shutdown may
\* expire.  No symmetry: liveness.
CONSTANTS
    w1 = w1
    h1 = h1
    h2 = h2
    s1 = s1
    BasicJobs = {}
    FastJobs = {}
    HeapJobs = {h1, h2}
    Delayable = {h1}
    Cancellable = {}
    Workers = {w1}
    Stoppers = {s1}
    NoJob = NoJob
    MinWorkers = 1
    MaxWorkers = 1
    QueueSize = 1
    MaxAttempts = 1
    Backpressure = "block"
    SubmitTimeout = FALSE
    Spillover = FALSE
    SpillMax = 0
    AutoScale = FALSE
    MaxReplays = 0
    MayPurge = FALSE
    RacingStart = TRUE
    MayPause = TRUE
    MayTerminate = TRUE
    MayGiveUp = TRUE
SPECIFICATION FairSpec
PROPERTIES
    ShutdownEnds
    SubmitEnds
    TerminateEnds
    StoppedEmpties
CHECK_DEADLOCK FALSE
