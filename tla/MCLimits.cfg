\* Two jobs of one rate and concurrency key, two workers, all three modes.
CONSTANTS
    j1 = j1
    j2 = j2
    w1 = w1
    w2 = w2
    Jobs = {j1, j2}
    Workers = {w1, w2}
    None = None
    Modes = {"queue", "reject", "block"}
    Rates <- SomeRates
    Second = 2
    Limit <- TwoLimits
    MaxAttempts = 2
    SubmitTimeout = TRUE
    MaxReplays = 1
    MaxSets = 1
    MaxTime = 2
SPECIFICATION Spec
SYMMETRY Symmetry
INVARIANTS
    WithinRate
    StartsPaid
PROPERTIES
    WithinLimit
CHECK_DEADLOCK FALSE
