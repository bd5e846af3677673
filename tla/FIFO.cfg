\* Three goroutines on a buffer of two slots: two may be parked on one condition
\* while the third barges in, and head and tail wrap around.  No symmetry: liveness.
CONSTANTS
    t1 = t1
    t2 = t2
    t3 = t3
    a = a
    b = b
    None = None
    Threads = {t1, t2, t3}
    Values = {a, b}
    Capacity = 2
SPECIFICATION FairSpec
INVARIANTS
    NoLostWakeup
PROPERTIES
    Refines
    CloseReleases
    HandOver
