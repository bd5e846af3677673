\* Three callers on a heap of four nodes with five items, so that sifting compares
\* two children and full queues displace.  No symmetry: liveness.
CONSTANTS
    t1 = t1
    t2 = t2
    t3 = t3
    Threads = {t1, t2, t3}
    Items <- FiveItems
    Capacity = 4
    MaxTime = 1
    Forever = 2
SPECIFICATION FairSpec
INVARIANTS
    TypeOK
    HeapOrdered
    NoLostSignal
PROPERTIES
    Refines
    CloseReleases
    TimeoutReturns
    HandOver
