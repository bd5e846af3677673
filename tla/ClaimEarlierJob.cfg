\* README.md:180 with two callers asleep on a delayed job.
CONSTANTS
    t1 = t1
    t2 = t2
    Threads = {t1, t2}
    Items <- ThreeItems
    Capacity = 0
    MaxTime = 2
    Forever = 3
SPECIFICATION Spec
INVARIANT EarlierJobWakes
