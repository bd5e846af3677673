\* Three goroutines push and pop on a ring of two cells, without end: the
\* counters wrap around at 10.
CONSTANTS
    t1 = t1
    t2 = t2
    t3 = t3
    a = a
    b = b
    Threads = {t1, t2, t3}
    Values = {a, b}
    None = None
    Size = 2
    Wrap = 10
SPECIFICATION Spec
SYMMETRY Symmetry
PROPERTIES
    Refines
    RefusedForCause
CHECK_DEADLOCK FALSE
