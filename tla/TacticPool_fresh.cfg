CONSTANTS
    Requests = {r1, r2}
    Threads = {t1, t2}
    None = None
    MaxQueue = 1
    MaxDeaths = 0
SPECIFICATION Spec
CHECK_DEADLOCK FALSE
SYMMETRY Symmetry
INVARIANTS RecycledIsFresh
