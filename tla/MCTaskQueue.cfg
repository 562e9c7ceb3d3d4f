CONSTANTS
    t1 = t1
    t2 = t2
    t3 = t3
    a = a
    b = b
    c = c
    d = d
    Threads = {t1, t2, t3}
    Tasks = {a, b, c, d}
    RING_SIZE = 2
    NULL = NULL
SPECIFICATION FairSpec
INVARIANTS TypeOK NoTaskTwice CellBalance NoOrphanClaim
PROPERTIES ImplementsPool PopsProgress
