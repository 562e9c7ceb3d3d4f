CONSTANTS
    t1 = t1
    t2 = t2
    t3 = t3
    a = a
    b = b
    c = c
    Free = Free
    Busy = Busy
    Threads = {t1, t2}
    Keys = {a, b, c}
    Hash <- Collide
    INIT_ALLOC = 4
    MaxTables = 2
SPECIFICATION FairSpec
INVARIANTS TypeOK OneCellPerKey ProbeFindsKey RegisteredIsFound
PROPERTY OperationsEnd
