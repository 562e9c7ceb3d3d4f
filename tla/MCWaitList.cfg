CONSTANTS
    w1 = w1
    w2 = w2
    w3 = w3
    p1 = p1
    u1 = u1
    u2 = u2
    Nil = Nil
    THRESHOLD = 1
    Sleepers = {w1, w2}
    Allocators = {p1}
    Updaters = {u1, u2}
    MaxNodes = 5
    MaxPauses = 1
CHECK_DEADLOCK FALSE
SPECIFICATION FairSpec
INVARIANTS TypeOK OneNodePerWaiter FreeNodesUnreachable
PROPERTY SleepersResume
