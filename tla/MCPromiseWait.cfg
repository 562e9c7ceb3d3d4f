CONSTANTS
    w1 = w1
    w2 = w2
    u1 = u1
    u2 = u2
    x1 = x1
    x2 = x2
    y1 = y1
    r1 = r1
    None = None
    Waiters = {w1, w2}
    Pushers = {x1, x2}
    Updaters = {u1, u2}
    RemotePushers = {y1}
    RemoteReaders = {r1}
CHECK_DEADLOCK FALSE
SPECIFICATION FairSpec
INVARIANTS TypeOK PausedInOnePlace TagCountsProcessing
PROPERTY ListedAreWoken
