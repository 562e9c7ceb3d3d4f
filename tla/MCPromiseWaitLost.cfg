CONSTANTS
    w1 = w1
    w2 = w2
    w3 = w3
    u1 = u1
    u2 = u2
    x1 = x1
    x2 = x2
    y1 = y1
    r1 = r1
    None = None
    Waiters = {w1}
    Pushers = {x1}
    Updaters = {u1}
    RemotePushers = {}
    RemoteReaders = {}
CHECK_DEADLOCK FALSE
SPECIFICATION FairSpec
PROPERTY AwaitContinues
