CONSTANTS
    s1 = s1
    s2 = s2
    n1 = n1
    a = a
    b = b
    None = None
    SchedulerThreads = {s1, s2}
    OtherThreads = {n1}
    Tasks = {a, b}
    Priorities = {1}
    NextQueue <- Ring2
    Affinity <- Affinity2
SPECIFICATION FairSpec
INVARIANTS TypeOK SizeExact
PROPERTIES VisibleWorkIsTaken ImplementsDispatch
