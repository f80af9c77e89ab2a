SPECIFICATION FairSpec
CONSTANTS
    c1 = c1
    c2 = c2
    p1 = p1
    p2 = p2
    s1 = s1
    i1 = i1
    t1 = t1
    t2 = t2
    Nothing = Nothing
    CPUs = {c1, c2}
    Tasks = {t1, t2}
    Producers = {p1, p2}
    Pumps = {s1}
    Idles = {i1}
    Home <- Apart
    Detached = {p1}
    Sizes = {0, 1, 2}
    Avail = 1
    Limit = 2
    PoolSize = 1
    MaxJobs = 2
INVARIANT OnePlace
INVARIANT RunsOnce
INVARIANT WaitDelivers
PROPERTY EveryTaskRuns
CHECK_DEADLOCK FALSE
