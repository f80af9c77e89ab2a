CONSTANTS
    t1 = t1
    t2 = t2
    t3 = t3
    c1 = c1
    c2 = c2
    Threads = {t1, t2, t3}
    CPUs = {c1, c2}
    Queues = {1, 2}
    SleepSets = {{1, 2}}
    WakeOps = {"wake_one"}
    Idle = Idle
    NoThread = NoThread
    FirstQueue <- MCFirstQueue
SPECIFICATION MoveSpec
INVARIANT OneRunQueue
