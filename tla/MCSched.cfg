CONSTANTS
    t1 = t1
    t2 = t2
    c1 = c1
    c2 = c2
    MaxOps = 2
    MaxWakes = 1
    Threads = {t1, t2}
    CPUs = {c1, c2}
    Queues = {1, 2}
    SleepSets = {{1}, {1, 2}}
    WakeOps = {"wake_all"}
    Idle = Idle
    NoThread = NoThread
    FirstQueue <- MCFirstQueue
SPECIFICATION BoundedSpec
INVARIANT OneCpuPerThread
INVARIANT QueuedOnce
INVARIANT NoSchedulerError
INVARIANT NoLostWakeup
PROPERTY RunnableRuns
PROPERTY SleepersReturn
CHECK_DEADLOCK FALSE
