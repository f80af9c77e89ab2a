SPECIFICATION FairSpec
CONSTANTS
    a = a
    b = b
    c = c
    d = d
    Nobody = Nobody
    Threads = {a, b, c, d}
    queue_size = 2
    Workloads <- MCWorkloads
    MaxCalls = 2
PROPERTY WaitsReturn
CHECK_DEADLOCK FALSE
INVARIANT NobodyForgotten
PROPERTY ImplementsFifo
