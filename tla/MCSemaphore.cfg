SPECIFICATION FairSpec
CONSTANTS
    a = a
    b = b
    c = c
    d = d
    Nobody = Nobody
    Threads = {a, b, c, d}
    InitCount = 0
    Workloads <- MCWorkloads
    MaxCalls = 2
PROPERTY WaitsReturn
CHECK_DEADLOCK FALSE
INVARIANT NoOverAdmission
INVARIANT CountKnowsWaiters
INVARIANT NoIdleUnit
