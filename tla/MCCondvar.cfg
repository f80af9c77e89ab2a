SPECIFICATION FairSpec
CONSTANTS
    a = a
    b = b
    c = c
    d = d
    Threads = {a, b, c, d}
    Nobody = Nobody
    MaxCalls = 2
    Locked = FALSE
    Ops <- TwoWaiters
INVARIANT SeqsCountWaiters
INVARIANT DestroyedUnused
CHECK_DEADLOCK FALSE
PROPERTY BroadcastReleases
