SPECIFICATION FairSpec
CONSTANTS
    r = r
    x = x
    y = y
    Slots = {r, x, y}
    Root = r
    Nobody = Nobody
    Kinds = {TRUE, FALSE}
    Others = {0, 1}
    MaxThreads = 3
    ReapAt = 2
    AllocsFail = TRUE
    MaxCreates = 3
    MaxReaps = 1
INVARIANT FreedUnused
INVARIANT PoolStaysDead
CHECK_DEADLOCK FALSE
PROPERTY JoinReturns
