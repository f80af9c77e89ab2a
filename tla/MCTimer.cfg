SPECIFICATION FairSpec
CONSTANTS
    a = a
    b = b
    k = k
    v = v
    Sleepers = {a, b}
    CallbackTimers = {v}
    Cancellers = {k}
    MaxSleeps = 2
    Duration = 1
    MaxTime = 2
INVARIANT ListedOnce
PROPERTY SleepReturns
