CONSTANTS
    Threads = {t1, t2, t3}
    MaxCalls = 3
SPECIFICATION FairSpec
INVARIANT BarrierSync
INVARIANT NoRemainingRace
INVARIANT NoUseAfterFree
PROPERTY EveryWaitReturns
