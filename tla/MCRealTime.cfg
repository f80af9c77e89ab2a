SPECIFICATION Spec
CONSTANTS
    t1 = t1
    t2 = t2
    t3 = t3
    Idle = Idle
    Threads <- MCThreads
    Workloads <- MCWorkloads
    Quantum = 2
    util_limit = 990000
    aperiodic_reservation = 100000
    sporadic_reservation = 200000
    MaxTime = 12
    MaxChanges = 2
INVARIANT QueuesSound
INVARIANT EarliestDeadlineRuns
INVARIANT NeverOverruns
INVARIANT SliceGuaranteed
