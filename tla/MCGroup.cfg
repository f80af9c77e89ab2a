SPECIFICATION FairSpec
CONSTANTS
    t1 = t1
    t2 = t2
    t3 = t3
    Threads = {t1, t2, t3}
    Groups = {"g", "h"}
    Workloads <- MCWorkloads
INVARIANT ChangeAllOrNothing
INVARIANT DeletedUnused
PROPERTY AllReturn
CHECK_DEADLOCK FALSE
