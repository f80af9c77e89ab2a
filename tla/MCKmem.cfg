SPECIFICATION Spec
CONSTANTS
    t1 = t1
    t2 = t2
    t3 = t3
    Threads = {t1, t2, t3}
    Zones <- MCZones
    Memory <- MCMemory
    Regions <- MCRegions
    NumEntries = 3
    Workloads <- MCWorkloads
INVARIANT MemoryPartitioned
INVARIANT AllocFindsSpace
INVARIANT HeadersMatchBlocks
CHECK_DEADLOCK FALSE
