SPECIFICATION FairSpec
CONSTANTS
    idle = idle
    lo1 = lo1
    lo2 = lo2
    hi = hi
    mtx = mtx
    sem = sem
    NullProc = idle
    Proc <- MCPair
    Prio <- MCPairPrio
    Mutex = {mtx}
    Counting = {}
    NCond = 2
    IsrCond = {0}
    NmiCond = {1}
    Waiters <- MCOneWaiter
    Delay = {1}
    Wrap = 4
    MaxCount = 1
    MutexNone = MutexNone
    Forever = Forever
PROPERTIES NmiDelivered SleeperWakes TopPriorityRuns
CHECK_DEADLOCK TRUE
