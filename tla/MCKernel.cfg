SPECIFICATION Spec
CONSTANTS
    idle = idle
    lo1 = lo1
    lo2 = lo2
    hi = hi
    mtx = mtx
    sem = sem
    NullProc = idle
    Proc <- MCProc
    Prio <- MCPrio
    Mutex = {mtx}
    Counting = {sem}
    NCond = 1
    IsrCond = {0}
    NmiCond = {0}
    Waiters <- MCAnyWaiters
    Delay = {1, 2}
    Wrap = 6
    MaxCount = 1
    MutexNone = MutexNone
    Forever = Forever
SYMMETRY MCSymmetry
VIEW MCView
INVARIANTS TypeOK OneQueue SleepOrdered HighestRuns NoStrandedSignal MutexExcludes WaitersCounted
PROPERTIES SignalXorTimeout
CHECK_DEADLOCK TRUE
