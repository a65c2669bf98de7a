SPECIFICATION Spec
CONSTANTS
    t1 = t1
    t2 = t2
    t3 = t3
    c1 = c1
    c2 = c2
    Threads <- ThreeThreads
    Contexts <- TwoProcesses
    Ctx <- WhichContext
    Invalidator = Invalidator
    Nothing = Nothing
    MaxChanges = 1
INVARIANTS
    SweepsReachLiveThreads
    
    DeferredHasACollector
    SuspendedHoldsNoLock
CHECK_DEADLOCK FALSE
