SPECIFICATION Spec
CONSTANTS
    p1 = p1
    p2 = p2
    t1 = t1
    t2 = t2
    u1 = u1
    First = p1
    Procs <- TwoProcesses
    Threads <- ThreeThreads
    Proc <- WhichProcess
    MaxFd = 2
    MaxHost = 3
    MaxObjects = 2
    MaxValue = 2
    MaxCalls = 4
INVARIANTS
    HostOwnedOnce
    
    EventIsPollable
SYMMETRY SameProcess
CHECK_DEADLOCK FALSE
