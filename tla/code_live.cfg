SPECIFICATION FairSpec
CONSTANTS
    t1 = t1
    t2 = t2
    t3 = t3
    c1 = c1
    c2 = c2
    Threads <- TwoThreads
    Contexts <- OneProcess
    Ctx <- OneContext
    Invalidator = Invalidator
    Nothing = Nothing
    MaxChanges = 1
PROPERTIES
    
    SweepsEnd
CHECK_DEADLOCK FALSE
