SPECIFICATION FairSpec
CONSTANTS
    t1 = t1
    t2 = t2
    t3 = t3
    Threads <- ThreeThreads
    Nobody = Nobody
    Freezable <- OneThread
    MaxRounds = 1
INVARIANTS
    NoWakeLost
    CountedIsNotified
PROPERTIES
    IsAMutex
    LockCallsReturn
    WaitersReturn
CHECK_DEADLOCK FALSE
