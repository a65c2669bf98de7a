SPECIFICATION FairSpec
CONSTANTS
    MaxPid = 3
    Threaded <- FirstOnly
    MaxArenas = 1
    MaxExecs = 0
    Failures = FALSE
INVARIANTS
    FrozenForAChild
PROPERTIES
    FrozenGoesOn
    WaitEnds
CHECK_DEADLOCK FALSE
