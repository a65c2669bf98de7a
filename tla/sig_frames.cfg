SPECIFICATION FairSpec
CONSTANTS
    t1 = t1
    t2 = t2
    First = t1
    Threads <- OneThread
    Sigs <- MCSigs
    SIGKILL = 9
    Quiet <- MCQuiet
    Actions <- MCActions
    Masks <- MCMasks
    AltStacks = {1, 2}
    AltSize = 2
    MaxSends = 2
INVARIANTS
    InterruptedForASignal
    RestartsAreExact
    FramesDisjoint
    NotReentered
PROPERTIES
    SignalsAreActedOn
CHECK_DEADLOCK FALSE
