SPECIFICATION ProgramsSpec
CONSTANTS
    t1 = t1
    t2 = t2
    Threads <- Both
    HeapThreads <- JustOne
    HeapPages = 2
    StackPages = 2
    ImageSize = 2
    ExecsShrunk = FALSE
    MaxSlots = 3
    FileLength = 1
    Placed <- PlacedPages
    Requests <- SomeRequests
    MaxCalls = 3
    Image <- ImagePages
    NPages = 16
    K = 2
    LowPages = 0
    Floor = 0
    Prots <- CallProts
    Refusals <- Nowhere
    MaxEpoch = 9
    Sizes <- CallSizes
    Hints <- CallHints
    StorePages <- Written
    CopySpans <- PlacedSpans
CHECK_DEADLOCK FALSE
INVARIANTS
    HeldIsUsable
    
    NothingLeaked

    
