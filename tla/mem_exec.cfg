SPECIFICATION ProgramsSpec
CONSTANTS
    t1 = t1
    t2 = t2
    Threads <- Both
    HeapThreads <- JustOne
    HeapPages = 4
    StackPages = 2
    ImageSize = 2
    ExecsShrunk = TRUE
    MaxSlots = 3
    FileLength = 1
    Placed <- PlacedPages
    Requests <- SomeRequests
    MaxCalls = 3
    Image <- ImagePages
    NPages = 18
    K = 2
    LowPages = 0
    Floor = 0
    Prots <- CallProts
    Refusals <- Nowhere
    MaxEpoch = 9
    Sizes <- CallSizes
    Hints <- CallHints
    StorePages <- Written
    CopySpans <- Nowhere
CHECK_DEADLOCK FALSE
INVARIANTS
    HeldIsUsable
