SPECIFICATION Spec
CONSTANTS
    NPages = 4
    K = 2
    LowPages = 0
    Floor = 2
    Prots <- RW
    Refusals <- BothRefusals
    MaxEpoch = 4
    Sizes <- SomeSizes
    Hints <- None
    StorePages <- OneStore
    CopySpans <- OneCopy
INVARIANTS
    FreeIsUncommitted
    FreeIsWholeHostPages
    
    
PROPERTIES
    WipesNothingLive
