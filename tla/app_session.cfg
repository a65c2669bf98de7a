SPECIFICATION SessionFairSpec
CONSTANTS
    MaxRuns = 2
    MaxWrites = 4
    MaxTicks = 2
    MaximumChunkBytes = 2
    MaximumChunks = 2
    ViewLeaves = FALSE
INVARIANTS
    ConsoleIsWhatWasWritten
    

    
CHECK_DEADLOCK FALSE
