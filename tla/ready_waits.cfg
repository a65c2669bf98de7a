CONSTANTS
    Chunks <- MCChunks
    MaxChanges = 3
    Fds <- MCFds
    Kinds <- MCKinds
SPECIFICATION FairSpec
INVARIANTS EditsAsATerminal ReportsWhatCanBeRead
PROPERTIES WaitsEnd
CHECK_DEADLOCK FALSE
