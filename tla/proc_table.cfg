SPECIFICATION Spec
CONSTANTS
    MaxPid = 3
    Threaded <- None
    MaxArenas = 1
    MaxExecs = 2
    Failures = TRUE
INVARIANTS
    NoSpaceFreedInUse
    LeaksAreKnown
CHECK_DEADLOCK FALSE
