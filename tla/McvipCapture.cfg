CONSTANTS
    NumCh = 2
    BufPerCh = 3
    MissedFrames = TRUE
SPECIFICATION FairSpec
INVARIANTS
    TypeOK
    BufferOwnership
    NeverWaitsForRoom
    FaultOnlyAtOwnEnd
    NoDmaAfterFree
PROPERTIES
    StopCompletes
CHECK_DEADLOCK FALSE
