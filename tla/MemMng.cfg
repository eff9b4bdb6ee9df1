CONSTANTS
    BlkNum = 4
    MaxSerial = 8
    NoJob = NoJob
SPECIFICATION FairSpec
INVARIANTS
    TypeOK
    BlocksOwned
    LookupFinds
PROPERTIES
    IsFrameWindow
    WriteEnds
CHECK_DEADLOCK FALSE
