CONSTANTS
    BlkNum = 4
    MaxSerial = 8
    NoJob = NoJob
SPECIFICATION Spec
INVARIANTS
    LastFrameFlagged
CHECK_DEADLOCK FALSE
