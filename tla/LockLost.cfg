CONSTANTS
    BlkNum = 3
    MaxSerial = 4
    NoJob = NoJob
    CacheNum = 3
    Readers = {r1, r2}
    MaxHeld = 2
SPECIFICATION GSpec
INVARIANTS
    HeldIsCached
CHECK_DEADLOCK FALSE
