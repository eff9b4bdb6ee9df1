CONSTANTS
    BlkNum = 3
    MaxSerial = 4
    NoJob = NoJob
    CacheNum = 3
    Readers = {r1, r2}
    MaxHeld = 2
SPECIFICATION GSpec
INVARIANTS
    GTypeOK
    CacheOwned
    CacheIsTheGops
    FollowsTheLiveGop
    LocksAreHeld
    HeldUnlessDropped
PROPERTIES
    AskedForAnIFrame
SYMMETRY Symmetry
CHECK_DEADLOCK FALSE
