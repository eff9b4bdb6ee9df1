CONSTANTS
    Threads = {t1, t2, t3}
    Values = {a, b}
    MaxLen = 2
    NoValue = NoValue
SPECIFICATION FairSpec
INVARIANTS
    TypeOK
    NoLostWakeup
PROPERTIES
    IsFifo
    WaitersServed
