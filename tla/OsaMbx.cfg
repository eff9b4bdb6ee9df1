CONSTANTS
    Clients = {c1, c2}
    Servers = {s1, s2}
    Cmds = {RUN, DELETE}
    Addr = {a1, a2, a3}
    QueLen = 2
    None = None
SPECIFICATION FairSpec
INVARIANTS
    TypeOK
    Ownership
    SenderWaits
    CallAfterCasts
PROPERTIES
    CallsReturn
    IsRemoteCall
