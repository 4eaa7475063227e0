SPECIFICATION FairSpec
CONSTANTS
    Message = {m1, m2, m3}
    Producer = {c1}
    Server = {s1}
    NoMsg = NoMsg
    NoServer = NoServer
    Nobody = Nobody
    NoData = NoData
    Freed = Freed
    OutMax = 2
    CrashMax = 1
    InitMax = 1
INVARIANTS
    BlocksOwned
    LossBounded
PROPERTIES
    InOrder
    Delivers
CHECK_DEADLOCK TRUE
