SPECIFICATION FairSpec
CONSTANTS
    Obj = {o1, o2}
    Watched = {o1}
    Slave = {s1}
    None = None
    NoRow = NoRow
    Ops = {"add", "del"}
    AddTwice = TRUE
    MasterObjMax = 6
    Faults = {"crash", "reboot", "gone", "fail", "lost"}
    RequestMax = 2
    FaultMax = 2
INVARIANTS
    Complete
PROPERTIES
    Starts
CHECK_DEADLOCK FALSE
