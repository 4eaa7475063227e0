CONSTANTS
    Object = {o1, o2}
    ProcMax = 2
    TaskMax = 1
    Live = TRUE
    MaxRequest = 3
    MaxCrash = 1
    Crashes = {"idle", "playing", "locked"}
    Slow = FALSE
    DelRunning = FALSE
SPECIFICATION FairSpec
INVARIANTS
    AssignedOnce
    OneStream
PROPERTIES
    Started
    StoppedForGood
CHECK_DEADLOCK FALSE
