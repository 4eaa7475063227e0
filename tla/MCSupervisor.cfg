CONSTANTS
    Pid = {1, 2, 3, 4, 5}
    Static <- OneStatic
    Dynamic = {"rtsp"}
    PidQueMax = 2
    MaxDeaths = 3
    Deaths = {"together", "early", "locked", "busy"}
SPECIFICATION FairSpec
INVARIANTS
    OneProcess
    HandlerEntry
    WaitNeverBlocks
    LockInv
    HandlerNotStuck
PROPERTIES
    KeptAlive
CHECK_DEADLOCK FALSE
