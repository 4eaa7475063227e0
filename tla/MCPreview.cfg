CONSTANTS
    Object = {o1, o2}
    Shm = {1}
    Thread = {t1, t2}
    Node = {1, 2}
    VideoQueLen = 1
    MaxRequest = 3
    Faults = {"alloc", "restart", "stop", "init"}
SPECIFICATION FairSpec
INVARIANTS
    UserCount
    FramesOwned
PROPERTIES
    PreviewRuns
    PreviewEnds
CHECK_DEADLOCK FALSE
