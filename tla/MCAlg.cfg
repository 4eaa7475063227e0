SPECIFICATION Spec
CONSTANTS
    Obj = {o1, o2}
    Alg = {a1, a2}
    AlgMax = 2
    Faults = {"crash", "reboot", "down", "glitch", "timeout", "fail"}
    RequestMax = 3
    FaultMax = 2
INVARIANTS
    
    RowsMatch
    SlaveSubset
CHECK_DEADLOCK FALSE
