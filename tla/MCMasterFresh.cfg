SPECIFICATION Spec
CONSTANTS
  s1 = s1
  s2 = s2
  o1 = o1
  o2 = o2
  stream = stream
  None = None
  Task = {stream}
  Slave = {s1}
  Obj = {o1, o2}
  DbSystem0 = FALSE
  DbSlave0 <- NoRows
  DbObj0 <- NoRows
  Inited0 = {}
  RestOps = {"system_init", "slave_add", "slave_del", "obj_add", "obj_del", "task"}
  FastReboot = TRUE
  SlaveObjMax = 2
  MasterObjMax = 1
  NodeMax = 2
  OfflineWait = 1
  MaxRest = 4
  MaxCrash = 1
  MaxLost = 1
INVARIANTS ControlInv DbTasksMatch
CHECK_DEADLOCK FALSE
