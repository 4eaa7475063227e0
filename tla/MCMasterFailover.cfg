SPECIFICATION TimedSpec
CONSTANTS
  s1 = s1
  s2 = s2
  o1 = o1
  o2 = o2
  stream = stream
  None = None
  Task = {stream}
  Slave = {s1, s2}
  Obj = {o1}
  DbSystem0 = TRUE
  DbSlave0 <- BothSlaves
  DbObj0 <- ObjOnS1
  Inited0 = {}
  RestOps = {}
  FastReboot = FALSE
  SlaveObjMax = 2
  MasterObjMax = 2
  NodeMax = 2
  OfflineWait = 2
  MaxRest = 0
  MaxCrash = 1
  MaxLost = 0
INVARIANTS
  TypeOK
  AttachedHealthy
  DbKnowsSlave
PROPERTIES
  Failover
