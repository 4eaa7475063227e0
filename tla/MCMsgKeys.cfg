SPECIFICATION KeysSpec
CONSTANTS
  Proc = {p1, p2, p3, p4}
  MsgKeyMax = 4
INVARIANTS
  UniqueKeys
  TableEnds
  FreeKeyFound
