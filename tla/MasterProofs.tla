---------------------------- MODULE MasterProofs ----------------------------
(***************************************************************************)
(* Proofs about module Master, for every number of slaves, objects and     *)
(* tasks, every content of the tables and every bound:                     *)
(*   ControlSafe   the variables keep their types, the threads hold the    *)
(*                 semaphores their places say they hold;                  *)
(*   AttachedSafe  while no slave is deleted, no object stays attached to  *)
(*                 a slave that is marked offline;                         *)
(*   DbTasksSafe   memory and database agree on the tasks of an object;    *)
(*   DbSlaveSafe   the row of an object that was read from the database    *)
(*                 names its slave;                                        *)
(*   ScanSafe      the scan for a slave finds the least loaded.            *)
(***************************************************************************)
EXTENDS Master, LowestScan, TLAPS, SequenceTheorems, WellFoundedInduction

-----------------------------------------------------------------------------
(* The operators on data keep the types. *)

\* A sequence mapped element by element is a sequence of the results.
LEMMA SeqMap ==
  ASSUME NEW S, NEW q \in Seq(S), NEW f, f = [i \in DOMAIN q |-> f[i]],
         \A i \in DOMAIN q : f[i] \in S
  PROVE  f \in Seq(S) /\ DOMAIN f = DOMAIN q
<1>1. DOMAIN q = 1 .. Len(q) /\ Len(q) \in Nat
  BY LenProperties
<1>2. f \in [1 .. Len(q) -> S]
  BY <1>1
<1> QED
  BY <1>1, <1>2, SeqDef

\* A nonempty set of natural numbers has a least element.
LEMMA LeastOf ==
  ASSUME NEW S \in SUBSET Nat, S # {}
  PROVE  \E m \in S : \A k \in S : m <= k
<1>1. OpToRel(<, Nat) = {ss \in Nat \X Nat : ss[1] < ss[2]}
  BY Zenon DEF OpToRel
<1>2. PICK m \in S : \A k \in S : ~(<<k, m>> \in {ss \in Nat \X Nat : ss[1] < ss[2]})
  BY <1>1, NatLessThanWellFounded, WFMin, Zenon
<1>3. ASSUME NEW k \in S PROVE m <= k
  <2>1. k \in Nat /\ m \in Nat
    OBVIOUS
  <2>2. k < m => <<k, m>> \in {ss \in Nat \X Nat : ss[1] < ss[2]}
    BY <2>1, SMT
  <2>3. ~(k < m)
    BY <1>2, <2>2
  <2> QED
    BY <2>1, <2>3
<1> QED
  BY <1>3

\* Removing one element of a sequence.
LEMMA RemoveAtProperties ==
  ASSUME NEW S, NEW q \in Seq(S), NEW i \in DOMAIN q
  PROVE  /\ RemoveAt(q, i) \in Seq(S)
         /\ \A j \in DOMAIN RemoveAt(q, i) : \E k \in DOMAIN q : RemoveAt(q, i)[j] = q[k]
         /\ DOMAIN RemoveAt(q, i) = 1 .. Len(q) - 1
         /\ \A j \in 1 .. Len(q) - 1 :
               RemoveAt(q, i)[j] = IF j <= i - 1 THEN q[j] ELSE q[j + 1]
<1> DEFINE a == SubSeq(q, 1, i - 1)
           b == SubSeq(q, i + 1, Len(q))
<1>1. Len(q) \in Nat /\ DOMAIN q = 1 .. Len(q) /\ \A j \in 1 .. Len(q) : q[j] \in S
  BY LenProperties, ElementOfSeq
<1>2. /\ a \in Seq(S) /\ Len(a) = i - 1
      /\ \A j \in 1 .. i - 1 : a[j] = q[j]
  BY <1>1, SubSeqProperties
<1>3. /\ b \in Seq(S) /\ Len(b) = Len(q) - i
      /\ \A j \in 1 .. Len(q) - i : b[j] = q[i + j]
  <2>1. i \in 1 .. Len(q) /\ i + 1 \in Int /\ Len(q) \in Int
    BY <1>1
  <2>2. \A j \in i + 1 .. Len(q) : q[j] \in S
    BY <1>1, <2>1
  <2>3. /\ b \in Seq(S)
        /\ Len(b) = IF i + 1 <= Len(q) THEN Len(q) - (i + 1) + 1 ELSE 0
        /\ \A j \in 1 .. Len(q) - (i + 1) + 1 : b[j] = q[(i + 1) + j - 1]
    BY <2>1, <2>2, SubSeqProperties
  <2>4. \A j \in 1 .. Len(q) - i : (i + 1) + j - 1 = i + j
    BY <2>1
  <2> QED
    BY <2>1, <2>3, <2>4
<1> HIDE DEF a, b
<1>4. /\ a \o b \in Seq(S) /\ Len(a \o b) = Len(q) - 1
      /\ \A j \in 1 .. Len(q) - 1 : (a \o b)[j] = IF j <= i - 1 THEN a[j] ELSE b[j - (i - 1)]
  <2>1. /\ a \o b \in Seq(S)
        /\ Len(a \o b) = Len(a) + Len(b)
        /\ \A j \in 1 .. Len(a) + Len(b) :
              (a \o b)[j] = IF j <= Len(a) THEN a[j] ELSE b[j - Len(a)]
    BY <1>2, <1>3, ConcatProperties
  <2>2. Len(a) + Len(b) = Len(q) - 1
    BY <1>1, <1>2, <1>3
  <2> QED
    BY <2>1, <2>2, <1>2
<1>5. DOMAIN (a \o b) = 1 .. Len(q) - 1
  BY <1>4, LenProperties
<1>6. \A j \in 1 .. Len(q) - 1 : (a \o b)[j] = IF j <= i - 1 THEN q[j] ELSE q[j + 1]
  <2> TAKE j \in 1 .. Len(q) - 1
  <2>1. CASE j <= i - 1
    BY <2>1, <1>1, <1>2, <1>4
  <2>2. CASE ~(j <= i - 1)
    <3>1. j - (i - 1) \in 1 .. Len(q) - i /\ i + (j - (i - 1)) = j + 1
      BY <2>2, <1>1
    <3>2. b[j - (i - 1)] = q[i + (j - (i - 1))]
      BY <3>1, <1>3
    <3> QED
      BY <2>2, <3>1, <3>2, <1>4
  <2> QED
    BY <2>1, <2>2
<1> QED
  <2>1. RemoveAt(q, i) = a \o b
    BY DEF RemoveAt, a, b
  <2>2. \A j \in 1 .. Len(q) - 1 : j \in DOMAIN q /\ j + 1 \in DOMAIN q
    BY <1>1
  <2>3. \A j \in 1 .. Len(q) - 1 : \E k \in DOMAIN q : (a \o b)[j] = q[k]
    BY <2>2, <1>6
  <2> QED
    BY <2>1, <2>3, <1>4, <1>5, <1>6

\* What the handlers of a slave machine make of a machine is a machine.
LEMMA MachineOps ==
  ASSUME NEW sv \in Machine
  PROVE  /\ MachineLoad(sv) \in Nat
         /\ request_system_init(sv) \in Machine
         /\ \A id \in Obj, ts \in SUBSET Task : request_obj_add(sv, id, ts) \in Machine
         /\ \A id \in Obj, t \in Task, on \in BOOLEAN : request_task(sv, id, t, on) \in Machine
<1>1. MachineLoad(sv) \in Nat
  <2>1. Len(sv.objs) * 100 \in Nat
    BY DEF Machine
  <2>2. \A a \in Nat, b \in Nat \ {0} : a \div b \in Nat
    OBVIOUS
  <2> QED
    BY <2>1, <2>2, SlaveObjMaxAssumption DEF MachineLoad
<1>2. request_system_init(sv) \in Machine
  BY DEF Machine, request_system_init
<1>3. ASSUME NEW id \in Obj, NEW ts \in SUBSET Task
      PROVE  request_obj_add(sv, id, ts) \in Machine
  <2>1. Append(sv.objs, [id |-> id, tasks |-> ts]) \in Seq(SlaveObj)
    BY AppendProperties DEF Machine, SlaveObj
  <2> QED
    BY <2>1 DEF Machine, request_obj_add
<1>4. ASSUME NEW id \in Obj, NEW t \in Task, NEW on \in BOOLEAN
      PROVE  request_task(sv, id, t, on) \in Machine
  <2> DEFINE f == [i \in DOMAIN sv.objs |->
                     IF IsFirst(sv.objs, i, id)
                     THEN [sv.objs[i] EXCEPT !.tasks = WithTask(sv.objs[i].tasks, t, on)]
                     ELSE sv.objs[i]]
  <2>1. sv.objs \in Seq(SlaveObj)
    BY DEF Machine
  <2>2. \A i \in DOMAIN sv.objs : sv.objs[i] \in SlaveObj
    BY <2>1
  <2>3. \A i \in DOMAIN sv.objs : f[i] \in SlaveObj
    BY <2>2 DEF SlaveObj, WithTask
  <2>4. f \in Seq(SlaveObj)
    <3>1. DOMAIN f = DOMAIN sv.objs /\ f = [i \in DOMAIN sv.objs |-> f[i]]
      OBVIOUS
    <3> HIDE DEF f
    <3> QED
      BY <2>1, <2>3, <3>1, SeqMap
  <2>5. request_task(sv, id, t, on) = [sv EXCEPT !.objs = f]
    BY DEF request_task
  <2> QED
    BY <2>4, <2>5 DEF Machine
<1> QED
  BY <1>1, <1>2, <1>3, <1>4

\* The updates of slaveParam nodes and of objects that the threads make.
LEMMA NodeFields ==
  ASSUME NEW f \in [Node -> slaveParam], NEW n \in Node
  PROVE  /\ \A b \in BOOLEAN : [f EXCEPT ![n].online = b] \in [Node -> slaveParam]
         /\ \A k \in Nat : [f EXCEPT ![n].load = k] \in [Node -> slaveParam]
         /\ [f EXCEPT ![n].offline = 1, ![n].systemInit = FALSE] \in [Node -> slaveParam]
         /\ \A k \in Nat : [f EXCEPT ![n].systemInit = TRUE, ![n].load = k]
                              \in [Node -> slaveParam]
         /\ \A k \in Nat, b \in BOOLEAN :
               [f EXCEPT ![n].online = TRUE, ![n].offline = 0,
                         ![n].load = IF b THEN @ ELSE k] \in [Node -> slaveParam]
<1>1. 0 \in 0 .. Expired /\ 1 \in 0 .. Expired
  BY MasterAssumption DEF Expired
<1>2. \A b \in BOOLEAN : [f EXCEPT ![n].online = b] \in [Node -> slaveParam]
  BY DEF slaveParam
<1>3. \A k \in Nat : [f EXCEPT ![n].load = k] \in [Node -> slaveParam]
  BY DEF slaveParam
<1>4. [f EXCEPT ![n].offline = 1, ![n].systemInit = FALSE] \in [Node -> slaveParam]
  BY <1>1 DEF slaveParam
<1>5. ASSUME NEW k \in Nat
      PROVE  [f EXCEPT ![n].systemInit = TRUE, ![n].load = k] \in [Node -> slaveParam]
  BY DEF slaveParam
<1>6. ASSUME NEW k \in Nat, NEW b \in BOOLEAN
      PROVE  [f EXCEPT ![n].online = TRUE, ![n].offline = 0,
                       ![n].load = IF b THEN @ ELSE k] \in [Node -> slaveParam]
  BY <1>1 DEF slaveParam
<1> QED
  BY <1>2, <1>3, <1>4, <1>5, <1>6

LEMMA ObjFields ==
  ASSUME NEW q \in Seq(objParam), NEW i \in DOMAIN q
  PROVE  /\ [q EXCEPT ![i].attach = TRUE] \in Seq(objParam)
         /\ [q EXCEPT ![i].slave = NULL] \in Seq(objParam)
         /\ \A t \in SUBSET Task : [q EXCEPT ![i].tasks = t] \in Seq(objParam)
         /\ \A n \in Pointer :
               [q EXCEPT ![i].slave = n, ![i].attach = TRUE] \in Seq(objParam)
<1>1. q[i] \in objParam /\ i \in 1 .. Len(q)
  OBVIOUS
<1>2. [q EXCEPT ![i].attach = TRUE] \in Seq(objParam)
  <2>1. [q[i] EXCEPT !.attach = TRUE] \in objParam
    BY <1>1 DEF objParam
  <2> QED
    BY <1>1, <2>1, ExceptSeq
<1>3. [q EXCEPT ![i].slave = NULL] \in Seq(objParam)
  <2>1. [q[i] EXCEPT !.slave = NULL] \in objParam
    BY <1>1 DEF objParam, Pointer
  <2> QED
    BY <1>1, <2>1, ExceptSeq
<1>4. ASSUME NEW t \in SUBSET Task PROVE [q EXCEPT ![i].tasks = t] \in Seq(objParam)
  <2>1. [q[i] EXCEPT !.tasks = t] \in objParam
    BY <1>1 DEF objParam
  <2> QED
    BY <1>1, <2>1, ExceptSeq
<1>5. ASSUME NEW n \in Pointer
      PROVE  [q EXCEPT ![i].slave = n, ![i].attach = TRUE] \in Seq(objParam)
  <2> DEFINE f == [q EXCEPT ![i] = [q[i] EXCEPT !.slave = n]]
  <2>1. [q[i] EXCEPT !.slave = n] \in objParam
    BY <1>1 DEF objParam
  <2>2. f \in Seq(objParam) /\ Len(f) = Len(q) /\ f[i] \in objParam
    BY <1>1, <2>1, ExceptSeq
  <2>3. [f[i] EXCEPT !.attach = TRUE] \in objParam
    BY <2>2 DEF objParam
  <2>4. [f EXCEPT ![i] = [f[i] EXCEPT !.attach = TRUE]] \in Seq(objParam)
    <3> HIDE DEF f
    <3> QED
      BY <1>1, <2>2, <2>3, ExceptSeq
  <2> QED
    BY <2>4
<1> QED
  BY <1>2, <1>3, <1>4, <1>5

-----------------------------------------------------------------------------
(* The control invariant *)

\* While the load thread is at a node, that node and its machine are at hand.
LEMMA LoadHand ==
  ASSUME ControlInv, lTodo # <<>>
  PROVE  /\ Head(lTodo) \in Node /\ Tail(lTodo) \in Seq(Node)
         /\ sp[Head(lTodo)] \in slaveParam
         /\ sp[Head(lTodo)].ip \in Slave
         /\ slv[sp[Head(lTodo)].ip] \in Machine
<1>1. Head(lTodo) \in Node /\ Tail(lTodo) \in Seq(Node)
  BY HeadTailProperties DEF ControlInv, TypeOK
<1>2. sp[Head(lTodo)] \in slaveParam
  BY <1>1 DEF ControlInv, TypeOK
<1>3. sp[Head(lTodo)].ip \in Slave
  BY <1>2 DEF slaveParam
<1> QED
  BY <1>1, <1>2, <1>3 DEF ControlInv, TypeOK

LEMMA LoadControl ==
  ASSUME ControlInv, slave_load_thread
  PROVE  ControlInv'
<1> DEFINE h == Head(lTodo)
<1> USE DEF ControlInv, Current, LoadPlace
<1>0. /\ sp \in [Node -> slaveParam] /\ sysOrgData \in BOOLEAN
      /\ lAck.load \in Nat /\ slv \in [Slave -> Machine] /\ nLost \in Nat
  BY DEF TypeOK, Ack
<1> HIDE DEF ControlInv
<1>1. ASSUME LoadLock PROVE ControlInv'
  BY <1>1 DEF LoadLock, ControlInv, TypeOK, shm, mgr, rest, world
<1>2. ASSUME LoadPoll PROVE ControlInv'
  <2>1. lTodo # <<>>
    BY <1>2 DEF LoadPoll
  <2>2. MachineLoad(slv[sp[h].ip]) \in Nat /\ slv[sp[h].ip].systemInit \in BOOLEAN
    BY <2>1, LoadHand, MachineOps DEF Machine
  <2>3. lAck' \in Ack
    <3>1. [ok |-> TRUE, init |-> slv[sp[h].ip].systemInit,
           load |-> MachineLoad(slv[sp[h].ip])] \in Ack
      BY <2>2 DEF Ack
    <3>2. NoAck \in Ack
      BY DEF NoAck, Ack
    <3> QED
      BY <1>2, <3>1, <3>2 DEF LoadPoll
  <2>4. slv' = slv /\ nLost' \in Nat
    BY <1>0, <1>2 DEF LoadPoll, Lose
  <2> QED
    BY <1>2, <2>1, <2>3, <2>4 DEF LoadPoll, ControlInv, TypeOK, shm, mutex, mgr, rest
<1>3. ASSUME LoadOffline PROVE ControlInv'
  <2>1. lTodo # <<>> /\ h \in Node
    BY <1>3, LoadHand DEF ControlInv, LoadOffline
  <2>3. sp' \in [Node -> slaveParam]
    BY <1>0, <1>3, <2>1, NodeFields DEF LoadOffline
  <2> QED
    BY <1>3, <2>1, <2>3 DEF LoadOffline, ControlInv, TypeOK, mutex, mgr, rest, world
<1>4. ASSUME LoadStillOffline PROVE ControlInv'
  <2>1. h \in Node /\ Tail(lTodo) \in Seq(Node)
    BY <1>4, LoadHand DEF ControlInv, LoadStillOffline
  <2>2. sp' \in [Node -> slaveParam]
    BY <1>0, <1>4, <2>1, NodeFields DEF LoadStillOffline
  <2> QED
    BY <1>4, <2>1, <2>2
       DEF LoadStillOffline, NextSlave, NoAck, Ack, ControlInv, TypeOK, mutex, mgr, rest, world
<1>5. ASSUME LoadDetach PROVE ControlInv'
  <2>1. h \in Node /\ Tail(lTodo) \in Seq(Node)
    BY <1>5, LoadHand DEF ControlInv, LoadDetach
  <2>2. sp' \in [Node -> slaveParam]
    BY <1>0, <1>5, <2>1, NodeFields DEF LoadDetach
  <2>3. mobjQueue' \in Seq(objParam) /\ DOMAIN mobjQueue' = DOMAIN mobjQueue
    <3>1. PICK D : mobjQueue' = [i \in DOMAIN mobjQueue |->
                                   IF i \in D THEN [mobjQueue[i] EXCEPT !.attach = FALSE]
                                   ELSE mobjQueue[i]]
      BY <1>5 DEF LoadDetach
    <3>2. \A i \in DOMAIN mobjQueue : mobjQueue[i] \in objParam
      BY DEF ControlInv, TypeOK
    <3>3. \A i \in DOMAIN mobjQueue : mobjQueue'[i] \in objParam
      BY <3>1, <3>2 DEF objParam
    <3>4. mobjQueue' = [i \in DOMAIN mobjQueue |-> mobjQueue'[i]]
      BY <3>1
    <3> QED
      BY <3>3, <3>4, SeqMap DEF ControlInv, TypeOK
  <2>4. mpc = "idle"
    BY <1>5 DEF ControlInv, LoadDetach
  <2> QED
    BY <1>5, <2>1, <2>2, <2>3, <2>4
       DEF LoadDetach, NextSlave, NoAck, Ack, ControlInv, TypeOK, mutex, mgr, rest, world
<1>6. ASSUME LoadOnline PROVE ControlInv'
  <2>1. lTodo # <<>> /\ h \in Node /\ Tail(lTodo) \in Seq(Node)
    BY <1>6, LoadHand DEF ControlInv, LoadOnline
  <2>4. sp' \in [Node -> slaveParam]
    BY <1>0, <1>6, <2>1, NodeFields DEF LoadOnline
  <2>5. /\ lpc' \in LoadPlace /\ lTodo' \in Seq(Node) /\ lAck' \in Ack
        /\ lpc' \in {"ack", "detach", "init"} => lTodo' # <<>>
    <3>1. CASE sysOrgData
      BY <1>6, <2>1, <3>1 DEF LoadOnline, ControlInv, TypeOK
    <3>2. CASE ~sysOrgData
      <4>1. NoAck \in Ack
        BY DEF NoAck, Ack
      <4> QED
        BY <1>6, <2>1, <3>2, <4>1 DEF LoadOnline, NextSlave
    <3> QED
      BY <3>1, <3>2
  <2> QED
    BY <1>6, <2>1, <2>4, <2>5
       DEF LoadOnline, NextSlave, NoAck, Ack, ControlInv, TypeOK, mutex, mgr, rest, world
<1>7. ASSUME LoadInit PROVE ControlInv'
  <2>1. /\ h \in Node /\ Tail(lTodo) \in Seq(Node)
        /\ sp[h].ip \in Slave /\ slv[sp[h].ip] \in Machine
    BY <1>7, LoadHand DEF ControlInv, LoadInit
  <2>3. sp' \in [Node -> slaveParam]
    BY <1>0, <1>7, <2>1, NodeFields DEF LoadInit
  <2>4. slv' \in [Slave -> Machine] /\ nLost' \in Nat
    BY <1>0, <1>7, <2>1, MachineOps DEF LoadInit, Lose, Deliver
  <2> QED
    BY <1>7, <2>1, <2>3, <2>4
       DEF LoadInit, NextSlave, NoAck, Ack, ControlInv, TypeOK, mutex, mgr, rest
<1>8. ASSUME LoadInited PROVE ControlInv'
  <2>1. h \in Node /\ Tail(lTodo) \in Seq(Node)
    BY <1>8, LoadHand DEF ControlInv, LoadInited
  <2>3. sp' \in [Node -> slaveParam]
    BY <1>0, <1>8, <2>1, NodeFields DEF LoadInited
  <2> QED
    BY <1>8, <2>1, <2>3
       DEF LoadInited, NextSlave, NoAck, Ack, ControlInv, TypeOK, mutex, mgr, rest, world
<1>9. ASSUME LoadUnlock PROVE ControlInv'
  BY <1>9 DEF LoadUnlock, ControlInv, TypeOK, mgr, rest, world
<1> QED
  BY <1>1, <1>2, <1>3, <1>4, <1>5, <1>6, <1>7, <1>8, <1>9 DEF slave_load_thread

\* While the manager is at an object, that object, its slave and the slave's
\* machine are at hand.
LEMMA ManagerHand ==
  ASSUME ControlInv, mIdx \in DOMAIN mobjQueue
  PROVE  /\ Current \in objParam /\ Current.id \in Obj
         /\ Current.orig \in SUBSET Task /\ Current.slave \in Pointer
         /\ \A n \in Node : sp[n].ip \in Slave /\ slv[sp[n].ip] \in Machine
<1>1. Current \in objParam
  BY DEF ControlInv, TypeOK, Current
<1>2. \A n \in Node : sp[n].ip \in Slave
  BY DEF ControlInv, TypeOK, slaveParam
<1> QED
  BY <1>1, <1>2 DEF ControlInv, TypeOK, objParam

LEMMA ManagerControl ==
  ASSUME ControlInv, master_objmanager_thread
  PROVE  ControlInv'
<1>0. /\ sp \in [Node -> slaveParam] /\ mobjQueue \in Seq(objParam)
      /\ mIdx \in Nat \ {0} /\ mPick \in Pointer
      /\ slv \in [Slave -> Machine] /\ nLost \in Nat
      /\ db \in [system : BOOLEAN, slaves : SUBSET Slave, objs : [Obj -> DbObjRow \cup {None}]]
  BY DEF ControlInv, TypeOK
<1>1. ASSUME ManagerLock PROVE ControlInv'
  BY <1>1 DEF ManagerLock, ControlInv, TypeOK, ManagerPlace, shm, load, rest, world
<1>2. ASSUME ManagerSkip PROVE ControlInv'
  BY <1>0, <1>2 DEF ManagerSkip, Scanning, NextObj, ControlInv, TypeOK, ManagerPlace, Pointer,
                    shm, mutex, load, rest, world
<1>3. ASSUME slaveIsNormal PROVE ControlInv'
  <2>1. /\ mpc' \in {"scan", "keep", "drop"}
        /\ mIdx' \in Nat \ {0} /\ mPick' \in Pointer
        /\ mpc' \in {"keep", "drop"} => mIdx' = mIdx
        /\ mIdx \in DOMAIN mobjQueue /\ Current.slave # NULL /\ mpc = "scan"
    BY <1>0, <1>3 DEF slaveIsNormal, Scanning, NextObj, Pointer
  <2>2. UNCHANGED <<shm, mutex, load, rest, db, world>>
    BY <1>3 DEF slaveIsNormal
  <2> QED
    BY <2>1, <2>2 DEF ControlInv, TypeOK, ManagerPlace, Current, shm, mutex, load, rest, world
<1>4. ASSUME ManagerKeep PROVE ControlInv'
  <2>1. mIdx \in DOMAIN mobjQueue /\ Current.slave # NULL
    BY <1>4 DEF ManagerKeep, ControlInv
  <2>2. mobjQueue' \in Seq(objParam) /\ DOMAIN mobjQueue' = DOMAIN mobjQueue
    BY <1>0, <1>4, <2>1, ObjFields DEF ManagerKeep
  <2>3. mobjQueue'[mIdx].slave = Current.slave
    BY <1>0, <1>4, <2>1, ManagerHand DEF ManagerKeep, Current, objParam
  <2> QED
    BY <1>4, <2>1, <2>2, <2>3
       DEF ManagerKeep, ControlInv, TypeOK, ManagerPlace, Current, mutex, load, rest, world
<1>5. ASSUME ManagerDrop PROVE ControlInv'
  <2>1. mIdx \in DOMAIN mobjQueue
    BY <1>5 DEF ManagerDrop, ControlInv
  <2>2. mobjQueue' \in Seq(objParam)
    BY <1>0, <1>5, <2>1, ObjFields DEF ManagerDrop
  <2> QED
    BY <1>0, <1>5, <2>2
       DEF ManagerDrop, NextObj, Pointer, ControlInv, TypeOK, ManagerPlace, mutex, load, rest, world
<1>6. ASSUME getLowestLoadSlave PROVE ControlInv'
  <2>1. /\ mpc' \in {"scan", "attach"}
        /\ mIdx' \in Nat \ {0} /\ mPick' \in Pointer
        /\ mpc' = "attach" => mIdx' = mIdx /\ mPick' # NULL
        /\ mIdx \in DOMAIN mobjQueue /\ mpc = "scan"
    <3>1. \A i \in DOMAIN slaveQueue : slaveQueue[i] \in Node
      BY DEF ControlInv, TypeOK
    <3>2. \A n \in Node : n \in Pointer /\ n # NULL
      BY DEF Pointer, Node, NULL
    <3> QED
      BY <1>0, <1>6, <3>1, <3>2 DEF getLowestLoadSlave, Scanning, NextObj, Pointer
  <2>2. UNCHANGED <<shm, mutex, load, rest, db, world>>
    BY <1>6 DEF getLowestLoadSlave
  <2> QED
    BY <2>1, <2>2 DEF ControlInv, TypeOK, ManagerPlace, Current, shm, mutex, load, rest, world
<1>7. ASSUME ManagerAttach PROVE ControlInv'
  <2>1. mIdx \in DOMAIN mobjQueue /\ mPick \in Node /\ mPick # NULL
    BY <1>0, <1>7 DEF ManagerAttach, ControlInv, Pointer
  <2>2. mobjQueue' \in Seq(objParam) /\ DOMAIN mobjQueue' = DOMAIN mobjQueue
    BY <1>0, <1>7, <2>1, ObjFields DEF ManagerAttach
  <2>3. mobjQueue'[mIdx].slave = mPick
    <3>1. mobjQueue[mIdx] \in objParam
      BY <1>0, <2>1
    <3> QED
      BY <1>7, <2>1, <3>1 DEF ManagerAttach, objParam
  <2>4. db' \in [system : BOOLEAN, slaves : SUBSET Slave, objs : [Obj -> DbObjRow \cup {None}]]
    <3>1. Current.id \in Obj /\ sp[mPick].ip \in Slave
      BY <2>1, ManagerHand
    <3>2. \A row \in DbObjRow \cup {None} : RowWithSlave(row, sp[mPick].ip) \in DbObjRow \cup {None}
      BY <3>1 DEF RowWithSlave, DbObjRow
    <3> QED
      BY <1>0, <1>7, <3>1, <3>2 DEF ManagerAttach
  <2> QED
    BY <1>7, <2>1, <2>2, <2>3, <2>4
       DEF ManagerAttach, ControlInv, TypeOK, ManagerPlace, Current, mutex, load, rest, world
<1>8. ASSUME ManagerPost PROVE ControlInv'
  <2>1. mIdx \in DOMAIN mobjQueue /\ Current.slave # NULL
    BY <1>8 DEF ManagerPost, ControlInv
  <2>2. /\ Current.slave \in Node /\ Current.id \in Obj /\ Current.orig \in SUBSET Task
        /\ sp[Current.slave].ip \in Slave /\ slv[sp[Current.slave].ip] \in Machine
    BY <2>1, ManagerHand DEF Pointer
  <2> DEFINE added == request_obj_add(slv[sp[Current.slave].ip], Current.id, Current.orig)
  <2>3. added \in Machine /\ MachineLoad(added) \in Nat
    BY <2>2, MachineOps
  <2>4. slv' \in [Slave -> Machine] /\ nLost' \in Nat
    BY <1>0, <1>8, <2>2, <2>3 DEF ManagerPost, Deliver, Lose
  <2>5. sp' \in [Node -> slaveParam]
    <3>1. sp' = sp \/ sp' = [sp EXCEPT ![Current.slave].load = MachineLoad(added)]
      BY <1>8 DEF ManagerPost
    <3>2. \A k \in Nat : [sp EXCEPT ![Current.slave].load = k] \in [Node -> slaveParam]
      BY <1>0, <2>2, NodeFields
    <3> QED
      BY <1>0, <2>3, <3>1, <3>2
  <2> QED
    BY <1>0, <1>8, <2>4, <2>5
       DEF ManagerPost, NextObj, Pointer, ControlInv, TypeOK, ManagerPlace, mutex, load, rest
<1>9. ASSUME ManagerUnlock PROVE ControlInv'
  BY <1>0, <1>9 DEF ManagerUnlock, ControlInv, TypeOK, ManagerPlace, Pointer,
                    shm, load, rest, world
<1> QED
  BY <1>1, <1>2, <1>3, <1>4, <1>5, <1>6, <1>7, <1>8, <1>9
     DEF master_objmanager_thread, mobjManager

LEMMA DbAfterType ==
  ASSUME db \in [system : BOOLEAN, slaves : SUBSET Slave, objs : [Obj -> DbObjRow \cup {None}]],
         job \in Job, job # NoJob
  PROVE  DbAfter(job) \in [system : BOOLEAN, slaves : SUBSET Slave,
                           objs : [Obj -> DbObjRow \cup {None}]]
<1>1. CASE job.op = "system_init"
  BY <1>1 DEF DbAfter
<1>2. CASE job.op = "slave_add"
  <2>1. job.ip \in Slave
    BY <1>2 DEF Job, NoJob
  <2> QED
    BY <1>2, <2>1 DEF DbAfter
<1>3. CASE job.op = "slave_del"
  BY <1>3 DEF DbAfter
<1>4. CASE job.op = "obj_add"
  <2>1. job.id \in Obj /\ [tasks |-> job.tasks, slave |-> None] \in DbObjRow
    BY <1>4 DEF Job, NoJob, DbObjRow
  <2> QED
    BY <1>4, <2>1 DEF DbAfter
<1>5. CASE job.op = "task"
  <2>1. job.id \in Obj /\ job.task \in Task
    BY <1>5 DEF Job, NoJob
  <2>2. \A row \in DbObjRow \cup {None} :
           RowWithTask(row, job.task, job.on) \in DbObjRow \cup {None}
    BY <2>1 DEF RowWithTask, WithTask, DbObjRow
  <2> QED
    BY <1>5, <2>1, <2>2 DEF DbAfter
<1> QED
  BY <1>1, <1>2, <1>3, <1>4, <1>5 DEF Job, NoJob

\* A request only runs its section while the other thread is out of its own,
\* and leaves the places of the threads alone.
LEMMA RestControl ==
  ASSUME ControlInv, master_restapi_thread
  PROVE  ControlInv'
<1>0. /\ sp \in [Node -> slaveParam] /\ mobjQueue \in Seq(objParam)
      /\ slaveQueue \in Seq(Node) /\ nRest \in Nat /\ nLost \in Nat
      /\ slv \in [Slave -> Machine] /\ job \in Job
      /\ db \in [system : BOOLEAN, slaves : SUBSET Slave, objs : [Obj -> DbObjRow \cup {None}]]
  BY DEF ControlInv, TypeOK
<1>1. ASSUME master_request_system_init PROVE ControlInv'
  <2>1. job' \in Job /\ nRest' \in Nat
    BY <1>0, <1>1 DEF master_request_system_init, Request, Job
  <2> QED
    BY <1>1, <2>1 DEF master_request_system_init, ControlInv, TypeOK, Current,
                      mutex, load, mgr, world
<1>2. ASSUME NEW s \in Slave, master_request_slave_add(s) PROVE ControlInv'
  <2>1. job' \in Job /\ nRest' \in Nat
    BY <1>0, <1>2 DEF master_request_slave_add, Request, Job
  <2>2. FreshSlave(s) \in slaveParam
    BY MasterAssumption DEF FreshSlave, slaveParam, Expired
  <2>3. sp' \in [Node -> slaveParam] /\ slaveQueue' \in Seq(Node)
    <3>1. CASE UNCHANGED <<slaveQueue, sp>>
      BY <1>0, <3>1
    <3>2. ASSUME NEW n \in Node, slaveQueue' = Append(slaveQueue, n),
                 sp' = [sp EXCEPT ![n] = FreshSlave(s)]
          PROVE  sp' \in [Node -> slaveParam] /\ slaveQueue' \in Seq(Node)
      BY <1>0, <2>2, <3>2, AppendProperties
    <3> QED
      BY <1>2, <3>1, <3>2 DEF master_request_slave_add
  <2> QED
    BY <1>2, <2>1, <2>3 DEF master_request_slave_add, ControlInv, TypeOK, Current,
                            mutex, load, mgr, world
<1>3. ASSUME NEW s \in Slave, master_request_slave_del(s) PROVE ControlInv'
  <2>1. job' \in Job /\ nRest' \in Nat
    BY <1>0, <1>3 DEF master_request_slave_del, Request, Job
  <2>2. slaveQueue' \in Seq(Node)
    <3> DEFINE same == {i \in DOMAIN slaveQueue : sp[slaveQueue[i]].ip = s}
    <3>1. CASE same = {}
      BY <1>0, <1>3, <3>1 DEF master_request_slave_del
    <3>2. CASE same # {}
      <4>1. same \in SUBSET Nat /\ same \subseteq DOMAIN slaveQueue
        BY <1>0
      <4>2. \E i \in same : \A j \in same : i <= j
        BY <3>2, <4>1, LeastOf
      <4>3. \E i \in same : slaveQueue' = RemoveAt(slaveQueue, i)
        BY <1>3, <3>2, <4>2 DEF master_request_slave_del
      <4> QED
        BY <1>0, <4>1, <4>3, RemoveAtProperties
    <3> QED
      BY <3>1, <3>2
  <2> QED
    BY <1>3, <2>1, <2>2 DEF master_request_slave_del, ControlInv, TypeOK, Current,
                            mutex, load, mgr, world
<1>4. ASSUME NEW o \in Obj, NEW ts \in SUBSET Task, master_request_obj_add(o, ts)
      PROVE  ControlInv'
  <2>1. job' \in Job /\ nRest' \in Nat
    BY <1>0, <1>4 DEF master_request_obj_add, Request, Job
  <2>2. [id |-> o, slave |-> NULL, attach |-> FALSE, tasks |-> ts, orig |-> ts] \in objParam
    BY DEF objParam, Pointer
  <2>3. mobjQueue' \in Seq(objParam)
    BY <1>0, <1>4, <2>2, AppendProperties DEF master_request_obj_add
  <2>4. mpc = "idle"
    BY <1>4 DEF master_request_obj_add, ControlInv
  <2> QED
    BY <1>4, <2>1, <2>3, <2>4 DEF master_request_obj_add, ControlInv, TypeOK,
                                  mutex, load, mgr, world
<1>5. ASSUME NEW o \in Obj, master_request_obj_del(o) PROVE ControlInv'
  <2>1. mobjQueue' \in Seq(objParam) /\ nRest' \in Nat
    <3>1. CASE UNCHANGED mobjQueue
      BY <1>0, <1>5, <3>1 DEF master_request_obj_del, Request
    <3>2. CASE \E i \in DOMAIN mobjQueue : mobjQueue' = RemoveAt(mobjQueue, i)
      BY <1>0, <1>5, <3>2, RemoveAtProperties DEF master_request_obj_del, Request
    <3> QED
      BY <1>5, <3>1, <3>2 DEF master_request_obj_del
  <2>2. mpc = "idle"
    BY <1>5 DEF master_request_obj_del, ControlInv
  <2> QED
    BY <1>5, <2>1, <2>2 DEF master_request_obj_del, ControlInv, TypeOK,
                            mutex, load, mgr, world
<1>6. ASSUME NEW o \in Obj, NEW t \in Task, NEW on \in BOOLEAN, master_request_task(o, t, on)
      PROVE  ControlInv'
  <2>1. job' \in Job /\ nRest' \in Nat
    BY <1>0, <1>6 DEF master_request_task, Request, Job
  <2>2. mpc = "idle"
    BY <1>6 DEF master_request_task, ControlInv
  <2>3. /\ mobjQueue' \in Seq(objParam)
        /\ slv' \in [Slave -> Machine] /\ nLost' \in Nat
    <3>1. CASE UNCHANGED <<mobjQueue, slv, nLost>>
      BY <1>0, <3>1
    <3>2. ASSUME NEW i \in DOMAIN mobjQueue, mobjQueue[i].id = o,
                 httpPostSlave(mobjQueue[i], t, on),
                 mobjQueue' = [mobjQueue EXCEPT ![i].tasks = WithTask(@, t, on)]
          PROVE  /\ mobjQueue' \in Seq(objParam)
                 /\ slv' \in [Slave -> Machine] /\ nLost' \in Nat
      <4>1. mobjQueue[i] \in objParam
        BY <1>0
      <4>2. WithTask(mobjQueue[i].tasks, t, on) \in SUBSET Task
        BY <4>1 DEF objParam, WithTask
      <4>3. mobjQueue' \in Seq(objParam)
        BY <1>0, <3>2, <4>2, ObjFields
      <4>4. slv' \in [Slave -> Machine] /\ nLost' \in Nat
        <5>1. CASE UNCHANGED <<slv, nLost>>
          BY <1>0, <5>1
        <5>2. CASE mobjQueue[i].slave # NULL /\ mobjQueue[i].attach
          <6>1. mobjQueue[i].slave \in Node
            BY <4>1, <5>2 DEF objParam, Pointer
          <6>2. sp[mobjQueue[i].slave].ip \in Slave
            BY <1>0, <6>1 DEF slaveParam
          <6>3. request_task(slv[sp[mobjQueue[i].slave].ip], mobjQueue[i].id, t, on) \in Machine
            BY <1>0, <3>2, <6>2, MachineOps
          <6> QED
            BY <1>0, <3>2, <5>2, <6>2, <6>3 DEF httpPostSlave, Deliver, Lose
        <5> QED
          BY <3>2, <5>1, <5>2 DEF httpPostSlave
      <4> QED
        BY <4>3, <4>4
    <3> QED
      BY <1>6, <3>1, <3>2 DEF master_request_task, IsFirst
  <2> QED
    BY <1>6, <2>1, <2>2, <2>3 DEF master_request_task, ControlInv, TypeOK,
                                  mutex, load, mgr
<1>7. ASSUME RestDb PROVE ControlInv'
  <2>1. job' \in Job
    BY <1>7 DEF RestDb, Job
  <2>2. DbAfter(job) \in [system : BOOLEAN, slaves : SUBSET Slave,
                          objs : [Obj -> DbObjRow \cup {None}]]
    BY <1>0, <1>7, DbAfterType DEF RestDb
  <2> QED
    BY <1>7, <2>1, <2>2 DEF RestDb, ControlInv, TypeOK, Current, shm, mutex, load, mgr, world
<1> QED
  BY <1>1, <1>2, <1>3, <1>4, <1>5, <1>6, <1>7 DEF master_restapi_thread

LEMMA MachinesControl ==
  ASSUME ControlInv, machines
  PROVE  ControlInv'
<1>1. ASSUME NEW s \in Slave, SlaveCrash(s) PROVE ControlInv'
  <2>1. Crashed \in Machine
    BY EmptySeq DEF Crashed, Machine
  <2>2. slv' \in [Slave -> Machine] /\ nCrash' \in Nat
    BY <1>1, <2>1 DEF SlaveCrash, ControlInv, TypeOK
  <2> QED
    BY <1>1, <2>2 DEF SlaveCrash, ControlInv, TypeOK, Current, shm, mutex, load, mgr, rest
<1>2. ASSUME NEW s \in Slave, SlaveBoot(s) PROVE ControlInv'
  <2>1. Booted \in Machine
    BY EmptySeq DEF Booted, Machine
  <2>2. slv' \in [Slave -> Machine]
    BY <1>2, <2>1 DEF SlaveBoot, ControlInv, TypeOK
  <2> QED
    BY <1>2, <2>2 DEF SlaveBoot, ControlInv, TypeOK, Current, shm, mutex, load, mgr, rest
<1>4. ASSUME NEW s \in Slave, RestRestart(s) PROVE ControlInv'
  <2>1. RestRestarted(slv[s]) \in Machine
    BY DEF RestRestarted, Machine, ControlInv, TypeOK
  <2>2. slv' \in [Slave -> Machine] /\ nCrash' \in Nat
    BY <1>4, <2>1 DEF RestRestart, ControlInv, TypeOK
  <2> QED
    BY <1>4, <2>2 DEF RestRestart, ControlInv, TypeOK, Current, shm, mutex, load, mgr, rest
<1>3. ASSUME Tick PROVE ControlInv'
  <2>1. sp \in [Node -> slaveParam]
    BY DEF ControlInv, TypeOK
  <2>2. \A n \in Waiting : sp[n].offline + 1 \in 0 .. Expired
    BY MasterAssumption DEF Waiting, Expired
  <2>3. \A n \in Waiting : n \in Node /\ [sp[n] EXCEPT !.offline = sp[n].offline + 1] \in slaveParam
    BY <2>1, <2>2 DEF slaveParam, Waiting
  <2>4. sp' \in [Node -> slaveParam]
    BY <1>3, <2>1, <2>3 DEF Tick
  <2> QED
    BY <1>3, <2>4 DEF Tick, ControlInv, TypeOK, Current, mutex, load, mgr, rest, world
<1> QED
  BY <1>1, <1>2, <1>3, <1>4 DEF machines

LEMMA InitControl == Init => ControlInv
<1> SUFFICES ASSUME Init PROVE ControlInv
  OBVIOUS
<1>1. DOMAIN DbSlave0 = 1 .. Len(DbSlave0) /\ DOMAIN DbSlave0 \subseteq Node
      /\ \A i \in DOMAIN DbSlave0 : DbSlave0[i] \in Slave
      /\ Len(DbSlave0) \in Nat
  BY MasterAssumption DEF Node
<1>2. \A i \in DOMAIN DbObj0 : /\ DbObj0[i].id \in Obj /\ DbObj0[i].tasks \in SUBSET Task
                               /\ DbObj0[i].slave \in Slave \cup {None}
  <2> DEFINE Row == [id : Obj, tasks : SUBSET Task, slave : Slave \cup {None}]
  <2>1. DbObj0 \in Seq(Row)
    BY MasterAssumption
  <2>2. \A i \in DOMAIN DbObj0 : DbObj0[i] \in Row
    <3> HIDE DEF Row
    <3> QED
      BY <2>1
  <2> QED
    BY <2>2
<1>3. \A ip : NodeOf(ip) \in Pointer
  BY <1>1 DEF NodeOf, Pointer
<1>4. \A s \in Slave : FreshSlave(s) \in slaveParam
  BY MasterAssumption DEF FreshSlave, slaveParam, Expired
<1>5. slaveQueue \in Seq(Node)
  <2>1. slaveQueue \in [1 .. Len(DbSlave0) -> Node]
    BY <1>1 DEF Init
  <2> QED
    BY <1>1, <2>1, SeqDef
<1>6. sp \in [Node -> slaveParam]
  <2>1. \A n \in Node : (IF n <= Len(DbSlave0) THEN DbSlave0[n]
                         ELSE CHOOSE s \in Slave : TRUE) \in Slave
    BY <1>1, MasterAssumption DEF Node
  <2>2. \A n \in Node : FreshSlave(IF n <= Len(DbSlave0) THEN DbSlave0[n]
                                   ELSE CHOOSE s \in Slave : TRUE) \in slaveParam
    BY <2>1, <1>4
  <2> QED
    BY <2>2 DEF Init
<1>7. mobjQueue \in Seq(objParam)
  <2>1. DOMAIN DbObj0 = 1 .. Len(DbObj0) /\ Len(DbObj0) \in Nat
    BY MasterAssumption
  <2>2. mobjQueue \in [1 .. Len(DbObj0) -> objParam]
    BY <1>2, <1>3, <2>1 DEF Init, objParam
  <2> QED
    BY <2>1, <2>2, SeqDef
<1>8. slv \in [Slave -> Machine]
  <2>1. Booted \in Machine
    BY EmptySeq DEF Booted, Machine
  <2>2. \A b \in BOOLEAN : [Booted EXCEPT !.systemInit = b] \in Machine
    BY <2>1 DEF Machine
  <2>3. \A s \in Slave : [Booted EXCEPT !.systemInit = (s \in Inited0)] \in Machine
    <3> TAKE s \in Slave
    <3>1. (s \in Inited0) \in BOOLEAN
      OBVIOUS
    <3> QED
      BY <2>2, <3>1, Zenon
  <2> QED
    BY <2>3 DEF Init
<1>9. db \in [system : BOOLEAN, slaves : SUBSET Slave, objs : [Obj -> DbObjRow \cup {None}]]
  <2>1. \A o \in Obj : DbRow0(o) \in DbObjRow \cup {None}
    BY <1>2 DEF DbRow0, DbObjRow
  <2> QED
    BY <1>1, <2>1, MasterAssumption DEF Init
<1>10. lTodo \in Seq(Node) /\ lAck \in Ack /\ job \in Job
  BY EmptySeq DEF Init, NoAck, Ack, Job
<1>11. sysOrgData \in BOOLEAN /\ slaveLoadOk \in BOOLEAN
  BY MasterAssumption, Zenon DEF Init
<1>12. /\ mutex_slave \in {0, 1} /\ mutex_mobj \in {0, 1}
       /\ lpc = "idle" /\ lpc \in LoadPlace /\ mpc = "idle" /\ mpc \in ManagerPlace
  BY DEF Init, LoadPlace, ManagerPlace
<1>13. /\ mIdx \in Nat \ {0} /\ mPick \in Pointer
       /\ nRest \in Nat /\ nCrash \in Nat /\ nLost \in Nat
  BY DEF Init, Pointer
<1> QED
  BY <1>5, <1>6, <1>7, <1>8, <1>9, <1>10, <1>11, <1>12, <1>13 DEF ControlInv, TypeOK

LEMMA StepControl == ControlInv /\ [Next]_vars => ControlInv'
<1> SUFFICES ASSUME ControlInv, [Next]_vars PROVE ControlInv'
  OBVIOUS
<1>1. CASE Next
  BY <1>1, LoadControl, ManagerControl, RestControl, MachinesControl DEF Next
<1>2. CASE UNCHANGED vars
  BY <1>2 DEF vars, shm, mutex, load, mgr, rest, world, ControlInv, TypeOK, Current
<1> QED
  BY <1>1, <1>2

\* Every variable keeps its type, a thread past its sem_wait holds the semaphore,
\* and a thread that works on a slave or an object has one in hand (slaveLoad and
\* mobjManager are only called by traverseQueue on a node of the queue).
THEOREM ControlSafe == Spec => []ControlInv
<1>1. ControlInv /\ [][Next]_vars => []ControlInv
  BY StepControl, PTL
<1> QED
  BY InitControl, <1>1, PTL DEF Spec

\* The type invariant.
THEOREM TypeSafe == Spec => []TypeOK
<1>1. ControlInv => TypeOK
  BY DEF ControlInv
<1> QED
  BY ControlSafe, <1>1, PTL

-----------------------------------------------------------------------------
(* No object stays attached to a slave marked offline *)

Settled(n) == Healthy(n) \/ BeingDetached(n)

\* What is usable of the invariant in every case below.
LEMMA AttachedFacts ==
  ASSUME AttachedInv
  PROVE  /\ ControlInv /\ Linked \subseteq Node /\ sp \in [Node -> slaveParam]
         /\ \A i \in DOMAIN mobjQueue :
               /\ mobjQueue[i].slave \in Linked \cup {NULL}
               /\ mobjQueue[i].attach => /\ mobjQueue[i].slave \in Linked
                                         /\ mobjQueue[i].slave # NULL
                                         /\ Settled(mobjQueue[i].slave)
         /\ \A n \in Node : sp[n].systemInit => sp[n].offline = 0
         /\ mpc \in {"keep", "drop", "post"} => Current.slave \in Linked
         /\ mpc = "keep" => Settled(Current.slave)
         /\ mpc = "drop" => ~Current.attach
         /\ mpc = "attach" => mPick \in Linked /\ mPick # NULL /\ Settled(mPick)
<1>1. ControlInv /\ TypeOK /\ NodesInv /\ GrantInv
  BY DEF AttachedInv, ControlInv
<1>2. Linked \subseteq Node
  BY <1>1 DEF TypeOK, Linked
<1>3. \A i \in DOMAIN mobjQueue :
         /\ mobjQueue[i].slave \in Linked \cup {NULL}
         /\ mobjQueue[i].attach => /\ mobjQueue[i].slave \in Linked
                                   /\ mobjQueue[i].slave # NULL
                                   /\ Settled(mobjQueue[i].slave)
  BY <1>1 DEF NodesInv, GrantInv, AttachedHealthy, Settled
<1>4. mpc \in {"keep", "drop", "post"} => Current.slave \in Linked
  BY <1>1, <1>3 DEF ControlInv, Current
<1> QED
  BY <1>1, <1>2, <1>3, <1>4 DEF TypeOK, NodesInv, GrantInv, Settled, ControlInv

\* A step that leaves the objects and the manager alone keeps the invariant when
\* no settled slave becomes unsettled.
LEMMA Carry ==
  ASSUME AttachedInv,
         UNCHANGED <<slaveQueue, mobjQueue, mpc, mIdx, mPick>>,
         \A n \in Node : Settled(n) => Settled(n)',
         \A n \in Node : sp'[n].systemInit => sp'[n].offline = 0,
         lpc' = "init" => sp'[Head(lTodo')].offline = 0
  PROVE  NodesInv' /\ GrantInv'
<1>1. Linked' = Linked /\ Current' = Current
  BY DEF Linked, Current
<1>2. NodesInv'
  BY <1>1, AttachedFacts DEF NodesInv
<1>3. \A i \in DOMAIN mobjQueue : mobjQueue[i].attach =>
         mobjQueue[i].slave # NULL /\ Settled(mobjQueue[i].slave)'
  BY AttachedFacts
<1>4. /\ mpc = "keep" => Settled(Current.slave)'
      /\ mpc = "drop" => ~Current.attach
  BY <1>1, AttachedFacts
<1>5. mpc = "attach" => Settled(mPick)'
  BY AttachedFacts
<1> QED
  BY <1>1, <1>2, <1>3, <1>4, <1>5 DEF GrantInv, AttachedHealthy, Settled, Healthy, BeingDetached

LEMMA LoadAttached ==
  ASSUME AttachedInv, slave_load_thread
  PROVE  NodesInv' /\ GrantInv'
<1> DEFINE h == Head(lTodo)
<1>0. /\ ControlInv /\ sp \in [Node -> slaveParam]
      /\ \A n \in Node : sp[n].systemInit => sp[n].offline = 0
      /\ lpc = "init" => sp[h].offline = 0
      /\ lpc \in {"ack", "detach", "init"} => h \in Node
  <2>1. lpc \in {"ack", "detach", "init"} => h \in Node
    BY AttachedFacts, LoadHand DEF ControlInv
  <2> QED
    BY <2>1, AttachedFacts DEF AttachedInv, NodesInv
<1>1. ASSUME LoadLock PROVE NodesInv' /\ GrantInv'
  <2>1. UNCHANGED <<slaveQueue, sp, mobjQueue, mpc, mIdx, mPick>> /\ lpc = "idle" /\ lpc' = "poll"
    BY <1>1 DEF LoadLock, shm, mgr
  <2>2. \A n \in Node : Settled(n) => Settled(n)'
    BY <2>1 DEF Settled, Healthy, BeingDetached
  <2> QED
    BY <1>0, <2>1, <2>2, Carry
<1>2. ASSUME LoadPoll PROVE NodesInv' /\ GrantInv'
  <2>1. UNCHANGED <<slaveQueue, sp, mobjQueue, mpc, mIdx, mPick>> /\ lpc = "poll" /\ lpc' = "ack"
    BY <1>2 DEF LoadPoll, shm, mgr
  <2>2. \A n \in Node : Settled(n) => Settled(n)'
    BY <2>1 DEF Settled, Healthy, BeingDetached
  <2> QED
    BY <1>0, <2>1, <2>2, Carry
<1>3. ASSUME LoadOffline PROVE NodesInv' /\ GrantInv'
  <2>1. /\ UNCHANGED <<slaveQueue, mobjQueue, mpc, mIdx, mPick, lTodo>>
        /\ lpc = "ack" /\ lpc' = "detach" /\ h \in Node
        /\ sp' = [sp EXCEPT ![h].offline = 1, ![h].systemInit = FALSE]
    BY <1>0, <1>3 DEF LoadOffline, mgr
  <2>2. /\ \A n \in Node : n # h => sp'[n] = sp[n]
        /\ ~sp'[h].systemInit
    BY <1>0, <2>1 DEF slaveParam
  <2>3. \A n \in Node : Settled(n) => Settled(n)'
    BY <2>1, <2>2 DEF Settled, Healthy, BeingDetached
  <2>4. \A n \in Node : sp'[n].systemInit => sp'[n].offline = 0
    BY <1>0, <2>2
  <2> QED
    BY <2>1, <2>3, <2>4, Carry
<1>4. ASSUME LoadStillOffline PROVE NodesInv' /\ GrantInv'
  <2>1. /\ UNCHANGED <<slaveQueue, mobjQueue, mpc, mIdx, mPick>>
        /\ lpc = "ack" /\ lpc' = "poll" /\ h \in Node
        /\ sp' = [sp EXCEPT ![h].online = FALSE]
    BY <1>0, <1>4 DEF LoadStillOffline, NextSlave, mgr
  <2>2. \A n \in Node : sp'[n].systemInit = sp[n].systemInit /\ sp'[n].offline = sp[n].offline
    BY <1>0, <2>1 DEF slaveParam
  <2>3. \A n \in Node : Settled(n) => Settled(n)'
    BY <2>1, <2>2 DEF Settled, Healthy, BeingDetached
  <2> QED
    BY <1>0, <2>1, <2>2, <2>3, Carry
<1>5. ASSUME LoadDetach PROVE NodesInv' /\ GrantInv'
  <2>1. /\ UNCHANGED <<slaveQueue, mpc, mIdx, mPick>>
        /\ lpc = "detach" /\ lpc' = "poll" /\ h \in Node /\ mpc = "idle"
        /\ sp' = [sp EXCEPT ![h].online = FALSE]
    BY <1>0, <1>5 DEF LoadDetach, NextSlave, mgr, ControlInv
  <2>2. \A n \in Node : sp'[n].systemInit = sp[n].systemInit /\ sp'[n].offline = sp[n].offline
    BY <1>0, <2>1 DEF slaveParam
  <2>3. PICK D :
          /\ \A i \in DOMAIN mobjQueue :
                mobjQueue[i].slave \in Linked /\ Detached(mobjQueue[i], sp[h].ip) => i \in D
          /\ mobjQueue' = [i \in DOMAIN mobjQueue |->
                              IF i \in D THEN [mobjQueue[i] EXCEPT !.attach = FALSE]
                              ELSE mobjQueue[i]]
    BY <1>5 DEF LoadDetach
  <2>4. \A i \in DOMAIN mobjQueue : mobjQueue[i] \in objParam
    BY <1>0 DEF ControlInv, TypeOK
  <2>5. DOMAIN mobjQueue' = DOMAIN mobjQueue
    BY <2>3
  <2>6. \A i \in DOMAIN mobjQueue : mobjQueue'[i].slave = mobjQueue[i].slave
    BY <2>3, <2>4 DEF objParam
  <2>7. ASSUME NEW i \in DOMAIN mobjQueue, mobjQueue'[i].attach
        PROVE  mobjQueue[i].slave # NULL /\ Healthy(mobjQueue[i].slave)'
    <3>1. i \notin D /\ mobjQueue[i].attach
      BY <2>3, <2>4, <2>7 DEF objParam
    <3>2. /\ mobjQueue[i].slave \in Linked /\ mobjQueue[i].slave # NULL
          /\ mobjQueue[i].slave \in Node /\ Settled(mobjQueue[i].slave)
      BY <3>1, AttachedFacts
    <3>3. ~BeingDetached(mobjQueue[i].slave)
      BY <2>1, <2>3, <3>1, <3>2 DEF Detached, BeingDetached
    <3> QED
      BY <2>2, <2>6, <3>2, <3>3 DEF Settled, Healthy
  <2>8. NodesInv'
    <3>1. Linked' = Linked
      BY <2>1 DEF Linked
    <3> QED
      BY <1>0, <2>1, <2>2, <2>5, <2>6, <3>1, AttachedFacts DEF NodesInv
  <2> QED
    BY <2>1, <2>5, <2>6, <2>7, <2>8 DEF GrantInv, AttachedHealthy, Healthy
<1>6. ASSUME LoadOnline PROVE NodesInv' /\ GrantInv'
  <2>1. /\ UNCHANGED <<slaveQueue, mobjQueue, mpc, mIdx, mPick>>
        /\ lpc = "ack" /\ lpc' \in {"poll", "init"} /\ h \in Node
        /\ lpc' = "init" => lTodo' = lTodo
        /\ sp' = [sp EXCEPT ![h].online = TRUE, ![h].offline = 0,
                            ![h].load = IF sysOrgData THEN @ ELSE lAck.load]
    BY <1>0, <1>6 DEF LoadOnline, NextSlave, mgr
  <2>2. /\ \A n \in Node : sp'[n].systemInit = sp[n].systemInit
        /\ \A n \in Node : n # h => sp'[n] = sp[n]
        /\ sp'[h].offline = 0
    BY <1>0, <2>1 DEF slaveParam
  <2>3. \A n \in Node : Settled(n) => Settled(n)'
    BY <2>1, <2>2 DEF Settled, Healthy, BeingDetached
  <2> QED
    BY <1>0, <2>1, <2>2, <2>3, Carry
<1>7. ASSUME LoadInit PROVE NodesInv' /\ GrantInv'
  <2>1. /\ UNCHANGED <<slaveQueue, mobjQueue, mpc, mIdx, mPick>>
        /\ lpc = "init" /\ lpc' = "poll" /\ h \in Node
        /\ sp' = [sp EXCEPT ![h].systemInit = TRUE, ![h].load = lAck.load]
    BY <1>0, <1>7 DEF LoadInit, NextSlave, mgr
  <2>2. /\ \A n \in Node : sp'[n].offline = sp[n].offline
        /\ \A n \in Node : n # h => sp'[n] = sp[n]
        /\ sp'[h].systemInit
    BY <1>0, <2>1 DEF slaveParam
  <2>3. \A n \in Node : Settled(n) => Settled(n)'
    BY <2>1, <2>2 DEF Settled, Healthy, BeingDetached
  <2> QED
    BY <1>0, <2>1, <2>2, <2>3, Carry
<1>8. ASSUME LoadInited PROVE NodesInv' /\ GrantInv'
  <2>1. /\ UNCHANGED <<slaveQueue, mobjQueue, mpc, mIdx, mPick>>
        /\ lpc = "ack" /\ lpc' = "poll" /\ h \in Node
        /\ sp' = [sp EXCEPT ![h].load = lAck.load]
    BY <1>0, <1>8 DEF LoadInited, NextSlave, mgr
  <2>2. \A n \in Node : sp'[n].systemInit = sp[n].systemInit /\ sp'[n].offline = sp[n].offline
    BY <1>0, <2>1 DEF slaveParam
  <2>3. \A n \in Node : Settled(n) => Settled(n)'
    BY <2>1, <2>2 DEF Settled, Healthy, BeingDetached
  <2> QED
    BY <1>0, <2>1, <2>2, <2>3, Carry
<1>9. ASSUME LoadUnlock PROVE NodesInv' /\ GrantInv'
  <2>1. UNCHANGED <<slaveQueue, sp, mobjQueue, mpc, mIdx, mPick>> /\ lpc = "poll" /\ lpc' = "idle"
    BY <1>9 DEF LoadUnlock, mgr
  <2>2. \A n \in Node : Settled(n) => Settled(n)'
    BY <2>1 DEF Settled, Healthy, BeingDetached
  <2> QED
    BY <1>0, <2>1, <2>2, Carry
<1> QED
  BY <1>1, <1>2, <1>3, <1>4, <1>5, <1>6, <1>7, <1>8, <1>9 DEF slave_load_thread

LEMMA ManagerAttached ==
  ASSUME AttachedInv, master_objmanager_thread
  PROVE  NodesInv' /\ GrantInv'
<1>0. /\ ControlInv /\ sp \in [Node -> slaveParam] /\ mobjQueue \in Seq(objParam)
      /\ \A n \in Node : sp[n].systemInit => sp[n].offline = 0
      /\ lpc = "init" => sp[Head(lTodo)].offline = 0
      /\ lpc = "init" => Head(lTodo) \in Node
  <2>1. lpc = "init" => Head(lTodo) \in Node
    BY AttachedFacts, LoadHand DEF ControlInv
  <2> QED
    BY <2>1, AttachedFacts DEF AttachedInv, NodesInv, ControlInv, TypeOK
\* The manager touches neither the load thread nor what makes a slave settled.
<1>1. /\ UNCHANGED <<slaveQueue, lpc, lTodo>>
      /\ \A n \in Node : /\ sp'[n].ip = sp[n].ip
                         /\ sp'[n].systemInit = sp[n].systemInit
                         /\ sp'[n].offline = sp[n].offline
  <2>1. CASE UNCHANGED <<slaveQueue, sp, lpc, lTodo>>
    BY <2>1
  <2>2. CASE ManagerPost
    <3>1. UNCHANGED <<slaveQueue, lpc, lTodo>> /\ Current.slave \in Node
      BY <2>2, AttachedFacts DEF ManagerPost, load
    <3>2. sp' = sp \/ \E k : sp' = [sp EXCEPT ![Current.slave].load = k]
      BY <2>2 DEF ManagerPost
    <3>3. \A n \in Node : /\ sp'[n].ip = sp[n].ip
                          /\ sp'[n].systemInit = sp[n].systemInit
                          /\ sp'[n].offline = sp[n].offline
      <4>1. ASSUME NEW k, sp' = [sp EXCEPT ![Current.slave].load = k], NEW n \in Node
            PROVE  /\ sp'[n].ip = sp[n].ip
                   /\ sp'[n].systemInit = sp[n].systemInit
                   /\ sp'[n].offline = sp[n].offline
        BY <1>0, <3>1, <4>1 DEF slaveParam
      <4> QED
        BY <3>2, <4>1
    <3> QED
      BY <3>1, <3>3
  <2> QED
    BY <2>1, <2>2 DEF master_objmanager_thread, mobjManager, ManagerLock, ManagerSkip,
         slaveIsNormal, ManagerKeep, ManagerDrop, getLowestLoadSlave, ManagerAttach,
         ManagerUnlock, shm, load
<1>2. /\ Linked' = Linked
      /\ \A n \in Node : sp'[n].systemInit => sp'[n].offline = 0
      /\ lpc' = "init" => sp'[Head(lTodo')].offline = 0
  BY <1>0, <1>1 DEF Linked
<1>3. \A n \in Node : Healthy(n)' = Healthy(n)
  BY <1>1 DEF Healthy
<1>4. \A n \in Node : Settled(n) => Settled(n)'
  <2>1. lpc = "detach" => Head(lTodo) \in Node
    BY <1>0, LoadHand DEF ControlInv
  <2> QED
    BY <1>1, <1>3, <2>1 DEF Settled, BeingDetached
\* The queue keeps its length, and an object that is attached afterwards was
\* attached to the same slave before, or is the one that has just been granted it.
<1>5. ASSUME DOMAIN mobjQueue' = DOMAIN mobjQueue,
             \A i \in DOMAIN mobjQueue :
               \/ mobjQueue'[i].slave = NULL /\ ~mobjQueue'[i].attach
               \/ /\ mobjQueue'[i].slave = mobjQueue[i].slave
                  /\ mobjQueue'[i].attach => mobjQueue[i].attach
               \/ mobjQueue'[i].slave \in Linked /\ Settled(mobjQueue'[i].slave),
             mpc' = "keep" => /\ mIdx' \in DOMAIN mobjQueue'
                              /\ mobjQueue'[mIdx'].slave \in Linked
                              /\ Settled(mobjQueue'[mIdx'].slave),
             mpc' = "drop" => ~mobjQueue'[mIdx'].attach,
             mpc' = "attach" => mPick' \in Linked /\ Settled(mPick')
      PROVE  NodesInv' /\ GrantInv'
  <2>1. \A n \in Linked : n \in Node /\ n # NULL
    BY AttachedFacts DEF Node, NULL
  <2>2. \A i \in DOMAIN mobjQueue : mobjQueue'[i].slave \in Linked \cup {NULL}
    BY <1>5, AttachedFacts
  <2>3. \A i \in DOMAIN mobjQueue : mobjQueue'[i].attach =>
           mobjQueue'[i].slave \in Linked /\ Settled(mobjQueue'[i].slave)
    BY <1>5, AttachedFacts
  <2>4. \A n \in Linked : Settled(n) => (Healthy(n) \/ BeingDetached(n))'
    BY <1>4, <2>1 DEF Settled
  <2>5. NodesInv'
    BY <1>2, <1>5, <2>2 DEF NodesInv
  <2>6. AttachedHealthy'
    BY <1>5, <2>1, <2>3, <2>4 DEF AttachedHealthy, Healthy, BeingDetached
  <2>7. mpc' = "keep" => (Healthy(Current.slave) \/ BeingDetached(Current.slave))'
    BY <1>5, <2>4 DEF Current, Healthy, BeingDetached
  <2>8. mpc' = "attach" => (Healthy(mPick) \/ BeingDetached(mPick))'
    BY <1>5, <2>4 DEF Healthy, BeingDetached
  <2>9. mpc' = "drop" => ~(Current.attach)'
    BY <1>5 DEF Current
  <2> QED
    BY <2>5, <2>6, <2>7, <2>8, <2>9 DEF GrantInv
\* ... which every step of the manager satisfies.
<1>6. ASSUME UNCHANGED mobjQueue, mpc' \notin {"keep", "drop", "attach"}
      PROVE  NodesInv' /\ GrantInv'
  BY <1>5, <1>6
<1>7. ASSUME slaveIsNormal PROVE NodesInv' /\ GrantInv'
  <2>1. /\ mIdx \in DOMAIN mobjQueue /\ mpc' \in {"keep", "drop", "scan"}
        /\ mpc' # "scan" => mIdx' = mIdx
        /\ UNCHANGED mobjQueue /\ ~Current.attach
        /\ Current.slave # NULL
        /\ mpc' = "keep" => (Current.slave \in Linked => Verdict(Current.slave) = "keep")
    BY <1>7 DEF slaveIsNormal, Scanning, NextObj, shm
  <2>2. Current.slave \in Linked
    BY <2>1, AttachedFacts DEF Current
  <2>3. mpc' = "keep" => Settled(Current.slave)
    BY <2>1, <2>2 DEF Verdict, Settled, Healthy
  <2> QED
    BY <1>5, <2>1, <2>2, <2>3 DEF Current
<1>8. ASSUME ManagerKeep PROVE NodesInv' /\ GrantInv'
  <2>1. /\ mIdx \in DOMAIN mobjQueue /\ mpc' = "post"
        /\ mobjQueue' = [mobjQueue EXCEPT ![mIdx].attach = TRUE]
    BY <1>0, <1>8 DEF ManagerKeep, ControlInv
  <2>2. Current.slave \in Linked /\ Settled(Current.slave)
    BY <1>8, AttachedFacts DEF ManagerKeep
  <2>3. /\ DOMAIN mobjQueue' = DOMAIN mobjQueue
        /\ \A i \in DOMAIN mobjQueue : i # mIdx => mobjQueue'[i] = mobjQueue[i]
        /\ mobjQueue'[mIdx].slave = Current.slave
    BY <1>0, <2>1, ManagerHand DEF Current, objParam
  <2> QED
    BY <1>5, <2>1, <2>2, <2>3
<1>9. ASSUME ManagerDrop PROVE NodesInv' /\ GrantInv'
  <2>1. /\ mIdx \in DOMAIN mobjQueue /\ mpc' = "scan"
        /\ mobjQueue' = [mobjQueue EXCEPT ![mIdx].slave = NULL]
        /\ ~Current.attach
    BY <1>0, <1>9, AttachedFacts DEF ManagerDrop, NextObj, ControlInv
  <2>2. /\ DOMAIN mobjQueue' = DOMAIN mobjQueue
        /\ \A i \in DOMAIN mobjQueue : i # mIdx => mobjQueue'[i] = mobjQueue[i]
        /\ mobjQueue'[mIdx].slave = NULL /\ ~mobjQueue'[mIdx].attach
    BY <1>0, <2>1, ManagerHand DEF Current, objParam
  <2> QED
    BY <1>5, <2>1, <2>2
<1>10. ASSUME getLowestLoadSlave PROVE NodesInv' /\ GrantInv'
  <2>1. UNCHANGED mobjQueue /\ mpc' \in {"attach", "scan"}
    BY <1>10 DEF getLowestLoadSlave, NextObj, shm
  <2>2. mpc' = "attach" => \E i \in DOMAIN slaveQueue :
                              IsLowest(Loads, i) /\ mPick' = slaveQueue[i]
    BY <1>10 DEF getLowestLoadSlave, NextObj
  <2>3. mpc' = "attach" => mPick' \in Linked /\ sp[mPick'].systemInit
    BY <2>2 DEF IsLowest, Usable, Loads, Linked
  <2>4. mpc' = "attach" => Settled(mPick')
    BY <1>0, <2>3, AttachedFacts DEF Settled, Healthy
  <2> QED
    BY <1>5, <2>1, <2>3, <2>4
<1>11. ASSUME ManagerAttach PROVE NodesInv' /\ GrantInv'
  <2>1. /\ mIdx \in DOMAIN mobjQueue /\ mpc' = "post"
        /\ mobjQueue' = [mobjQueue EXCEPT ![mIdx].slave = mPick, ![mIdx].attach = TRUE]
        /\ mPick \in Linked /\ Settled(mPick)
    BY <1>0, <1>11, AttachedFacts DEF ManagerAttach, ControlInv
  <2>2. /\ DOMAIN mobjQueue' = DOMAIN mobjQueue
        /\ \A i \in DOMAIN mobjQueue : i # mIdx => mobjQueue'[i] = mobjQueue[i]
        /\ mobjQueue'[mIdx].slave = mPick
    BY <1>0, <2>1, ManagerHand DEF Current, objParam
  <2> QED
    BY <1>5, <2>1, <2>2
<1>12. ASSUME ManagerLock \/ ManagerSkip \/ ManagerPost \/ ManagerUnlock
       PROVE  NodesInv' /\ GrantInv'
  <2>1. UNCHANGED mobjQueue /\ mpc' \in {"idle", "scan"}
    BY <1>12 DEF ManagerLock, ManagerSkip, ManagerPost, ManagerUnlock, NextObj, shm
  <2> QED
    BY <1>6, <2>1
<1> QED
  BY <1>7, <1>8, <1>9, <1>10, <1>11, <1>12 DEF master_objmanager_thread, mobjManager

LEMMA RestAttached ==
  ASSUME "slave_del" \notin RestOps, AttachedInv, master_restapi_thread
  PROVE  NodesInv' /\ GrantInv'
<1>0. /\ ControlInv /\ sp \in [Node -> slaveParam] /\ mobjQueue \in Seq(objParam)
      /\ slaveQueue \in Seq(Node)
      /\ \A n \in Node : sp[n].systemInit => sp[n].offline = 0
      /\ lpc = "init" => sp[Head(lTodo)].offline = 0
  BY AttachedFacts DEF AttachedInv, NodesInv, ControlInv, TypeOK
<1>1. \A n \in Node : UNCHANGED <<sp, lpc, lTodo>> /\ Settled(n) => Settled(n)'
  BY DEF Settled, Healthy, BeingDetached
\* A step outside mutex_mobj.
<1>2. ASSUME UNCHANGED <<slaveQueue, sp, mobjQueue, load, mgr>>
      PROVE  NodesInv' /\ GrantInv'
  BY <1>0, <1>1, <1>2, Carry DEF load, mgr
\* A step under mutex_mobj that attaches nothing.
<1>3. ASSUME mutex_mobj = 1, UNCHANGED <<slaveQueue, sp, load, mgr>>,
             \A i \in DOMAIN mobjQueue' :
               \/ mobjQueue'[i].slave = NULL /\ ~mobjQueue'[i].attach
               \/ \E k \in DOMAIN mobjQueue :
                     /\ mobjQueue'[i].slave = mobjQueue[k].slave
                     /\ mobjQueue'[i].attach => mobjQueue[k].attach
      PROVE  NodesInv' /\ GrantInv'
  <2>1. mpc = "idle" /\ mpc' = "idle" /\ Linked' = Linked /\ UNCHANGED <<sp, lpc, lTodo>>
    BY <1>0, <1>3 DEF ControlInv, Linked, load, mgr
  <2>2. \A i \in DOMAIN mobjQueue' : mobjQueue'[i].slave \in Linked \cup {NULL}
    BY <1>3, AttachedFacts
  <2>3. \A i \in DOMAIN mobjQueue' : mobjQueue'[i].attach =>
           /\ mobjQueue'[i].slave # NULL
           /\ Settled(mobjQueue'[i].slave)
    BY <1>3, AttachedFacts
  <2> QED
    BY <1>0, <2>1, <2>2, <2>3
       DEF NodesInv, GrantInv, AttachedHealthy, Settled, Healthy, BeingDetached
<1>4. ASSUME NEW s \in Slave, master_request_slave_add(s) PROVE NodesInv' /\ GrantInv'
  <2>1. /\ UNCHANGED <<mobjQueue, load, mgr>> /\ lpc = "idle"
    BY <1>0, <1>4 DEF master_request_slave_add, ControlInv
  <2>2. CASE UNCHANGED <<slaveQueue, sp>>
    BY <1>2, <2>1, <2>2
  <2>3. ASSUME NEW n \in Node \ Linked, slaveQueue' = Append(slaveQueue, n),
               sp' = [sp EXCEPT ![n] = FreshSlave(s)]
        PROVE  NodesInv' /\ GrantInv'
    <3>1. Linked \subseteq Linked'
      <4>1. /\ Len(slaveQueue') = Len(slaveQueue) + 1
            /\ \A i \in 1 .. Len(slaveQueue) : slaveQueue'[i] = slaveQueue[i]
            /\ DOMAIN slaveQueue = 1 .. Len(slaveQueue) /\ Len(slaveQueue) \in Nat
            /\ DOMAIN slaveQueue' = 1 .. Len(slaveQueue')
        BY <1>0, <2>3, AppendProperties
      <4>2. DOMAIN slaveQueue \subseteq DOMAIN slaveQueue'
        BY <4>1
      <4> QED
        BY <4>1, <4>2 DEF Linked
    <3>2. /\ \A m \in Node : m # n => sp'[m] = sp[m]
          /\ ~sp'[n].systemInit
      BY <1>0, <2>3 DEF FreshSlave
    <3>3. \A m \in Linked : m # n /\ m \in Node /\ (Settled(m) => Healthy(m) /\ Healthy(m)')
      BY <2>1, <2>3, <3>2, AttachedFacts DEF Settled, BeingDetached, Healthy
    <3>4. /\ mpc' = mpc /\ mPick' = mPick /\ Current' = Current /\ mobjQueue' = mobjQueue
          /\ lpc' = "idle"
      BY <2>1 DEF mgr, load, Current
    <3>5. NodesInv'
      <4>1. \A m \in Node : sp'[m].systemInit => sp'[m].offline = 0
        BY <1>0, <3>2
      <4> QED
        BY <3>1, <3>4, <4>1, AttachedFacts DEF NodesInv
    <3>6. /\ \A i \in DOMAIN mobjQueue : mobjQueue[i].attach =>
                mobjQueue[i].slave # NULL /\ Healthy(mobjQueue[i].slave)'
          /\ mpc = "keep" => Healthy(Current.slave)'
          /\ mpc = "attach" => Healthy(mPick)'
          /\ mpc = "drop" => ~Current.attach
      BY <3>3, <3>4, AttachedFacts
    <3> QED
      BY <3>4, <3>5, <3>6 DEF GrantInv, AttachedHealthy, Healthy
  <2> QED
    BY <1>4, <2>2, <2>3 DEF master_request_slave_add
<1>5. ASSUME NEW o \in Obj, NEW ts \in SUBSET Task, master_request_obj_add(o, ts)
      PROVE  NodesInv' /\ GrantInv'
  <2> DEFINE new == [id |-> o, slave |-> NULL, attach |-> FALSE, tasks |-> ts, orig |-> ts]
  <2>1. mutex_mobj = 1 /\ UNCHANGED <<slaveQueue, sp, load, mgr>>
    BY <1>5 DEF master_request_obj_add
  <2>2. CASE UNCHANGED mobjQueue
    BY <1>2, <2>1, <2>2
  <2>3. CASE mobjQueue' = Append(mobjQueue, new)
    <3>1. new \in objParam
      BY DEF objParam, Pointer
    <3>2. \A i \in DOMAIN mobjQueue' :
             (i \in DOMAIN mobjQueue /\ mobjQueue'[i] = mobjQueue[i]) \/ mobjQueue'[i] = new
      <4> HIDE DEF new
      <4>1. /\ mobjQueue' \in Seq(objParam)
            /\ Len(mobjQueue') = Len(mobjQueue) + 1
            /\ \A i \in 1 .. Len(mobjQueue) : mobjQueue'[i] = mobjQueue[i]
            /\ mobjQueue'[Len(mobjQueue) + 1] = new
        BY <1>0, <2>3, <3>1, AppendProperties
      <4> QED
        BY <1>0, <4>1, LenProperties
    <3> QED
      BY <1>3, <2>1, <3>2
  <2> QED
    BY <1>5, <2>2, <2>3 DEF master_request_obj_add
<1>6. ASSUME NEW o \in Obj, master_request_obj_del(o) PROVE NodesInv' /\ GrantInv'
  <2>1. mutex_mobj = 1 /\ UNCHANGED <<slaveQueue, sp, load, mgr>>
    BY <1>6 DEF master_request_obj_del
  <2>2. CASE UNCHANGED mobjQueue
    BY <1>2, <2>1, <2>2
  <2>3. ASSUME NEW i \in DOMAIN mobjQueue, mobjQueue' = RemoveAt(mobjQueue, i)
        PROVE  NodesInv' /\ GrantInv'
    <3>1. \A j \in DOMAIN mobjQueue' : \E k \in DOMAIN mobjQueue : mobjQueue'[j] = mobjQueue[k]
      BY <1>0, <2>3, RemoveAtProperties
    <3> QED
      BY <1>3, <2>1, <3>1
  <2> QED
    BY <1>6, <2>2, <2>3 DEF master_request_obj_del
<1>7. ASSUME NEW o \in Obj, NEW t \in Task, NEW on \in BOOLEAN, master_request_task(o, t, on)
      PROVE  NodesInv' /\ GrantInv'
  <2>1. mutex_mobj = 1 /\ UNCHANGED <<slaveQueue, sp, load, mgr>>
    BY <1>7 DEF master_request_task
  <2>2. CASE UNCHANGED mobjQueue
    BY <1>2, <2>1, <2>2
  <2>3. ASSUME NEW i \in DOMAIN mobjQueue, NEW ts,
               mobjQueue' = [mobjQueue EXCEPT ![i].tasks = ts]
        PROVE  NodesInv' /\ GrantInv'
    <3>1. mobjQueue[i] \in objParam
      BY <1>0
    <3>2. DOMAIN mobjQueue' = DOMAIN mobjQueue
          /\ \A j \in DOMAIN mobjQueue : /\ mobjQueue'[j].slave = mobjQueue[j].slave
                                         /\ mobjQueue'[j].attach = mobjQueue[j].attach
      BY <2>3, <3>1 DEF objParam
    <3> QED
      BY <1>3, <2>1, <3>2
  <2> QED
    BY <1>7, <2>2, <2>3 DEF master_request_task, IsFirst
<1>8. ASSUME master_request_system_init \/ RestDb PROVE NodesInv' /\ GrantInv'
  <2>1. UNCHANGED <<slaveQueue, sp, mobjQueue, load, mgr>>
    BY <1>8 DEF master_request_system_init, RestDb, shm
  <2> QED
    BY <1>2, <2>1
<1>9. \A s \in Slave : ~master_request_slave_del(s)
  BY DEF master_request_slave_del, Request
<1> QED
  BY <1>4, <1>5, <1>6, <1>7, <1>8, <1>9 DEF master_restapi_thread

LEMMA MachinesAttached ==
  ASSUME AttachedInv, machines
  PROVE  NodesInv' /\ GrantInv'
<1>0. /\ ControlInv /\ sp \in [Node -> slaveParam]
      /\ \A n \in Node : sp[n].systemInit => sp[n].offline = 0
      /\ lpc = "init" => sp[Head(lTodo)].offline = 0
      /\ lpc = "init" => Head(lTodo) \in Node
      /\ lpc = "detach" => Head(lTodo) \in Node
  <2>1. lpc \in {"init", "detach"} => Head(lTodo) \in Node
    BY AttachedFacts, LoadHand DEF ControlInv
  <2> QED
    BY <2>1, AttachedFacts DEF AttachedInv, NodesInv
<1>1. ASSUME UNCHANGED <<slaveQueue, sp, mobjQueue, load, mgr>>
      PROVE  NodesInv' /\ GrantInv'
  <2>1. \A n \in Node : Settled(n) => Settled(n)'
    BY <1>1 DEF Settled, Healthy, BeingDetached, load
  <2> QED
    BY <1>0, <1>1, <2>1, Carry DEF load, mgr
<1>2. ASSUME Tick PROVE NodesInv' /\ GrantInv'
  <2>1. /\ UNCHANGED <<slaveQueue, mobjQueue, mpc, mIdx, mPick, lpc, lTodo>>
        /\ sp' = [n \in Node |-> IF n \in Waiting THEN [sp[n] EXCEPT !.offline = @ + 1]
                                 ELSE sp[n]]
    BY <1>2 DEF Tick, load, mgr
  <2>2. \A n \in Waiting : sp[n].offline # 0
    BY DEF Waiting
  <2>3. \A n \in Node : /\ sp'[n].ip = sp[n].ip /\ sp'[n].systemInit = sp[n].systemInit
                        /\ sp[n].offline = 0 => sp'[n].offline = 0
    BY <1>0, <2>1, <2>2 DEF slaveParam
  <2>4. \A n \in Node : Settled(n) => Settled(n)'
    BY <1>0, <2>1, <2>3 DEF Settled, Healthy, BeingDetached
  <2> QED
    BY <1>0, <2>1, <2>3, <2>4, Carry
<1> QED
  BY <1>1, <1>2 DEF machines, SlaveCrash, RestRestart, SlaveBoot, shm

\* AttachedInv is inductive as long as no slave is deleted.
LEMMA StepAttached ==
  ASSUME "slave_del" \notin RestOps
  PROVE  AttachedInv /\ [Next]_vars => AttachedInv'
<1> SUFFICES ASSUME AttachedInv, [Next]_vars PROVE AttachedInv'
  OBVIOUS
<1>1. ControlInv'
  BY StepControl DEF AttachedInv
<1>2. NodesInv' /\ GrantInv'
  <2>1. CASE Next
    BY <2>1, LoadAttached, ManagerAttached, RestAttached, MachinesAttached DEF Next
  <2>2. CASE UNCHANGED vars
    BY <2>2 DEF vars, shm, mutex, load, mgr, rest, world, AttachedInv, NodesInv, GrantInv,
            AttachedHealthy, Healthy, BeingDetached, Linked, Current
  <2> QED
    BY <2>1, <2>2
<1> QED
  BY <1>1, <1>2 DEF AttachedInv

LEMMA InitAttached == Init => AttachedInv
<1> SUFFICES ASSUME Init PROVE AttachedInv
  OBVIOUS
<1>1. ControlInv
  BY InitControl
<1>2. \A i \in DOMAIN mobjQueue : ~mobjQueue[i].attach
  BY DEF Init
<1>3. \A i \in DOMAIN mobjQueue : mobjQueue[i].slave \in Linked \cup {NULL}
  <2>1. DOMAIN DbSlave0 = 1 .. Len(DbSlave0)
    BY MasterAssumption
  <2>2. Linked = DOMAIN DbSlave0
    BY <2>1 DEF Init, Linked
  <2>3. \A ip : NodeOf(ip) \in Linked \cup {NULL}
    BY <2>2 DEF NodeOf
  <2> QED
    BY <2>3 DEF Init
<1>4. \A n \in Node : ~sp[n].systemInit
  BY DEF Init, FreshSlave
<1> QED
  BY <1>1, <1>2, <1>3, <1>4 DEF Init, AttachedInv, NodesInv, GrantInv, AttachedHealthy

\* As long as no slave is deleted, no object is attached to a slave the master has
\* marked offline, except while the load thread waits to detach that slave's
\* objects: mutex_slave alone guards the mark, mutex_mobj alone the attachment.
THEOREM AttachedSafe ==
  ASSUME "slave_del" \notin RestOps
  PROVE  Spec => []AttachedHealthy
<1>1. AttachedInv /\ [][Next]_vars => []AttachedInv
  BY StepAttached, PTL
<1>2. AttachedInv => AttachedHealthy
  BY DEF AttachedInv, GrantInv
<1> QED
  BY InitAttached, <1>1, <1>2, PTL DEF Spec
-----------------------------------------------------------------------------
(* Memory and database.  The queue is changed first and the row later, from  *)
(* what the handler still holds; meanwhile the manager may change the row.   *)

UniqueIds == \A i, j \in DOMAIN mobjQueue : mobjQueue[i].id = mobjQueue[j].id => i = j

\* What the pending write will make of the row is what the object has.
Promised(o) ==
  /\ job.op = "obj_add" /\ job.id = o.id => o.tasks = job.tasks
  /\ job.op = "task" /\ job.id = o.id =>
        /\ db.objs[o.id] # None
        /\ o.tasks = WithTask(db.objs[o.id].tasks, job.task, job.on)

TasksInv ==
  /\ ControlInv /\ UniqueIds /\ DbTasksMatch
  /\ \A i \in DOMAIN mobjQueue : Promised(mobjQueue[i])

\* A row keeps its tasks and is there or not as before.
SameTasks == \A o \in Obj : /\ db'.objs[o] = None <=> db.objs[o] = None
                            /\ db.objs[o] # None => db'.objs[o].tasks = db.objs[o].tasks

\* The objects, and which of them have no slave, stay the same.
SameQueue ==
  /\ DOMAIN mobjQueue' = DOMAIN mobjQueue
  /\ \A i \in DOMAIN mobjQueue : /\ mobjQueue'[i].id = mobjQueue[i].id
                                 /\ mobjQueue'[i].tasks = mobjQueue[i].tasks

LEMMA ObjIds ==
  ASSUME ControlInv
  PROVE  \A i \in DOMAIN mobjQueue : mobjQueue[i] \in objParam /\ mobjQueue[i].id \in Obj
<1>1. \A i \in DOMAIN mobjQueue : mobjQueue[i] \in objParam
  BY DEF ControlInv, TypeOK
<1> QED
  BY <1>1 DEF objParam

\* A step that writes no tasks, and leaves of the objects those it leaves.
LEMMA TasksCarry ==
  ASSUME TasksInv, ControlInv', UniqueIds', job' = job, SameTasks,
         \A i \in DOMAIN mobjQueue' : \E k \in DOMAIN mobjQueue :
            /\ mobjQueue'[i].id = mobjQueue[k].id
            /\ mobjQueue'[i].tasks = mobjQueue[k].tasks
  PROVE  TasksInv'
<1> SUFFICES ASSUME NEW i \in DOMAIN mobjQueue'
             PROVE  /\ (job.op \in {"obj_add", "task"} => job.id # mobjQueue'[i].id) =>
                          /\ db'.objs[mobjQueue'[i].id] # None
                          /\ db'.objs[mobjQueue'[i].id].tasks = mobjQueue'[i].tasks
                    /\ Promised(mobjQueue[i])'
  BY DEF TasksInv, DbTasksMatch
<1>1. PICK k \in DOMAIN mobjQueue : /\ mobjQueue'[i].id = mobjQueue[k].id
                                    /\ mobjQueue'[i].tasks = mobjQueue[k].tasks
  OBVIOUS
<1>2. mobjQueue[k].id \in Obj
  BY <1>1, ObjIds DEF TasksInv
<1>3. /\ db'.objs[mobjQueue[k].id] = None <=> db.objs[mobjQueue[k].id] = None
      /\ db.objs[mobjQueue[k].id] # None =>
            db'.objs[mobjQueue[k].id].tasks = db.objs[mobjQueue[k].id].tasks
  BY <1>2 DEF SameTasks
<1>4. Promised(mobjQueue[k])
  BY <1>1 DEF TasksInv
<1>5. (job.op \in {"obj_add", "task"} => job.id # mobjQueue[k].id) =>
         /\ db.objs[mobjQueue[k].id] # None
         /\ db.objs[mobjQueue[k].id].tasks = mobjQueue[k].tasks
  BY <1>1 DEF TasksInv, DbTasksMatch
<1> QED
  BY <1>1, <1>3, <1>4, <1>5 DEF Promised

\* The load thread, the manager and the machines.
LEMMA OthersLeave ==
  ASSUME ControlInv,
         slave_load_thread \/ master_objmanager_thread \/ machines \/ UNCHANGED vars
  PROVE  job' = job /\ SameQueue /\ (db' = db \/ ManagerAttach)
<1>1. job' = job
  BY DEF slave_load_thread, LoadLock, LoadPoll, LoadOffline, LoadStillOffline, LoadDetach,
         LoadOnline, LoadInit, LoadInited, LoadUnlock, master_objmanager_thread, mobjManager,
         ManagerLock, ManagerSkip, slaveIsNormal, ManagerKeep, ManagerDrop,
         getLowestLoadSlave, ManagerAttach, ManagerPost, ManagerUnlock, machines,
         SlaveCrash, RestRestart, SlaveBoot, Tick, rest, vars
<1>2. db' = db \/ ManagerAttach
  BY DEF slave_load_thread, LoadLock, LoadPoll, LoadOffline, LoadStillOffline, LoadDetach,
         LoadOnline, LoadInit, LoadInited, LoadUnlock, master_objmanager_thread, mobjManager,
         ManagerLock, ManagerSkip, slaveIsNormal, ManagerKeep, ManagerDrop,
         getLowestLoadSlave, ManagerPost, ManagerUnlock, machines,
         SlaveCrash, RestRestart, SlaveBoot, Tick, vars
<1>3. SameQueue
  <2>0. mobjQueue \in Seq(objParam) /\ \A i \in DOMAIN mobjQueue : mobjQueue[i] \in objParam
    BY DEF ControlInv, TypeOK
  <2>1. CASE LoadDetach
    <3>1. PICK D : mobjQueue' = [i \in DOMAIN mobjQueue |->
                                   IF i \in D THEN [mobjQueue[i] EXCEPT !.attach = FALSE]
                                   ELSE mobjQueue[i]]
      BY <2>1 DEF LoadDetach
    <3> QED
      BY <2>0, <3>1 DEF SameQueue, objParam
  <2>2. CASE ManagerKeep
    BY <2>0, <2>2 DEF ManagerKeep, SameQueue, objParam
  <2>3. CASE ManagerDrop
    BY <2>0, <2>3 DEF ManagerDrop, SameQueue, objParam
  <2>4. CASE ManagerAttach
    <3> DEFINE one == [mobjQueue[mIdx] EXCEPT !.slave = mPick]
               two == [one EXCEPT !.attach = TRUE]
    <3>1. mIdx \in DOMAIN mobjQueue
      BY <2>4 DEF ManagerAttach, ControlInv
    <3>2. two.id = mobjQueue[mIdx].id /\ two.tasks = mobjQueue[mIdx].tasks
      BY <2>0, <3>1 DEF objParam
    <3>3. mobjQueue' = [mobjQueue EXCEPT ![mIdx] = two]
      BY <2>4, <3>1 DEF ManagerAttach
    <3> HIDE DEF two
    <3> QED
      BY <3>1, <3>2, <3>3 DEF SameQueue
  <2>5. CASE mobjQueue' = mobjQueue
    BY <2>5 DEF SameQueue
  <2> QED
    BY <2>1, <2>2, <2>3, <2>4, <2>5
       DEF slave_load_thread, LoadLock, LoadPoll, LoadOffline, LoadStillOffline,
           LoadOnline, LoadInit, LoadInited, LoadUnlock, master_objmanager_thread,
           mobjManager, ManagerLock, ManagerSkip, slaveIsNormal, getLowestLoadSlave,
           ManagerPost, ManagerUnlock, machines, SlaveCrash, RestRestart, SlaveBoot,
           Tick, shm, vars
<1> QED
  BY <1>1, <1>2, <1>3

LEMMA OthersTasks ==
  ASSUME TasksInv, ControlInv',
         slave_load_thread \/ master_objmanager_thread \/ machines \/ UNCHANGED vars
  PROVE  TasksInv'
<1>1. job' = job /\ SameQueue /\ (db' = db \/ ManagerAttach)
  BY OthersLeave DEF TasksInv
<1>2. SameTasks
  <2>1. CASE db' = db
    BY <2>1 DEF SameTasks
  <2>2. CASE ManagerAttach
    <3> DEFINE id == Current.id
               row == RowWithSlave(db.objs[id], sp[mPick].ip)
    <3>1. mIdx \in DOMAIN mobjQueue
      BY <2>2 DEF ManagerAttach, TasksInv, ControlInv
    <3>2. id \in Obj /\ db.objs \in [Obj -> DbObjRow \cup {None}]
          /\ db \in [system : BOOLEAN, slaves : SUBSET Slave,
                     objs : [Obj -> DbObjRow \cup {None}]]
      BY <3>1, ManagerHand DEF TasksInv, ControlInv, TypeOK
    <3>3. db'.objs = [db.objs EXCEPT ![id] = row]
      BY <2>2, <3>2 DEF ManagerAttach
    <3>4. /\ row = None <=> db.objs[id] = None
          /\ db.objs[id] # None => row.tasks = db.objs[id].tasks
      <4>1. CASE db.objs[id] = None
        BY <4>1 DEF RowWithSlave
      <4>2. CASE db.objs[id] # None
        <5>1. db.objs[id] \in DbObjRow
          BY <3>2, <4>2
        <5>2. row = [db.objs[id] EXCEPT !.slave = sp[mPick].ip]
          BY <4>2 DEF RowWithSlave
        <5>3. row.tasks = db.objs[id].tasks /\ row.slave = sp[mPick].ip
          BY <5>1, <5>2 DEF DbObjRow
        <5>4. row # None
          <6>1. sp[mPick].ip \in Slave /\ row \in DbObjRow
            <7>1. mPick \in Node
              BY <2>2 DEF ManagerAttach, TasksInv, ControlInv, TypeOK, Pointer
            <7>2. sp[mPick].ip \in Slave
              BY <3>1, <7>1, ManagerHand DEF TasksInv
            <7> QED
              BY <5>1, <5>2, <7>2 DEF DbObjRow
          <6> QED
            BY <6>1, MasterAssumption
        <5> QED
          BY <4>2, <5>3, <5>4
      <4> QED
        BY <4>1, <4>2
    <3> HIDE DEF id, row
    <3> QED
      BY <3>2, <3>3, <3>4 DEF SameTasks
  <2> QED
    BY <1>1, <2>1, <2>2
<1>3. UniqueIds'
  BY <1>1 DEF SameQueue, TasksInv, UniqueIds
<1> QED
  BY <1>1, <1>2, <1>3, TasksCarry DEF SameQueue

LEMMA RestTasks ==
  ASSUME "obj_add_again" \notin RestOps, TasksInv, ControlInv', master_restapi_thread
  PROVE  TasksInv'
<1>0. /\ ControlInv /\ UniqueIds /\ mobjQueue \in Seq(objParam) /\ job \in Job
      /\ DOMAIN mobjQueue = 1 .. Len(mobjQueue) /\ Len(mobjQueue) \in Nat
      /\ \A i \in DOMAIN mobjQueue : mobjQueue[i] \in objParam /\ mobjQueue[i].id \in Obj
  BY ObjIds, LenProperties DEF TasksInv, ControlInv, TypeOK
<1>1. job = NoJob => \A i \in DOMAIN mobjQueue :
                        /\ db.objs[mobjQueue[i].id] # None
                        /\ db.objs[mobjQueue[i].id].tasks = mobjQueue[i].tasks
  BY DEF TasksInv, DbTasksMatch, NoJob
\* A request that is about something else.
<1>2. ASSUME job = NoJob, job'.op \notin {"obj_add", "task"}, UNCHANGED <<mobjQueue, db>>
      PROVE  TasksInv'
  BY <1>0, <1>1, <1>2 DEF TasksInv, UniqueIds, DbTasksMatch, Promised
<1>3. ASSUME master_request_system_init PROVE TasksInv'
  BY <1>2, <1>3 DEF master_request_system_init, Request
<1>4. ASSUME NEW s \in Slave, master_request_slave_add(s) \/ master_request_slave_del(s)
      PROVE  TasksInv'
  BY <1>2, <1>4 DEF master_request_slave_add, master_request_slave_del, Request
<1>5. ASSUME NEW o \in Obj, NEW ts \in SUBSET Task, master_request_obj_add(o, ts)
      PROVE  TasksInv'
  <2> DEFINE new == [id |-> o, slave |-> NULL, attach |-> FALSE, tasks |-> ts, orig |-> ts]
  <2>1. /\ job = NoJob /\ job' = [op |-> "obj_add", id |-> o, tasks |-> ts] /\ db' = db
        /\ \A i \in DOMAIN mobjQueue : mobjQueue[i].id # o
    BY <1>5 DEF master_request_obj_add, Request, HasObj
  <2>2. /\ UniqueIds'
        /\ \A i \in DOMAIN mobjQueue' :
              \/ i \in DOMAIN mobjQueue /\ mobjQueue'[i] = mobjQueue[i]
              \/ mobjQueue'[i].id = o /\ mobjQueue'[i].tasks = ts
    <3>1. CASE mobjQueue' = mobjQueue
      BY <1>0, <3>1 DEF UniqueIds
    <3>2. CASE mobjQueue' = Append(mobjQueue, new)
      <4>1. new \in objParam /\ new.id = o /\ new.tasks = ts
        BY DEF objParam, Pointer
      <4> HIDE DEF new
      <4>2. /\ DOMAIN mobjQueue' = 1 .. Len(mobjQueue) + 1
            /\ \A i \in 1 .. Len(mobjQueue) : mobjQueue'[i] = mobjQueue[i]
            /\ mobjQueue'[Len(mobjQueue) + 1] = new
        <5>1. /\ mobjQueue' \in Seq(objParam)
              /\ Len(mobjQueue') = Len(mobjQueue) + 1
              /\ \A i \in 1 .. Len(mobjQueue) : mobjQueue'[i] = mobjQueue[i]
              /\ mobjQueue'[Len(mobjQueue) + 1] = new
          BY <1>0, <3>2, <4>1, AppendProperties
        <5> QED
          BY <5>1, LenProperties
      <4>3. \A i \in DOMAIN mobjQueue' :
               \/ i \in DOMAIN mobjQueue /\ mobjQueue'[i] = mobjQueue[i]
               \/ i = Len(mobjQueue) + 1 /\ mobjQueue'[i] = new
        BY <1>0, <4>2
      <4>4. UniqueIds'
        BY <1>0, <2>1, <4>1, <4>3 DEF UniqueIds
      <4> QED
        BY <4>1, <4>3, <4>4
    <3> QED
      BY <1>5, <3>1, <3>2 DEF master_request_obj_add
  <2>3. DbTasksMatch' /\ \A i \in DOMAIN mobjQueue' : Promised(mobjQueue[i])'
    BY <1>1, <2>1, <2>2 DEF DbTasksMatch, Promised
  <2> QED
    BY <2>2, <2>3 DEF TasksInv
<1>6. ASSUME NEW o \in Obj, master_request_obj_del(o) PROVE TasksInv'
  <2>1. job' = job /\ db' = db
    BY <1>6 DEF master_request_obj_del
  <2>2. SameTasks
    BY <2>1 DEF SameTasks
  <2>3. CASE mobjQueue' = mobjQueue
    <3>1. UniqueIds'
      BY <1>0, <2>3 DEF UniqueIds
    <3> QED
      BY <2>1, <2>2, <2>3, <3>1, TasksCarry
  <2>4. ASSUME NEW i \in DOMAIN mobjQueue, mobjQueue' = RemoveAt(mobjQueue, i)
        PROVE  TasksInv'
    <3>1. /\ \A j \in DOMAIN mobjQueue' : \E k \in DOMAIN mobjQueue : mobjQueue'[j] = mobjQueue[k]
          /\ DOMAIN mobjQueue' = 1 .. Len(mobjQueue) - 1
          /\ \A j \in 1 .. Len(mobjQueue) - 1 :
                mobjQueue'[j] = IF j <= i - 1 THEN mobjQueue[j] ELSE mobjQueue[j + 1]
      <4>1. mobjQueue \in Seq(objParam)
        BY <1>0
      <4>2. \A q \in Seq(objParam) : \A k \in DOMAIN q :
               /\ \A j \in DOMAIN RemoveAt(q, k) : \E m \in DOMAIN q : RemoveAt(q, k)[j] = q[m]
               /\ DOMAIN RemoveAt(q, k) = 1 .. Len(q) - 1
               /\ \A j \in 1 .. Len(q) - 1 :
                     RemoveAt(q, k)[j] = IF j <= k - 1 THEN q[j] ELSE q[j + 1]
        BY RemoveAtProperties
      <4> QED
        BY <2>4, <4>1, <4>2, Zenon
    <3>2. UniqueIds'
      <4> SUFFICES ASSUME NEW j \in DOMAIN mobjQueue', NEW k \in DOMAIN mobjQueue',
                          mobjQueue'[j].id = mobjQueue'[k].id
                   PROVE  j = k
        BY DEF UniqueIds
      <4> DEFINE old(n) == IF n <= i - 1 THEN n ELSE n + 1
      <4>1. j \in 1 .. Len(mobjQueue) - 1 /\ k \in 1 .. Len(mobjQueue) - 1
        BY <3>1
      <4>2. old(j) \in DOMAIN mobjQueue /\ old(k) \in DOMAIN mobjQueue
        BY <1>0, <4>1
      <4>3. mobjQueue'[j] = mobjQueue[old(j)] /\ mobjQueue'[k] = mobjQueue[old(k)]
        BY <3>1, <4>1
      <4>4. old(j) = old(k)
        <5> HIDE DEF old
        <5> QED
          BY <1>0, <4>2, <4>3 DEF UniqueIds
      <4> QED
        BY <1>0, <4>1, <4>4
    <3> QED
      BY <2>1, <2>2, <3>1, <3>2, TasksCarry
  <2> QED
    BY <1>6, <2>3, <2>4 DEF master_request_obj_del
<1>7. ASSUME NEW o \in Obj, NEW t \in Task, NEW on \in BOOLEAN, master_request_task(o, t, on)
      PROVE  TasksInv'
  <2>1. /\ job = NoJob /\ job' = [op |-> "task", id |-> o, task |-> t, on |-> on]
        /\ db' = db
    BY <1>7 DEF master_request_task, Request
  <2>2. CASE ~HasObj(mobjQueue, o)
    <3>1. mobjQueue' = mobjQueue /\ \A i \in DOMAIN mobjQueue : mobjQueue[i].id # o
      BY <1>7, <2>2 DEF master_request_task, HasObj, IsFirst
    <3> QED
      BY <1>0, <1>1, <2>1, <3>1 DEF TasksInv, UniqueIds, DbTasksMatch, Promised
  <2>3. CASE HasObj(mobjQueue, o)
    <3>1. PICK i \in DOMAIN mobjQueue :
             /\ mobjQueue[i].id = o
             /\ mobjQueue' = [mobjQueue EXCEPT ![i].tasks = WithTask(@, t, on)]
      BY <1>7, <2>3 DEF master_request_task, IsFirst
    <3>2. /\ DOMAIN mobjQueue' = DOMAIN mobjQueue
          /\ \A j \in DOMAIN mobjQueue : j # i => mobjQueue'[j] = mobjQueue[j]
          /\ mobjQueue'[i].id = o
          /\ mobjQueue'[i].tasks = WithTask(mobjQueue[i].tasks, t, on)
      BY <1>0, <3>1 DEF objParam
    <3>3. UniqueIds'
      BY <1>0, <3>1, <3>2 DEF UniqueIds
    <3>4. \A j \in DOMAIN mobjQueue' : j # i => mobjQueue'[j].id # o
      BY <1>0, <3>1, <3>2 DEF UniqueIds
    <3>5. DbTasksMatch'
      BY <1>1, <2>1, <3>2, <3>4 DEF DbTasksMatch
    <3>6. \A j \in DOMAIN mobjQueue' : Promised(mobjQueue[j])'
      BY <1>1, <2>1, <3>1, <3>2, <3>4 DEF Promised
    <3> QED
      BY <3>3, <3>5, <3>6 DEF TasksInv
  <2> QED
    BY <2>2, <2>3
<1>8. ASSUME RestDb PROVE TasksInv'
  <2>1. job # NoJob /\ job' = NoJob /\ db' = DbAfter(job) /\ mobjQueue' = mobjQueue
    BY <1>8 DEF RestDb, shm
  <2>2. db.objs \in [Obj -> DbObjRow \cup {None}]
        /\ db \in [system : BOOLEAN, slaves : SUBSET Slave,
                   objs : [Obj -> DbObjRow \cup {None}]]
    BY <1>0 DEF ControlInv, TypeOK
  <2>3. \A i \in DOMAIN mobjQueue :
           /\ db'.objs[mobjQueue[i].id] # None
           /\ db'.objs[mobjQueue[i].id].tasks = mobjQueue[i].tasks
    <3> TAKE i \in DOMAIN mobjQueue
    <3>1. mobjQueue[i].id \in Obj /\ Promised(mobjQueue[i])
          /\ ((job.op \in {"obj_add", "task"} => job.id # mobjQueue[i].id) =>
                /\ db.objs[mobjQueue[i].id] # None
                /\ db.objs[mobjQueue[i].id].tasks = mobjQueue[i].tasks)
      BY <1>0 DEF TasksInv, DbTasksMatch
    <3>2. CASE job.op \in {"system_init", "slave_add", "slave_del"}
      <4>1. db'.objs = db.objs
        BY <2>1, <2>2, <3>2 DEF DbAfter
      <4> QED
        BY <3>1, <3>2, <4>1
    <3>3. CASE job.op = "obj_add"
      <4>1. db' = [db EXCEPT !.objs[job.id] = [tasks |-> job.tasks, slave |-> None]]
        BY <2>1, <3>3 DEF DbAfter
      <4>2. job.id \in Obj /\ [tasks |-> job.tasks, slave |-> None] \in DbObjRow
        BY <1>0, <3>3 DEF Job, NoJob, DbObjRow
      <4>3. db'.objs = [db.objs EXCEPT ![job.id] = [tasks |-> job.tasks, slave |-> None]]
        BY <2>2, <4>1
      <4> QED
        BY <2>2, <3>1, <3>3, <4>2, <4>3, MasterAssumption DEF Promised
    <3>4. CASE job.op = "task"
      <4> DEFINE row == RowWithTask(db.objs[job.id], job.task, job.on)
      <4>1. db'.objs = [db.objs EXCEPT ![job.id] = row]
        BY <2>1, <2>2, <3>4 DEF DbAfter
      <4>2. job.id \in Obj /\ job.task \in Task
        BY <1>0, <3>4 DEF Job, NoJob
      <4>3. ASSUME job.id = mobjQueue[i].id
            PROVE  row # None /\ row.tasks = mobjQueue[i].tasks
        <5>1. db.objs[job.id] \in DbObjRow
              /\ mobjQueue[i].tasks = WithTask(db.objs[job.id].tasks, job.task, job.on)
          BY <2>2, <3>1, <3>4, <4>2, <4>3 DEF Promised
        <5>2. WithTask(db.objs[job.id].tasks, job.task, job.on) \in SUBSET Task
          BY <4>2, <5>1 DEF WithTask, DbObjRow
        <5>3. db.objs[job.id] # None
          BY <5>1, MasterAssumption
        <5>4. row = [db.objs[job.id] EXCEPT !.tasks = mobjQueue[i].tasks]
          BY <5>1, <5>3 DEF RowWithTask
        <5>5. row \in DbObjRow /\ row.tasks = mobjQueue[i].tasks
          BY <5>1, <5>2, <5>4 DEF DbObjRow
        <5> QED
          BY <5>5, MasterAssumption
      <4> HIDE DEF row
      <4> QED
        BY <2>2, <3>1, <3>4, <4>1, <4>2, <4>3
    <3> QED
      BY <1>0, <2>1, <3>2, <3>3, <3>4 DEF Job, NoJob
  <2>4. DbTasksMatch' /\ UniqueIds' /\ \A i \in DOMAIN mobjQueue' : Promised(mobjQueue[i])'
    BY <1>0, <2>1, <2>3 DEF DbTasksMatch, UniqueIds, Promised, NoJob
  <2> QED
    BY <2>4 DEF TasksInv
<1> QED
  BY <1>3, <1>4, <1>5, <1>6, <1>7, <1>8 DEF master_restapi_thread

\* The rows the master starts from.
LEMMA InitRows ==
  ASSUME Init, NEW i \in DOMAIN mobjQueue
  PROVE  /\ i \in DOMAIN DbObj0 /\ mobjQueue[i].id = DbObj0[i].id
         /\ DbObj0[i].id \in Obj /\ DbObj0[i].slave \in Slave \cup {None}
         /\ mobjQueue[i].slave = NodeOf(DbObj0[i].slave)
         /\ mobjQueue[i].tasks = DbObj0[i].tasks /\ ~mobjQueue[i].attach
         /\ db.objs[DbObj0[i].id] = [tasks |-> DbObj0[i].tasks, slave |-> DbObj0[i].slave]
         /\ db.objs[DbObj0[i].id] # None
<1> DEFINE Row == [id : Obj, tasks : SUBSET Task, slave : Slave \cup {None}]
<1>1. DbObj0 \in Seq(Row) /\ \A j, k \in DOMAIN DbObj0 : DbObj0[j].id = DbObj0[k].id => j = k
  BY MasterAssumption
<1>2. i \in DOMAIN DbObj0 /\ mobjQueue[i] = [id |-> DbObj0[i].id, slave |-> NodeOf(DbObj0[i].slave),
                        attach |-> FALSE, tasks |-> DbObj0[i].tasks,
                        orig |-> DbObj0[i].tasks]
  <2>1. DOMAIN DbObj0 = 1 .. Len(DbObj0)
    BY <1>1, LenProperties
  <2> QED
    BY <2>1 DEF Init
<1>3. DbObj0[i] \in Row
  <2> HIDE DEF Row
  <2> QED
    BY <1>1, <1>2
<1>4. (CHOOSE j \in DOMAIN DbObj0 : DbObj0[j].id = DbObj0[i].id) = i
  BY <1>1, <1>2
<1>5. DbRow0(DbObj0[i].id) = [tasks |-> DbObj0[i].tasks, slave |-> DbObj0[i].slave]
  BY <1>2, <1>4 DEF DbRow0
<1>6. db.objs[DbObj0[i].id] = DbRow0(DbObj0[i].id)
  BY <1>3 DEF Init
<1>7. [tasks |-> DbObj0[i].tasks, slave |-> DbObj0[i].slave] \in DbObjRow
  BY <1>3 DEF DbObjRow
<1> QED
  BY <1>2, <1>3, <1>5, <1>6, <1>7, MasterAssumption

LEMMA InitTasks == Init => TasksInv
<1> SUFFICES ASSUME Init PROVE TasksInv
  OBVIOUS
<1>1. UniqueIds
  BY InitRows, MasterAssumption DEF UniqueIds
<1>2. DbTasksMatch /\ \A i \in DOMAIN mobjQueue : Promised(mobjQueue[i])
  <2>1. job.op = "none"
    BY DEF Init, NoJob
  <2>2. \A i \in DOMAIN mobjQueue : Promised(mobjQueue[i])
    BY <2>1 DEF Promised
  <2>3. ASSUME NEW i \in DOMAIN mobjQueue
        PROVE  /\ db.objs[mobjQueue[i].id] # None
               /\ db.objs[mobjQueue[i].id].tasks = mobjQueue[i].tasks
    <3>1. /\ mobjQueue[i].id = DbObj0[i].id /\ mobjQueue[i].tasks = DbObj0[i].tasks
          /\ db.objs[DbObj0[i].id] = [tasks |-> DbObj0[i].tasks, slave |-> DbObj0[i].slave]
          /\ db.objs[DbObj0[i].id] # None
      BY InitRows
    <3> QED
      BY <3>1
  <2> QED
    BY <2>2, <2>3 DEF DbTasksMatch
<1> QED
  BY <1>1, <1>2, InitControl DEF TasksInv

LEMMA StepTasks ==
  ASSUME "obj_add_again" \notin RestOps
  PROVE  TasksInv /\ [Next]_vars => TasksInv'
<1> SUFFICES ASSUME TasksInv, [Next]_vars PROVE TasksInv'
  OBVIOUS
<1>1. ControlInv'
  BY StepControl DEF TasksInv
<1> QED
  BY <1>1, OthersTasks, RestTasks DEF Next

\* Memory and database agree on the tasks of every object, but for the one write
\* that is pending, whatever the manager does to its row meanwhile, for any
\* requests as long as clients do not add an object that is there.
THEOREM DbTasksSafe ==
  ASSUME "obj_add_again" \notin RestOps
  PROVE  Spec => []DbTasksMatch
<1>1. TasksInv /\ [][Next]_vars => []TasksInv
  BY StepTasks, PTL
<1>2. TasksInv => DbTasksMatch
  BY DEF TasksInv
<1> QED
  BY InitTasks, <1>1, <1>2, PTL DEF Spec

\* The row of an object that points to a slave names that slave, attached or not.
Named ==
  \A i \in DOMAIN mobjQueue : mobjQueue[i].slave # NULL =>
      /\ db.objs[mobjQueue[i].id] # None
      /\ db.objs[mobjQueue[i].id].slave = sp[mobjQueue[i].slave].ip

NamedInv == AttachedInv /\ TasksInv /\ Named /\ job.op # "obj_add"

\* An object points where it did, or nowhere.
SamePointers ==
  \A j \in DOMAIN mobjQueue' : mobjQueue'[j].slave # NULL =>
      \E k \in DOMAIN mobjQueue : /\ mobjQueue'[j].id = mobjQueue[k].id
                                  /\ mobjQueue'[j].slave = mobjQueue[k].slave

SameRows == \A o \in Obj : /\ db'.objs[o] = None <=> db.objs[o] = None
                           /\ db.objs[o] # None => db'.objs[o].slave = db.objs[o].slave

\* A node keeps its ip while it is linked.
LEMMA IpsStay ==
  ASSUME ControlInv, [Next]_vars
  PROVE  \A n \in Linked : sp'[n].ip = sp[n].ip
<1>0. Linked \subseteq Node /\ sp \in [Node -> slaveParam]
  BY DEF ControlInv, TypeOK, Linked
<1>1. CASE sp' = sp
  BY <1>1
<1>2. CASE LoadOffline \/ LoadStillOffline \/ LoadDetach \/ LoadOnline \/ LoadInit \/ LoadInited
  <2>1. Head(lTodo) \in Node
    BY <1>2, LoadHand DEF LoadOffline, LoadStillOffline, LoadDetach, LoadOnline, LoadInit,
       LoadInited, ControlInv
  <2> QED
    BY <1>0, <1>2, <2>1 DEF LoadOffline, LoadStillOffline, LoadDetach, LoadOnline, LoadInit,
       LoadInited, slaveParam
<1>3. CASE ManagerPost
  BY <1>0, <1>3 DEF ManagerPost, slaveParam
<1>4. ASSUME NEW s \in Slave, master_request_slave_add(s) PROVE \A n \in Linked : sp'[n].ip = sp[n].ip
  BY <1>0, <1>4 DEF master_request_slave_add
<1>5. CASE Tick
  BY <1>0, <1>5 DEF Tick, slaveParam
<1> QED
  BY <1>1, <1>2, <1>3, <1>4, <1>5
     DEF Next, slave_load_thread, LoadLock, LoadPoll, LoadUnlock, master_objmanager_thread,
         mobjManager, ManagerLock, ManagerSkip, slaveIsNormal, ManagerKeep, ManagerDrop,
         getLowestLoadSlave, ManagerAttach, ManagerUnlock, master_restapi_thread,
         master_request_system_init, master_request_slave_del, master_request_obj_add,
         master_request_obj_del, master_request_task, RestDb, machines, SlaveCrash,
         RestRestart, SlaveBoot, shm, vars

LEMMA PointersStay ==
  ASSUME ControlInv, [Next]_vars, ~ManagerAttach
  PROVE  SamePointers
<1>0. mobjQueue \in Seq(objParam) /\ \A i \in DOMAIN mobjQueue : mobjQueue[i] \in objParam
  BY DEF ControlInv, TypeOK
<1>1. CASE mobjQueue' = mobjQueue
  BY <1>1 DEF SamePointers
<1>2. CASE LoadDetach
  <2>1. PICK D : mobjQueue' = [i \in DOMAIN mobjQueue |->
                                 IF i \in D THEN [mobjQueue[i] EXCEPT !.attach = FALSE]
                                 ELSE mobjQueue[i]]
    BY <1>2 DEF LoadDetach
  <2> QED
    BY <1>0, <2>1 DEF SamePointers, objParam
<1>3. CASE ManagerKeep
  BY <1>0, <1>3 DEF ManagerKeep, SamePointers, objParam
<1>4. CASE ManagerDrop
  BY <1>0, <1>4 DEF ManagerDrop, SamePointers, objParam
<1>5. ASSUME NEW o \in Obj, NEW ts \in SUBSET Task, master_request_obj_add(o, ts)
      PROVE  SamePointers
  <2> DEFINE new == [id |-> o, slave |-> NULL, attach |-> FALSE, tasks |-> ts, orig |-> ts]
  <2>1. CASE mobjQueue' = Append(mobjQueue, new)
    <3>1. new \in objParam /\ new.slave = NULL
      BY DEF objParam, Pointer
    <3> HIDE DEF new
    <3>2. /\ mobjQueue' \in Seq(objParam) /\ Len(mobjQueue') = Len(mobjQueue) + 1
          /\ \A i \in 1 .. Len(mobjQueue) : mobjQueue'[i] = mobjQueue[i]
          /\ mobjQueue'[Len(mobjQueue) + 1] = new
      BY <1>0, <2>1, <3>1, AppendProperties
    <3>3. \A j \in DOMAIN mobjQueue' : mobjQueue'[j].slave # NULL =>
             j \in DOMAIN mobjQueue /\ mobjQueue'[j] = mobjQueue[j]
      BY <1>0, <3>1, <3>2, LenProperties
    <3> QED
      BY <3>3 DEF SamePointers
  <2> QED
    BY <1>1, <1>5, <2>1 DEF master_request_obj_add
<1>6. ASSUME NEW o \in Obj, master_request_obj_del(o) PROVE SamePointers
  <2>1. ASSUME NEW i \in DOMAIN mobjQueue, mobjQueue' = RemoveAt(mobjQueue, i)
        PROVE  SamePointers
    <3>1. \A j \in DOMAIN RemoveAt(mobjQueue, i) :
             \E k \in DOMAIN mobjQueue : RemoveAt(mobjQueue, i)[j] = mobjQueue[k]
      BY <1>0, RemoveAtProperties
    <3> QED
      BY <2>1, <3>1 DEF SamePointers
  <2> QED
    BY <1>1, <1>6, <2>1 DEF master_request_obj_del
<1>7. ASSUME NEW o \in Obj, NEW t \in Task, NEW on \in BOOLEAN, master_request_task(o, t, on)
      PROVE  SamePointers
  <2>1. ASSUME NEW i \in DOMAIN mobjQueue,
               mobjQueue' = [mobjQueue EXCEPT ![i].tasks = WithTask(@, t, on)]
        PROVE  SamePointers
    BY <1>0, <2>1 DEF SamePointers, objParam
  <2> QED
    BY <1>1, <1>7, <2>1 DEF master_request_task
<1> QED
  BY <1>1, <1>2, <1>3, <1>4, <1>5, <1>6, <1>7
     DEF Next, slave_load_thread, LoadLock, LoadPoll, LoadOffline, LoadStillOffline,
         LoadOnline, LoadInit, LoadInited, LoadUnlock, master_objmanager_thread,
         mobjManager, ManagerLock, ManagerSkip, slaveIsNormal, getLowestLoadSlave,
         ManagerPost, ManagerUnlock, master_restapi_thread, master_request_system_init,
         master_request_slave_add, master_request_slave_del, RestDb, machines, SlaveCrash,
         RestRestart, SlaveBoot, Tick, shm, vars

\* Only the manager changes the slave of a row, when no object is being added.
LEMMA RowsStay ==
  ASSUME ControlInv, [Next]_vars, ~ManagerAttach, job.op # "obj_add"
  PROVE  SameRows
<1>1. CASE db' = db
  BY <1>1 DEF SameRows
<1>2. CASE RestDb
  <2>0. /\ db \in [system : BOOLEAN, slaves : SUBSET Slave,
                   objs : [Obj -> DbObjRow \cup {None}]]
        /\ db.objs \in [Obj -> DbObjRow \cup {None}]
        /\ job \in Job /\ job # NoJob /\ db' = DbAfter(job)
    BY <1>2 DEF RestDb, ControlInv, TypeOK
  <2>1. CASE job.op \in {"system_init", "slave_add", "slave_del"}
    <3>1. db'.objs = db.objs
      BY <2>0, <2>1 DEF DbAfter
    <3> QED
      BY <3>1 DEF SameRows
  <2>2. CASE job.op = "task"
    <3> DEFINE row == RowWithTask(db.objs[job.id], job.task, job.on)
    <3>1. db'.objs = [db.objs EXCEPT ![job.id] = row]
      BY <2>0, <2>2 DEF DbAfter
    <3>2. job.id \in Obj /\ job.task \in Task
      BY <2>0, <2>2 DEF Job, NoJob
    <3>3. CASE db.objs[job.id] = None
      BY <2>0, <3>1, <3>2, <3>3 DEF SameRows, RowWithTask
    <3>4. CASE db.objs[job.id] # None
      <4>1. db.objs[job.id] \in DbObjRow
        BY <2>0, <3>2, <3>4
      <4>2. row = [db.objs[job.id] EXCEPT
                      !.tasks = WithTask(db.objs[job.id].tasks, job.task, job.on)]
        BY <3>4 DEF RowWithTask
      <4>3. WithTask(db.objs[job.id].tasks, job.task, job.on) \in SUBSET Task
        BY <3>2, <4>1 DEF WithTask, DbObjRow
      <4>4. row \in DbObjRow /\ row.slave = db.objs[job.id].slave
        BY <4>1, <4>2, <4>3 DEF DbObjRow
      <4>5. row # None
        BY <4>4, MasterAssumption
      <4> HIDE DEF row
      <4> QED
        BY <2>0, <3>1, <3>2, <3>4, <4>4, <4>5 DEF SameRows
    <3> QED
      BY <3>3, <3>4
  <2> QED
    BY <2>0, <2>1, <2>2 DEF Job, NoJob
<1> QED
  BY <1>1, <1>2
     DEF Next, slave_load_thread, LoadLock, LoadPoll, LoadOffline, LoadStillOffline, LoadDetach,
         LoadOnline, LoadInit, LoadInited, LoadUnlock, master_objmanager_thread,
         mobjManager, ManagerLock, ManagerSkip, slaveIsNormal, ManagerKeep, ManagerDrop,
         getLowestLoadSlave, ManagerPost, ManagerUnlock, master_restapi_thread,
         master_request_system_init, master_request_slave_add, master_request_slave_del,
         master_request_obj_add, master_request_obj_del, master_request_task, machines,
         SlaveCrash, RestRestart, SlaveBoot, Tick, vars

\* The manager writes the slave's ip into the row in the step that points the object
\* to the slave, and the row is there.
LEMMA AttachNames ==
  ASSUME NamedInv, ManagerAttach
  PROVE  Named'
<1>1. /\ mIdx \in DOMAIN mobjQueue /\ mPick \in Node /\ mPick # NULL
      /\ mobjQueue \in Seq(objParam) /\ \A i \in DOMAIN mobjQueue : mobjQueue[i] \in objParam
      /\ db \in [system : BOOLEAN, slaves : SUBSET Slave, objs : [Obj -> DbObjRow \cup {None}]]
      /\ db.objs \in [Obj -> DbObjRow \cup {None}]
      /\ \A i \in DOMAIN mobjQueue : mobjQueue[i].id \in Obj
      /\ sp' = sp
  BY ObjIds DEF ManagerAttach, NamedInv, TasksInv, ControlInv, TypeOK, Pointer
<1> DEFINE id == mobjQueue[mIdx].id
           row == [db.objs[id] EXCEPT !.slave = sp[mPick].ip]
           obj == [[mobjQueue[mIdx] EXCEPT !.slave = mPick] EXCEPT !.attach = TRUE]
<1>2. db.objs[id] \in DbObjRow /\ db.objs[id] # None
  <2>1. db.objs[id] # None
    <3>1. CASE job.op = "task" /\ job.id = id
      BY <1>1, <3>1 DEF NamedInv, TasksInv, Promised
    <3>2. CASE ~(job.op = "task" /\ job.id = id)
      BY <1>1, <3>2 DEF NamedInv, TasksInv, DbTasksMatch
    <3> QED
      BY <3>1, <3>2
  <2> QED
    BY <1>1, <2>1
<1>3. row \in DbObjRow /\ row.slave = sp[mPick].ip /\ row # None
  <2>1. sp[mPick].ip \in Slave
    BY <1>1, ManagerHand DEF NamedInv, TasksInv
  <2>2. row \in DbObjRow /\ row.slave = sp[mPick].ip
    BY <1>2, <2>1 DEF DbObjRow
  <2> QED
    BY <2>2, MasterAssumption
<1>4. db'.objs = [db.objs EXCEPT ![id] = row]
  <2>1. db' = [db EXCEPT !.objs[id] = RowWithSlave(@, sp[mPick].ip)]
    BY DEF ManagerAttach, Current
  <2> QED
    BY <1>1, <1>2, <2>1 DEF RowWithSlave
<1>5. mobjQueue' = [mobjQueue EXCEPT ![mIdx] = obj]
  BY <1>1 DEF ManagerAttach
<1>6. obj.id = id /\ obj.slave = mPick
  BY <1>1 DEF objParam
<1> HIDE DEF row, obj
<1>7. SUFFICES ASSUME NEW i \in DOMAIN mobjQueue, mobjQueue'[i].slave # NULL
               PROVE  /\ db'.objs[mobjQueue'[i].id] # None
                      /\ db'.objs[mobjQueue'[i].id].slave = sp[mobjQueue'[i].slave].ip
  BY <1>1, <1>5 DEF Named
<1>8. CASE i = mIdx
  BY <1>1, <1>3, <1>4, <1>5, <1>6, <1>8
<1>9. CASE i # mIdx
  <2>1. mobjQueue'[i] = mobjQueue[i] /\ mobjQueue[i].id # id
    BY <1>1, <1>5, <1>9 DEF NamedInv, TasksInv, UniqueIds
  <2> QED
    BY <1>1, <1>4, <1>7, <2>1 DEF NamedInv, Named
<1> QED
  BY <1>8, <1>9

LEMMA StepNamed ==
  ASSUME "obj_add" \notin RestOps, "obj_add_again" \notin RestOps, "slave_del" \notin RestOps
  PROVE  NamedInv /\ [Next]_vars => NamedInv'
<1> SUFFICES ASSUME NamedInv, [Next]_vars PROVE NamedInv'
  OBVIOUS
<1>1. AttachedInv' /\ TasksInv'
  BY StepAttached, StepTasks DEF NamedInv
<1>2. job'.op # "obj_add"
  <2>1. CASE master_restapi_thread
    <3>1. \A o \in Obj, ts \in SUBSET Task : ~master_request_obj_add(o, ts)
      BY DEF master_request_obj_add, Request
    <3>2. \/ job' = job
          \/ \E s \in Slave : \/ job' = [op |-> "slave_add", ip |-> s]
                             \/ job' = [op |-> "slave_del", ip |-> s]
          \/ \E o \in Obj, t \in Task, on \in BOOLEAN :
                job' = [op |-> "task", id |-> o, task |-> t, on |-> on]
          \/ job' = [op |-> "system_init"] \/ job' = [op |-> "none"]
      BY <2>1, <3>1, Zenon DEF master_restapi_thread, master_request_system_init,
         master_request_slave_add, master_request_slave_del, master_request_obj_del,
         master_request_task, RestDb, NoJob
    <3> QED
      BY <3>2 DEF NamedInv
  <2>2. CASE ~master_restapi_thread
    <3>1. job' = job
      BY <2>2, OthersLeave DEF Next, NamedInv, TasksInv
    <3> QED
      BY <3>1 DEF NamedInv
  <2> QED
    BY <2>1, <2>2
<1>3. Named'
  <2>1. CASE ManagerAttach
    BY <2>1, AttachNames
  <2>2. CASE ~ManagerAttach
    <3>1. SamePointers /\ SameRows /\ \A n \in Linked : sp'[n].ip = sp[n].ip
      BY <2>2, PointersStay, RowsStay, IpsStay DEF NamedInv, TasksInv
    <3>2. SUFFICES ASSUME NEW j \in DOMAIN mobjQueue', mobjQueue'[j].slave # NULL
                   PROVE  /\ db'.objs[mobjQueue'[j].id] # None
                          /\ db'.objs[mobjQueue'[j].id].slave = sp'[mobjQueue'[j].slave].ip
      BY DEF Named
    <3>3. PICK k \in DOMAIN mobjQueue : /\ mobjQueue'[j].id = mobjQueue[k].id
                                        /\ mobjQueue'[j].slave = mobjQueue[k].slave
      BY <3>1, <3>2 DEF SamePointers
    <3>4. mobjQueue[k].slave \in Linked /\ mobjQueue[k].id \in Obj
      BY <3>2, <3>3, AttachedFacts, ObjIds DEF NamedInv, TasksInv
    <3>5. /\ db.objs[mobjQueue[k].id] # None
          /\ db.objs[mobjQueue[k].id].slave = sp[mobjQueue[k].slave].ip
      BY <3>2, <3>3 DEF NamedInv, Named
    <3>6. /\ db'.objs[mobjQueue[k].id] # None
          /\ db'.objs[mobjQueue[k].id].slave = db.objs[mobjQueue[k].id].slave
      BY <3>1, <3>4, <3>5 DEF SameRows
    <3> QED
      BY <3>1, <3>3, <3>4, <3>5, <3>6
  <2> QED
    BY <2>1, <2>2
<1> QED
  BY <1>1, <1>2, <1>3 DEF NamedInv

LEMMA InitNamed == Init => NamedInv
<1> SUFFICES ASSUME Init PROVE NamedInv
  OBVIOUS
<1>1. ASSUME NEW i \in DOMAIN mobjQueue, mobjQueue[i].slave # NULL
      PROVE  /\ db.objs[mobjQueue[i].id] # None
             /\ db.objs[mobjQueue[i].id].slave = sp[mobjQueue[i].slave].ip
  <2> DEFINE ip == DbObj0[i].slave
  <2>1. /\ mobjQueue[i].id = DbObj0[i].id /\ mobjQueue[i].slave = NodeOf(ip)
        /\ db.objs[DbObj0[i].id] = [tasks |-> DbObj0[i].tasks, slave |-> ip]
        /\ db.objs[DbObj0[i].id] # None
    BY InitRows
  <2>2. NodeOf(ip) \in DOMAIN DbSlave0 /\ DbSlave0[NodeOf(ip)] = ip
    BY <1>1, <2>1 DEF NodeOf
  <2>3. DOMAIN DbSlave0 = 1 .. Len(DbSlave0) /\ Len(DbSlave0) \in Nat /\ Len(DbSlave0) <= NodeMax
    BY MasterAssumption, LenProperties
  <2>4. NodeOf(ip) \in Node /\ NodeOf(ip) <= Len(DbSlave0)
    BY <2>2, <2>3, MasterAssumption DEF Node
  <2>5. sp[NodeOf(ip)].ip = DbSlave0[NodeOf(ip)]
    BY <2>4 DEF Init, FreshSlave
  <2> QED
    BY <2>1, <2>2, <2>5
<1>2. job.op # "obj_add"
  BY DEF Init, NoJob
<1> QED
  BY <1>1, <1>2, InitAttached, InitTasks DEF NamedInv, Named

\* The row of an attached object names its slave whenever no write is pending, so a
\* restarted master finds the object again: for any interleaving of the threads,
\* crashes and lost messages, when no object is added and no slave is deleted.  (An
\* object being added can lose the name: mobjManager writes it to a row that
\* master_request_obj_add has not yet written.)
THEOREM DbSlaveSafe ==
  ASSUME "obj_add" \notin RestOps, "obj_add_again" \notin RestOps, "slave_del" \notin RestOps
  PROVE  Spec => []DbKnowsSlave
<1>1. NamedInv /\ [][Next]_vars => []NamedInv
  BY StepNamed, PTL
<1>2. NamedInv => DbKnowsSlave
  <2> SUFFICES ASSUME NamedInv, NEW i \in DOMAIN mobjQueue, mobjQueue[i].attach
               PROVE  db.objs[mobjQueue[i].id].slave = sp[mobjQueue[i].slave].ip
    BY DEF DbKnowsSlave
  <2>1. mobjQueue[i].slave # NULL
    BY AttachedFacts DEF NamedInv
  <2> QED
    BY <2>1 DEF NamedInv, Named
<1> QED
  BY InitNamed, <1>1, <1>2, PTL DEF Spec

-----------------------------------------------------------------------------
(* The scan for a slave: the steps of module LowestScan find what the        *)
(* manager's LowestLoad picks, for queues of any length with any loads.      *)

\* What is scanned is a sequence.
LEMMA QueueFacts ==
  ASSUME NEW q \in Queues
  PROVE  /\ Len(q) \in Nat /\ DOMAIN q = 1 .. Len(q)
         /\ \A j \in DOMAIN q : q[j] \in SlaveInfo /\ q[j].load \in Nat
<1>1. q \in Seq(SlaveInfo)
  BY SeqDef DEF Queues
<1>2. \A j \in DOMAIN q : q[j] \in SlaveInfo
  BY <1>1
<1> QED
  BY <1>1, <1>2, LenProperties, ScanAssumption DEF SlaveInfo

LEMMA ScanStep == ScanInv /\ [ScanNext]_scanVars => ScanInv'
<1> SUFFICES ASSUME ScanInv, [ScanNext]_scanVars PROVE ScanInv'
  OBVIOUS
<1>1. CASE Visit
  <2>1. /\ Len(queue) \in Nat /\ DOMAIN queue = 1 .. Len(queue)
        /\ \A j \in DOMAIN queue : queue[j].load \in Nat
    BY QueueFacts DEF ScanInv
  <2>2. at \in 1 .. Len(queue) /\ at' = at + 1 /\ queue' = queue
    BY <1>1, <2>1 DEF Visit
  <2>3. CASE Better(queue[at])
    <3>1. lowest' = at
      BY <1>1, <2>3 DEF Visit
    <3>2. Usable(queue[at])
      <4>1. CASE lowest = 0
        BY <2>3, <4>1 DEF Better
      <4>2. CASE lowest # 0
        <5>1. lowest \in 1 .. Len(queue) /\ queue[lowest].load < SLAVE_LOAD_MAX
          BY <2>2, <4>2 DEF ScanInv, Usable
        <5>2. queue[at].load < queue[lowest].load
          BY <2>3, <4>2 DEF Better
        <5> QED
          BY <2>1, <2>2, <2>3, <4>2, <5>1, <5>2 DEF Better, Usable, SLAVE_LOAD_MAX
      <4> QED
        BY <4>1, <4>2
    <3>3. \A j \in 1 .. at - 1 : Usable(queue[j]) => queue[at].load < queue[j].load
      <4>1. CASE lowest = 0
        BY <4>1 DEF ScanInv
      <4>2. CASE lowest # 0
        <5>1. lowest \in 1 .. Len(queue) /\ queue[at].load < queue[lowest].load
          BY <2>2, <2>3, <4>2 DEF ScanInv, Better
        <5> QED
          BY <2>1, <2>2, <4>2, <5>1 DEF ScanInv
      <4> QED
        BY <4>1, <4>2
    <3> QED
      BY <2>1, <2>2, <3>1, <3>2, <3>3 DEF ScanInv
  <2>4. CASE ~Better(queue[at])
    <3>1. lowest' = lowest
      BY <1>1, <2>4 DEF Visit
    <3>2. CASE lowest = 0
      BY <2>1, <2>2, <2>4, <3>1, <3>2 DEF ScanInv, Better
    <3>3. CASE lowest # 0
      <4>1. lowest \in 1 .. at - 1 /\ lowest \in DOMAIN queue
        BY <2>1, <2>2, <3>3 DEF ScanInv
      <4>2. Usable(queue[at]) => ~(queue[at].load < queue[lowest].load)
        BY <2>4, <3>3 DEF Better, Usable
      <4>3. Usable(queue[at]) => \/ queue[lowest].load < queue[at].load
                                 \/ queue[lowest].load = queue[at].load /\ lowest <= at
        BY <2>1, <2>2, <4>1, <4>2
      <4> QED
        BY <2>1, <2>2, <3>1, <3>3, <4>1, <4>3 DEF ScanInv
    <3> QED
      BY <3>2, <3>3
  <2> QED
    BY <2>3, <2>4
<1>2. CASE UNCHANGED scanVars
  BY <1>2 DEF scanVars, ScanInv
<1> QED
  BY <1>1, <1>2 DEF ScanNext

\* getLowestLoadSlave returns the first of the least loaded usable slaves, for any
\* number of slaves with any loads.
THEOREM ScanSafe == ScanSpec => []ScanCorrect
<1>1. ScanInit => ScanInv
  BY QueueFacts DEF ScanInit, ScanInv
<1>2. ScanInv => ScanCorrect
  BY QueueFacts DEF ScanInv, ScanCorrect, IsLowest
<1> QED
  BY <1>1, ScanStep, <1>2, PTL DEF ScanSpec
=============================================================================
