------------------------ MODULE MasterRestartProofs ------------------------
(***************************************************************************)
(* A master that has started has in its queue every object a user was told *)
(* is there (CompleteSafe), whatever crashes, reboots and failed calls of  *)
(* the database came before and at whatever step, but for what had no row  *)
(* when the machine started or could not be read then.                     *)
(***************************************************************************)
EXTENDS MasterRestart, TLAPS, SequenceTheorems

NodeSet == [id : Obj, slave : Slave \cup {None}, attach : BOOLEAN]

\* Who is past its sem_wait holds the mutex, and the manager has a node.
Locked ==
    /\ mgr.at # "idle" => mutex_mobj = "manager"
    /\ job.at = "locked" => mutex_mobj = "job"
    /\ mgr.at \in {"update", "post"} => mgr.i \in DOMAIN mobjQueue

\* The rows a starting master has still to read are there, and no request writes
\* to the table before it has read them.
Loading ==
    /\ todo \subseteq Rows
    /\ pc = "run" => todo = {}
    /\ job.op = "init" => /\ pc = "init" /\ rows[job.id] # NoRow
                          /\ job.at \in {"wait", "locked"}
    /\ job.op \in {"add", "del"} => pc = "run"
    /\ job.at \in {"delete", "insert"} => job.op = "add"

LoadInv == TypeOK /\ Locked /\ Loading

-----------------------------------------------------------------------------
\* Taking out one element leaves a sequence of the same kind of elements.
LEMMA RemoveAtType ==
    ASSUME NEW S, NEW s \in Seq(S), NEW i \in DOMAIN s
    PROVE  RemoveAt(s, i) \in Seq(S)
  <1>1. i \in 1..Len(s) /\ Len(s) \in Nat
    OBVIOUS
  <1>2. SubSeq(s, 1, i - 1) \in Seq(S)
    BY <1>1
  <1>3. SubSeq(s, i + 1, Len(s)) \in Seq(S)
    BY <1>1
  <1>4. QED
    BY <1>2, <1>3 DEF RemoveAt

\* What delObj leaves is a queue.
LEMMA RemainingType ==
    ASSUME TypeOK PROVE Remaining \in Seq(NodeSet)
  <1>1. mobjQueue \in Seq(NodeSet)
    BY DEF TypeOK, NodeSet
  <1>2. CASE Hit = {}
    BY <1>1, <1>2 DEF Remaining
  <1>3. CASE Hit # {}
    <2>1. (CHOOSE i \in Hit : TRUE) \in Hit
      BY <1>3
    <2>2. (CHOOSE i \in Hit : TRUE) \in DOMAIN mobjQueue
      BY <2>1 DEF Hit
    <2>3. QED
      BY <1>1, <1>3, <2>2, RemoveAtType DEF Remaining
  <1>4. QED
    BY <1>2, <1>3

\* The manager's assignments to a node.
LEMMA NodeChanged ==
    ASSUME TypeOK, mgr.i \in DOMAIN mobjQueue, NEW s \in Slave \cup {None}
    PROVE  /\ Attached(s) \in Seq(NodeSet)
           /\ DOMAIN Attached(s) = DOMAIN mobjQueue
           /\ [mobjQueue EXCEPT ![mgr.i].slave = s] \in Seq(NodeSet)
  <1> DEFINE n1 == [mobjQueue[mgr.i] EXCEPT !.slave = s]
             n2 == [n1 EXCEPT !.attach = TRUE]
             q1 == [mobjQueue EXCEPT ![mgr.i] = n1]
  <1>0. mobjQueue \in Seq(NodeSet)
    BY DEF TypeOK, NodeSet
  <1>1. mobjQueue \in Seq(NodeSet) /\ mobjQueue[mgr.i] \in NodeSet
    BY <1>0
  <1>2. n1 \in NodeSet
    BY <1>1 DEF NodeSet
  <1>3. n2 \in NodeSet
    BY <1>2 DEF NodeSet
  <1>4. q1 \in Seq(NodeSet) /\ DOMAIN q1 = DOMAIN mobjQueue /\ q1[mgr.i] = n1
    BY <1>1, <1>2
  <1>5. [mobjQueue EXCEPT ![mgr.i].slave = s] = q1
    OBVIOUS
  <1>6. Attached(s) = [q1 EXCEPT ![mgr.i] = [q1[mgr.i] EXCEPT !.attach = TRUE]]
    BY Zenon DEF Attached
  <1>7. Attached(s) = [q1 EXCEPT ![mgr.i] = n2]
    BY <1>4, <1>6
  <1>8. [q1 EXCEPT ![mgr.i] = n2] \in Seq(NodeSet)
        /\ DOMAIN [q1 EXCEPT ![mgr.i] = n2] = DOMAIN mobjQueue
    <2> HIDE DEF q1, n1, n2
    <2> QED BY <1>3, <1>4
  <1>9. QED
    BY <1>4, <1>5, <1>7, <1>8

-----------------------------------------------------------------------------
LEMMA InitLoad == Init => LoadInv
  <1> SUFFICES ASSUME Init PROVE LoadInv
    OBVIOUS
  <1>1. mobjQueue \in Seq([id : Obj, slave : Slave \cup {None}, attach : BOOLEAN])
    BY DEF Init
  <1>2. Asleep \in [at : {"idle", "poll", "detach"}, ip : Slave \cup {None},
                   left : SUBSET Slave]
    BY DEF Asleep
  <1>3. load = Asleep
    BY DEF Init
  <1>4. TypeOK
    BY <1>1, <1>2, <1>3 DEF Init, TypeOK, Resting
  <1> QED
    BY <1>4 DEF Init, LoadInv, Locked, Loading, NoJob, Resting

JobSet == [op : {"init", "add", "del"}, id : Obj,
           at : {"wait", "locked", "delete", "insert"}]

\* The main thread of the master: the rows at the start, and the requests.
LEMMA JobLoad ==
    ASSUME LoadInv,
           \/ Job \/ JobLock \/ traverseFailed \/ dbWriteFailed
           \/ \E op \in Ops, o \in Obj : Request(op, o)
    PROVE  LoadInv'
  <1> USE RestartAssumption
  <1> USE DEF LoadInv, Locked, Loading, Rows, locks, known, slaves, told
  <1>1. CASE objInitCB
    BY <1>1 DEF objInitCB, TypeOK, NoJob
  <1>2. CASE mstartTask \/ slaveInitCB \/ traverseFailed
    BY <1>2 DEF mstartTask, slaveInitCB, traverseFailed, TypeOK, NoJob
  <1>3. CASE addObj
    <2>1. job \in JobSet
      BY <1>3 DEF addObj, TypeOK, NoJob, JobSet
    <2>2. NewObj \in NodeSet
      BY <1>3, <2>1 DEF NewObj, NodeSet, TypeOK, addObj, JobSet
    <2>3. mobjQueue \in Seq(NodeSet)
      BY DEF TypeOK, NodeSet
    <2>4. Append(mobjQueue, NewObj) \in Seq(NodeSet)
      BY <2>2, <2>3
    <2>5. mobjQueue' \in Seq(NodeSet)
      BY <1>3, <2>3, <2>4, Zenon DEF addObj
    <2>6. mgr.at \notin {"update", "post"}
      BY <1>3 DEF addObj
    <2>7. \/ job' = NoJob
          \/ job.op # "init" /\ job' = [job EXCEPT !.at = "delete"]
      BY <1>3 DEF addObj
    <2>8. /\ job' \in {NoJob} \cup JobSet
          /\ job'.op # "init" /\ job'.at \notin {"locked"}
          /\ job'.op \in {"add", "del"} => job.op \in {"add", "del"}
          /\ job'.at \in {"delete", "insert"} => job'.op = "add"
      BY <1>3, <2>1, <2>7 DEF addObj, NoJob, JobSet
    <2>9. missed' \subseteq Obj
      BY <1>3 DEF addObj, TypeOK
    <2> QED
      BY <1>3, <2>5, <2>6, <2>8, <2>9 DEF addObj, TypeOK, NodeSet, JobSet
  <1>4. CASE checkDel
    BY <1>4 DEF checkDel, TypeOK, NoJob
  <1>5. CASE dbWrite \/ dbWriteFailed
    <2>1. /\ job' = NoJob /\ want' = [want EXCEPT ![job.id] = TRUE]
          /\ rows' \in {rows, [rows EXCEPT ![job.id] = None]} /\ pc = "run"
          /\ UNCHANGED <<mobjQueue, locks, known, pc, todo, mgr, load, slaves, missed, unaware>>
      BY <1>5 DEF dbWrite, dbWriteFailed, Success
    <2>2. TypeOK'
      BY <2>1 DEF TypeOK
    <2> QED
      BY <2>1, <2>2 DEF NoJob
  <1>6. CASE delObj
    <2>1. mobjQueue' \in Seq(NodeSet)
      BY <1>6, RemainingType DEF delObj
    <2>2. job \in JobSet
      BY <1>6 DEF delObj, TypeOK, NoJob, JobSet
    <2>3. QED
      BY <1>6, <2>1, <2>2 DEF delObj, TypeOK, NodeSet, NoJob, JobSet
  <1>7. CASE JobLock
    BY <1>7 DEF JobLock, TypeOK, NoJob
  <1>8. ASSUME NEW op \in Ops, NEW o \in Obj, Request(op, o)
        PROVE  LoadInv'
    BY <1>8 DEF Request, TypeOK, NoJob
  <1>9. QED
    BY <1>1, <1>2, <1>3, <1>4, <1>5, <1>6, <1>7, <1>8 DEF Job

\* The manager thread.
LEMMA ManagerLoad ==
    ASSUME LoadInv, Manager \/ ManagerLock \/ NewSlave \/ dbUpdateFailed \/ httpPostLost
    PROVE  LoadInv'
  <1> USE RestartAssumption
  <1> USE DEF LoadInv, Locked, Loading, Rows, locks, known, proc, slaves, told
  <1>0. None \in Slave \cup {None} /\ Slave \subseteq Slave \cup {None}
    OBVIOUS
  <1>1. CASE OldSlave
    <2>1. mgr.i \in DOMAIN mobjQueue
      BY <1>1 DEF OldSlave, Walking
    <2>2. CASE NextNode /\ UNCHANGED mobjQueue
      BY <1>1, <2>2 DEF OldSlave, NextNode, Walking, TypeOK
    <2>3. ASSUME mobjQueue' = Attached(Node.slave), mgr' = [mgr EXCEPT !.at = "post"],
                 Node.slave # None
          PROVE  LoadInv'
      <3>0. mobjQueue \in Seq(NodeSet)
        BY DEF TypeOK, NodeSet
      <3>a. Node \in NodeSet
        BY <2>1, <3>0 DEF Node
      <3>1. Node.slave \in Slave
        BY <2>3, <3>a DEF NodeSet
      <3>2. mobjQueue' \in Seq(NodeSet) /\ DOMAIN mobjQueue' = DOMAIN mobjQueue
        BY <2>1, <2>3, <3>1, NodeChanged
      <3>3. QED
        BY <1>1, <2>1, <2>3, <3>2 DEF OldSlave, Walking, TypeOK, NodeSet
    <2>4. CASE mobjQueue' = [mobjQueue EXCEPT ![mgr.i].slave = None] /\ NextNode
      <3>1. mobjQueue' \in Seq(NodeSet)
        BY <1>0, <2>1, <2>4, NodeChanged
      <3>2. QED
        BY <1>1, <2>4, <3>1 DEF OldSlave, NextNode, Walking, TypeOK, NodeSet
    <2>5. QED
      BY <1>1, <2>2, <2>3, <2>4 DEF OldSlave
  <1>2. CASE NewSlave
    <2>1. mgr.i \in DOMAIN mobjQueue
      BY <1>2 DEF NewSlave, Walking
    <2>2. CASE NextNode /\ UNCHANGED mobjQueue
      BY <1>2, <2>2 DEF NewSlave, NextNode, Walking, TypeOK
    <2>3. ASSUME NEW s \in Usable, mobjQueue' = Attached(s),
                 mgr' = [mgr EXCEPT !.at = "update"]
          PROVE  LoadInv'
      <3>1. s \in Slave
        BY DEF Usable
      <3>2. mobjQueue' \in Seq(NodeSet) /\ DOMAIN mobjQueue' = DOMAIN mobjQueue
        BY <2>1, <2>3, <3>1, NodeChanged
      <3>3. QED
        BY <1>2, <2>1, <2>3, <3>2 DEF NewSlave, Walking, TypeOK, NodeSet
    <2>4. QED
      BY <1>2, <2>2, <2>3 DEF NewSlave
  <1> USE DEF Posting, NextNode
  <1>3. CASE dbUpdate
    <2>1. Node.slave \in Slave \cup {None} /\ Node.id \in Obj
      <3>1. mobjQueue \in Seq(NodeSet) /\ mgr.i \in DOMAIN mobjQueue
        BY <1>3 DEF dbUpdate, NodeSet, TypeOK
      <3>2. Node \in NodeSet
        BY <3>1 DEF Node
      <3>3. QED
        BY <3>2 DEF NodeSet
    <2>2. Node.slave # NoRow
      BY <2>1
    <2>3. QED
      BY <1>3, <2>1, <2>2 DEF dbUpdate, TypeOK
  <1>4. CASE httpPost
    <2>1. Node.id \in Obj
      <3>1. mobjQueue \in Seq(NodeSet) /\ mgr.i \in DOMAIN mobjQueue
        BY <1>4 DEF httpPost, NodeSet, TypeOK
      <3>2. Node \in NodeSet
        BY <3>1 DEF Node
      <3>3. QED
        BY <3>2 DEF NodeSet
    <2>2. held' \in [Slave -> SUBSET Obj]
      <3>1. CASE held' = held
        BY <3>1 DEF TypeOK
      <3>2. CASE held' = [held EXCEPT ![Node.slave] = @ \cup {Node.id}]
        BY <2>1, <3>2 DEF TypeOK
      <3> QED
        BY <1>4, <3>1, <3>2 DEF httpPost
    <2>3. unaware' \subseteq Obj /\ mgr' \in [at : {"idle", "walk", "update", "post"}, i : Nat]
      BY <1>4 DEF httpPost, TypeOK
    <2>4. TypeOK'
      BY <1>4, <2>2, <2>3 DEF httpPost, TypeOK
    <2> QED
      BY <1>4, <2>4 DEF httpPost, TypeOK
  <1>5. CASE ManagerUnlock
    BY <1>5 DEF ManagerUnlock, Resting, TypeOK
  <1>6. CASE ManagerLock
    BY <1>6 DEF ManagerLock, TypeOK
  <1>7. CASE dbUpdateFailed \/ httpPostLost
    <2>1. mgr.i \in DOMAIN mobjQueue
      BY <1>7 DEF dbUpdateFailed, httpPostLost
    <2>a. mobjQueue \in Seq(NodeSet)
      BY DEF NodeSet, TypeOK
    <2>2. Node \in NodeSet
      BY <2>1, <2>a DEF Node
    <2>3. Node.id \in Obj
      BY <2>2 DEF NodeSet
    <2> QED
      BY <1>7, <2>1, <2>3 DEF dbUpdateFailed, httpPostLost, TypeOK
  <1> QED
    BY <1>1, <1>2, <1>3, <1>4, <1>5, <1>6, <1>7 DEF Manager

\* What detachSlave leaves.
LEMMA DetachedQueue ==
    ASSUME TypeOK, LoadDetach
    PROVE  /\ mobjQueue' \in Seq(NodeSet) /\ DOMAIN mobjQueue' = DOMAIN mobjQueue
           /\ \A i \in DOMAIN mobjQueue : mobjQueue'[i].id = mobjQueue[i].id
  <1> DEFINE off(n) == IF n.slave = load.ip THEN [n EXCEPT !.attach = FALSE] ELSE n
  <1>1. \A n \in NodeSet : off(n) \in NodeSet /\ off(n).id = n.id
    BY DEF NodeSet
  <1>2. mobjQueue \in Seq(NodeSet)
    BY DEF TypeOK, NodeSet
  <1>3. mobjQueue' = [i \in DOMAIN mobjQueue |-> off(mobjQueue[i])]
    BY DEF LoadDetach, Detached
  <1> HIDE DEF off
  <1> QED
    BY <1>1, <1>2, <1>3

\* The load thread, slaves that go and come, crashes and reboots.
LEMMA OtherLoad ==
    ASSUME LoadInv,
           \/ Load \/ LoadDetach
           \/ \E s \in Slave : SlaveGone(s) \/ SlaveBack(s)
           \/ CrashMaster \/ Reboot
    PROVE  LoadInv'
  <1> USE RestartAssumption
  <1> USE DEF LoadInv, Locked, Loading, Rows, locks, known, proc, slaves, told
  <1>1. ASSUME NEW s \in Slave, LoadOnline(s) \/ LoadNothing(s) \/ LoadOffline(s)
        PROVE  LoadInv'
    BY <1>1 DEF LoadOnline, LoadNothing, LoadOffline, Polled, TypeOK
  <1>2. CASE LoadLock \/ LoadUnlock
    <2>1. load' \in [at : {"idle", "poll", "detach"}, ip : Slave \cup {None},
                     left : SUBSET Slave]
      BY <1>2 DEF LoadLock, LoadUnlock, Asleep
    <2>2. /\ mutex_slave' \in {"nobody", "load"} /\ slaveLoadOk' \in BOOLEAN
          /\ UNCHANGED <<rows, mobjQueue, mutex_mobj, node, proc, mgr, slaves, told>>
      BY <1>2 DEF LoadLock, LoadUnlock, TypeOK
    <2>3. TypeOK'
      BY <2>1, <2>2 DEF TypeOK
    <2> QED
      BY <2>2, <2>3
  <1>3. CASE LoadDetach
    <2>1. mobjQueue' \in Seq(NodeSet) /\ DOMAIN mobjQueue' = DOMAIN mobjQueue
      BY <1>3, DetachedQueue
    <2>2. mobjQueue' \in Seq([id : Obj, slave : Slave \cup {None}, attach : BOOLEAN])
      BY <2>1 DEF NodeSet
    <2>3. load' \in [at : {"idle", "poll", "detach"}, ip : Slave \cup {None},
                     left : SUBSET Slave]
      BY <1>3 DEF LoadDetach, TypeOK
    <2> QED
      BY <1>3, <2>1, <2>2, <2>3 DEF LoadDetach, TypeOK
  <1>4. ASSUME NEW s \in Slave, SlaveGone(s) \/ SlaveBack(s)
        PROVE  LoadInv'
    BY <1>4 DEF SlaveGone, SlaveBack, AttachedTo, TypeOK
  <1>5. CASE CrashMaster
    BY <1>5 DEF CrashMaster, Started, NoJob, Resting, Asleep, TypeOK
  <1>6. CASE Reboot
    <2>1. mobjQueue' = <<>> /\ mobjQueue' \in Seq(NodeSet)
      BY <1>6 DEF Reboot
    <2> QED
      BY <1>6, <2>1 DEF Reboot, Started, NoJob, Resting, Asleep, TypeOK, NodeSet
  <1> QED
    BY <1>1, <1>2, <1>3, <1>4, <1>5, <1>6 DEF Load

-----------------------------------------------------------------------------
(* Every object a user was told of is in the queue or will be read from its  *)
(* row.                                                                      *)

\* addObj finds room.
Room == Len(mobjQueue) < MasterObjMax

\* A starting master has the object in its queue, has its row in hand, will come
\* to it, or cannot.
Known == \A o \in Obj : want[o] => \/ InQueue(o) \/ o \in todo \/ o \in missed
                                   \/ job.op = "init" /\ job.id = o

\* What is being written to the database is in the queue.
AddedFirst == job.at \in {"delete", "insert"} => InQueue(job.id)

CompleteInv == Known /\ AddedFirst

\* Only the element taken out is missing.
LEMMA RemoveAtKeeps ==
    ASSUME NEW S, NEW q \in Seq(S), NEW i \in DOMAIN q, NEW j \in DOMAIN q, j # i
    PROVE  \E k \in DOMAIN RemoveAt(q, i) : RemoveAt(q, i)[k] = q[j]
  <1> DEFINE a == SubSeq(q, 1, i - 1)
             b == SubSeq(q, i + 1, Len(q))
  <1>1. Len(q) \in Nat /\ DOMAIN q = 1 .. Len(q) /\ \A k \in 1 .. Len(q) : q[k] \in S
    BY LenProperties, ElementOfSeq
  <1>2. a \in Seq(S) /\ Len(a) = i - 1 /\ \A k \in 1 .. i - 1 : a[k] = q[k]
    BY <1>1, SubSeqProperties
  <1>3. b \in Seq(S) /\ Len(b) = Len(q) - i
        /\ \A k \in 1 .. Len(q) - i : b[k] = q[i + k]
    BY <1>1, SubSeqProperties
  <1> HIDE DEF a, b
  <1>4. /\ a \o b \in Seq(S) /\ Len(a \o b) = Len(q) - 1
        /\ \A k \in 1 .. Len(q) - 1 :
              (a \o b)[k] = IF k <= i - 1 THEN a[k] ELSE b[k - (i - 1)]
    <2>1. /\ a \o b \in Seq(S) /\ Len(a \o b) = Len(a) + Len(b)
          /\ \A k \in 1 .. Len(a) + Len(b) :
                (a \o b)[k] = IF k <= Len(a) THEN a[k] ELSE b[k - Len(a)]
      BY <1>2, <1>3, ConcatProperties
    <2>2. Len(a) + Len(b) = Len(q) - 1
      BY <1>1, <1>2, <1>3
    <2> QED
      BY <1>2, <2>1, <2>2
  <1>5. DOMAIN (a \o b) = 1 .. Len(q) - 1
    BY <1>4, LenProperties
  <1>6. RemoveAt(q, i) = a \o b
    BY DEF RemoveAt, a, b
  <1>7. CASE j < i
    <2>1. j \in 1 .. Len(q) - 1 /\ (a \o b)[j] = q[j]
      BY <1>1, <1>2, <1>4, <1>7
    <2> QED
      BY <1>5, <1>6, <2>1
  <1>8. CASE j > i
    <2>1. /\ j - 1 \in 1 .. Len(q) - 1 /\ ~(j - 1 <= i - 1)
          /\ (j - 1) - (i - 1) = j - i /\ j - i \in 1 .. Len(q) - i
          /\ i + (j - i) = j
      BY <1>1, <1>8
    <2>2. (a \o b)[j - 1] = q[j]
      BY <1>3, <1>4, <2>1
    <2> QED
      BY <1>5, <1>6, <2>1, <2>2
  <1> QED
    BY <1>1, <1>7, <1>8

\* The thread of a node, its slave and its flags change; its id never does.
LEMMA SameObjects ==
    ASSUME DOMAIN mobjQueue' = DOMAIN mobjQueue,
           \A i \in DOMAIN mobjQueue : mobjQueue'[i].id = mobjQueue[i].id,
           NEW o
    PROVE  InQueue(o)' <=> InQueue(o)
  BY DEF InQueue

\* The same for the manager's assignments.
LEMMA IdsKept ==
    ASSUME TypeOK, mgr.i \in DOMAIN mobjQueue, NEW s \in Slave \cup {None},
           mobjQueue' \in {Attached(s), [mobjQueue EXCEPT ![mgr.i].slave = s]}
    PROVE  /\ DOMAIN mobjQueue' = DOMAIN mobjQueue
           /\ \A i \in DOMAIN mobjQueue : mobjQueue'[i].id = mobjQueue[i].id
  <1> DEFINE n1 == [mobjQueue[mgr.i] EXCEPT !.slave = s]
             n2 == [n1 EXCEPT !.attach = TRUE]
             q1 == [mobjQueue EXCEPT ![mgr.i] = n1]
  <1>1. mobjQueue \in Seq(NodeSet)
    BY DEF TypeOK, NodeSet
  <1>2. mobjQueue[mgr.i] \in NodeSet
    BY <1>1
  <1>3. n1 \in NodeSet /\ n1.id = mobjQueue[mgr.i].id
    BY <1>2 DEF NodeSet
  <1>4. n2 \in NodeSet /\ n2.id = mobjQueue[mgr.i].id
    BY <1>3 DEF NodeSet
  <1>5. q1 \in Seq(NodeSet) /\ DOMAIN q1 = DOMAIN mobjQueue /\ q1[mgr.i] = n1
        /\ \A i \in DOMAIN mobjQueue : i # mgr.i => q1[i] = mobjQueue[i]
    BY <1>1, <1>3
  <1>6. [mobjQueue EXCEPT ![mgr.i].slave = s] = q1
    OBVIOUS
  <1>7. Attached(s) = [q1 EXCEPT ![mgr.i] = [q1[mgr.i] EXCEPT !.attach = TRUE]]
    BY Zenon DEF Attached
  <1>8. Attached(s) = [q1 EXCEPT ![mgr.i] = n2]
    BY <1>5, <1>7
  <1> HIDE DEF q1, n1, n2
  <1>9. CASE mobjQueue' = q1
    BY <1>3, <1>5, <1>9
  <1>10. CASE mobjQueue' = [q1 EXCEPT ![mgr.i] = n2]
    BY <1>4, <1>5, <1>10
  <1> QED
    BY <1>6, <1>8, <1>9, <1>10

\* The main thread and the requests.
LEMMA JobComplete ==
    ASSUME Room, LoadInv, CompleteInv,
           \/ Job \/ JobLock \/ traverseFailed \/ dbWriteFailed
           \/ \E op \in Ops, o \in Obj : Request(op, o)
    PROVE  CompleteInv'
  <1> USE DEF CompleteInv, Known, AddedFirst, locks, known, slaves, told
  <1>0. mobjQueue \in Seq(NodeSet) /\ Len(mobjQueue) \in Nat
    BY LenProperties DEF LoadInv, TypeOK, NodeSet
  <1>1. CASE objInitCB
    BY <1>1 DEF objInitCB, NoJob, InQueue
  <1>2. CASE mstartTask \/ slaveInitCB \/ traverseFailed
    BY <1>2 DEF mstartTask, slaveInitCB, traverseFailed, InitEnded, NoJob, InQueue
  <1>3. CASE addObj
    <2>1. NewObj \in NodeSet
      <3>1. job \in JobSet
        BY <1>3 DEF addObj, LoadInv, TypeOK, NoJob, JobSet
      <3> QED
        BY <1>3, <3>1, RestartAssumption
        DEF NewObj, NodeSet, LoadInv, TypeOK, Loading, addObj, JobSet
    <2>2. mobjQueue' = Append(mobjQueue, NewObj) /\ missed' = missed \ {job.id}
      BY <1>3 DEF addObj, Room
    <2>3. /\ DOMAIN mobjQueue' = 1 .. Len(mobjQueue) + 1
          /\ \A i \in DOMAIN mobjQueue : mobjQueue'[i] = mobjQueue[i]
          /\ mobjQueue'[Len(mobjQueue) + 1] = NewObj
      BY <1>0, <2>1, <2>2, AppendProperties
    <2>4. \A o : InQueue(o) => InQueue(o)'
      BY <1>0, <2>3 DEF InQueue
    <2>5. ASSUME NEW o, o = job.id PROVE InQueue(o)'
      <3>1. Len(mobjQueue) + 1 \in DOMAIN mobjQueue'
        BY <1>0, <2>3
      <3>2. mobjQueue'[Len(mobjQueue) + 1].id = o
        BY <2>3, <2>5 DEF NewObj
      <3>3. \E i \in DOMAIN mobjQueue' : mobjQueue'[i].id = o
        BY <3>1, <3>2
      <3> QED
        BY <3>3, Zenon DEF InQueue
    <2>6. \/ job' = NoJob
          \/ job.op # "init" /\ job'.id = job.id
      <3>1. job \in JobSet
        BY <1>3 DEF addObj, LoadInv, TypeOK, NoJob, JobSet
      <3>2. \/ job' = NoJob
            \/ job.op # "init" /\ job' = [job EXCEPT !.at = "delete"]
        BY <1>3 DEF addObj
      <3> QED
        BY <3>1, <3>2 DEF JobSet
    <2>7. todo' = todo /\ want' = want
      BY <1>3 DEF addObj
    <2>8. Known'
      <3>1. ASSUME NEW o \in Obj, want[o]
            PROVE  InQueue(o)' \/ o \in todo' \/ o \in missed'
        BY <2>2, <2>4, <2>5, <2>7, <3>1
      <3> QED
        BY <2>7, <3>1
    <2>9. AddedFirst'
      <3>1. CASE job' = NoJob
        BY <3>1 DEF NoJob
      <3>2. CASE job'.id = job.id
        BY <2>5, <3>2
      <3> QED
        BY <2>6, <3>1, <3>2
    <2> QED
      BY <2>8, <2>9
  <1>4. CASE checkDel
    <2>1. job' = [job EXCEPT !.at = "insert"] /\ job.at = "delete"
      BY <1>4 DEF checkDel
    <2>2. job'.id = job.id /\ job'.op = job.op
      BY <2>1 DEF LoadInv, TypeOK, NoJob
    <2> QED
      BY <1>4, <2>1, <2>2 DEF checkDel, InQueue
  <1>5. CASE dbWrite \/ dbWriteFailed
    <2>1. /\ job' = NoJob /\ want' = [want EXCEPT ![job.id] = TRUE]
          /\ UNCHANGED <<mobjQueue, todo, missed>> /\ job.op = "add" /\ InQueue(job.id)
      BY <1>5 DEF dbWrite, dbWriteFailed, Success, LoadInv, Loading
    <2>2. \A o : InQueue(o)' <=> InQueue(o)
      BY <2>1 DEF InQueue
    <2>3. \A o \in Obj : want'[o] => want[o] \/ o = job.id
      BY <2>1 DEF LoadInv, TypeOK
    <2> QED
      BY <2>1, <2>2, <2>3 DEF NoJob
  <1>6. CASE delObj
    <2>1. todo' = todo /\ job' = NoJob /\ job.op = "del" /\ missed' = missed
          /\ want' = [want EXCEPT ![job.id] = FALSE]
      BY <1>6 DEF delObj
    <2>2. ASSUME NEW o \in Obj, o # job.id, InQueue(o)
          PROVE  InQueue(o)'
      <3>1. CASE Hit = {}
        BY <1>6, <2>2, <3>1 DEF delObj, Remaining, InQueue
      <3>2. CASE Hit # {}
        <4> DEFINE h == CHOOSE i \in Hit : TRUE
        <4>1. h \in Hit /\ mobjQueue' = RemoveAt(mobjQueue, h)
          BY <1>6, <3>2 DEF delObj, Remaining
        <4> HIDE DEF h
        <4>2. h \in DOMAIN mobjQueue /\ mobjQueue[h].id = job.id
          BY <4>1 DEF Hit
        <4>3. PICK j \in DOMAIN mobjQueue : mobjQueue[j].id = o
          BY <2>2 DEF InQueue
        <4>4. PICK k \in DOMAIN mobjQueue' : mobjQueue'[k] = mobjQueue[j]
          BY <1>0, <2>2, <4>1, <4>2, <4>3, RemoveAtKeeps
        <4> QED
          BY <4>3, <4>4 DEF InQueue
      <3> QED
        BY <3>1, <3>2
    <2>3. Known'
      BY <2>1, <2>2 DEF LoadInv, TypeOK
    <2> QED
      BY <2>1, <2>3 DEF NoJob
  <1>7. CASE JobLock
    <2>1. job.at = "wait" /\ job' = [job EXCEPT !.at = "locked"]
      BY <1>7 DEF JobLock
    <2>2. job'.id = job.id /\ job'.op = job.op /\ job'.at = "locked"
      BY <2>1 DEF LoadInv, TypeOK, NoJob
    <2> QED
      BY <1>7, <2>2 DEF JobLock, InQueue
  <1>8. ASSUME NEW op \in Ops, NEW o \in Obj, Request(op, o)
        PROVE  CompleteInv'
    BY <1>8 DEF Request, NoJob, InQueue
  <1> QED
    BY <1>1, <1>2, <1>3, <1>4, <1>5, <1>6, <1>7, <1>8 DEF Job

\* The manager thread changes no id.
LEMMA ManagerComplete ==
    ASSUME LoadInv, CompleteInv,
           Manager \/ ManagerLock \/ NewSlave \/ dbUpdateFailed \/ httpPostLost
    PROVE  CompleteInv'
  <1> USE DEF CompleteInv, Known, AddedFirst, locks, known, proc, slaves, told
  <1> SUFFICES (\A o : InQueue(o)' <=> InQueue(o)) /\ UNCHANGED <<want, missed, todo, job>>
    OBVIOUS
  <1>1. ASSUME Walking, NEW s \in Slave \cup {None},
               mobjQueue' \in {Attached(s), [mobjQueue EXCEPT ![mgr.i].slave = s]}
        PROVE  \A o : InQueue(o)' <=> InQueue(o)
    <2>1. /\ DOMAIN mobjQueue' = DOMAIN mobjQueue
          /\ \A i \in DOMAIN mobjQueue : mobjQueue'[i].id = mobjQueue[i].id
      BY <1>1, IdsKept DEF LoadInv, Walking
    <2> QED
      BY <2>1, SameObjects
  <1>2. Usable \subseteq Slave
    BY DEF Usable
  <1>3. CASE OldSlave
    <2>1. UNCHANGED <<want, missed, todo, job>> /\ Walking
      BY <1>3 DEF OldSlave
    <2>2. CASE UNCHANGED mobjQueue
      BY <2>1, <2>2 DEF InQueue
    <2>3. CASE mobjQueue' = Attached(Node.slave)
      <3>1. mobjQueue \in Seq(NodeSet) /\ mgr.i \in DOMAIN mobjQueue
        BY <2>1 DEF LoadInv, TypeOK, NodeSet, Walking
      <3>a. Node \in NodeSet
        BY <3>1 DEF Node
      <3>2. Node.slave \in Slave \cup {None}
        BY <3>a DEF NodeSet
      <3> QED
        BY <1>1, <2>1, <2>3, <3>2
    <2>4. CASE mobjQueue' = [mobjQueue EXCEPT ![mgr.i].slave = None]
      BY <1>1, <2>1, <2>4
    <2> QED
      BY <1>3, <2>2, <2>3, <2>4 DEF OldSlave
  <1>4. CASE NewSlave
    <2>1. UNCHANGED <<want, missed, todo, job>> /\ Walking
      BY <1>4 DEF NewSlave
    <2>2. CASE UNCHANGED mobjQueue
      BY <2>1, <2>2 DEF InQueue
    <2>3. ASSUME NEW s \in Usable, mobjQueue' = Attached(s)
          PROVE  \A o : InQueue(o)' <=> InQueue(o)
      BY <1>1, <1>2, <2>1, <2>3
    <2> QED
      BY <1>4, <2>1, <2>2, <2>3 DEF NewSlave
  <1>5. CASE \/ dbUpdate \/ dbUpdateFailed \/ httpPost \/ httpPostLost
             \/ ManagerUnlock \/ ManagerLock
    BY <1>5 DEF dbUpdate, dbUpdateFailed, httpPost, httpPostLost, ManagerUnlock,
                ManagerLock, InQueue
  <1> QED
    BY <1>3, <1>4, <1>5 DEF Manager

\* The load thread changes no id either, and a starting master reads every row.
LEMMA OtherComplete ==
    ASSUME LoadInv, CompleteInv,
           \/ Load \/ LoadDetach
           \/ \E s \in Slave : SlaveGone(s) \/ SlaveBack(s)
           \/ CrashMaster \/ Reboot
    PROVE  CompleteInv'
  <1> USE DEF CompleteInv, Known, AddedFirst, locks, known, proc, slaves, told
  <1>1. ASSUME NEW s \in Slave,
               \/ LoadOnline(s) \/ LoadNothing(s) \/ LoadOffline(s)
               \/ SlaveGone(s) \/ SlaveBack(s)
        PROVE  CompleteInv'
    BY <1>1 DEF LoadOnline, LoadNothing, LoadOffline, SlaveGone, SlaveBack, InQueue
  <1>2. CASE LoadLock \/ LoadUnlock
    BY <1>2 DEF LoadLock, LoadUnlock, InQueue
  <1>3. CASE LoadDetach
    <2>1. \A o : InQueue(o)' <=> InQueue(o)
      BY <1>3, DetachedQueue, SameObjects DEF LoadInv
    <2>2. UNCHANGED <<want, missed, todo, job>>
      BY <1>3 DEF LoadDetach
    <2> QED
      BY <2>1, <2>2
  <1>4. CASE CrashMaster
    <2>1. /\ todo' = Rows /\ job' = NoJob
          /\ UNCHANGED <<want, missed, mobjQueue, rows>>
      BY <1>4 DEF CrashMaster, Started
    <2>2. \A o : InQueue(o)' <=> InQueue(o)
      BY <2>1 DEF InQueue
    <2>3. \A o \in Obj : o \in todo \/ (job.op = "init" /\ job.id = o) => o \in Rows
      BY DEF LoadInv, Loading, Rows
    <2> QED
      BY <2>1, <2>2, <2>3 DEF NoJob
  <1>5. CASE Reboot
    BY <1>5 DEF Reboot, Started, NoJob
  <1> QED
    BY <1>1, <1>2, <1>3, <1>4, <1>5 DEF Load

\* A master that has started has in its queue every object a user was told is
\* there, but for what had no row when the machine started or could not be read:
\* for any number of objects, slaves and requests, and after any number of
\* crashes at any steps, reboots and failed calls of the database, as long as
\* addObj finds room (master.cpp:155, misc.cpp:218).
THEOREM CompleteSafe == Spec /\ []Room => []Complete
  <1>1. Init => LoadInv /\ CompleteInv
    BY InitLoad DEF Init, CompleteInv, Known, AddedFirst, NoJob
  <1>2. LoadInv /\ CompleteInv /\ Room /\ [Next]_vars => (LoadInv /\ CompleteInv)'
    <2> SUFFICES ASSUME LoadInv, CompleteInv, Room, [Next]_vars
                 PROVE  (LoadInv /\ CompleteInv)'
      OBVIOUS
    <2>1. CASE UNCHANGED vars
      BY <2>1 DEF vars, locks, known, proc, slaves, told, LoadInv, TypeOK, Locked,
                  Loading, Rows, CompleteInv, Known, AddedFirst, InQueue
    <2>2. CASE Next
      BY <2>2, JobLoad, ManagerLoad, OtherLoad, JobComplete, ManagerComplete,
         OtherComplete DEF Next, Failure
    <2> QED
      BY <2>1, <2>2
  <1>3. LoadInv /\ CompleteInv => Complete
    BY DEF LoadInv, Loading, CompleteInv, Known, Complete, Rows
  <1> QED
    BY <1>1, <1>2, <1>3, PTL DEF Spec
=============================================================================
