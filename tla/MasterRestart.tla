--------------------------- MODULE MasterRestart ---------------------------
(***************************************************************************)
(* What a restart leaves of the objects of a cluster.  The master process  *)
(* may die at any step and is started again by main: its queue, the        *)
(* semaphores and everything else in shared memory stay as they were, and  *)
(* initMasterFromDB adds the rows of the database to them.  Or the whole   *)
(* machine is rebooted and starts from the database alone.                 *)
(*                                                                         *)
(* A request is followed through addObj or delObj and the calls of the     *)
(* database, dbWrite's delete and its insert being two steps, each of      *)
(* which may fail.  A slave is what its machine is (slv) and what the      *)
(* master takes it for (node); the clock, loads and lost answers to polls  *)
(* are in module Master.                                                   *)
(***************************************************************************)
EXTENDS Naturals, Sequences, FiniteSets, SequencesExt

CONSTANTS Obj, Watched, Slave, None, NoRow,
          Ops,           \* requests the users send: "add", "del"
          AddTwice,      \* do they add an object that is there?
          MasterObjMax,  \* config.json "master"."objMax"
          Faults,        \* what may go wrong: "crash" and "reboot" of the master,
                         \* "gone" slaves, database calls that "fail", "lost" POSTs
          RequestMax, FaultMax  \* bounds

ASSUME RestartAssumption ==
    /\ None \notin Obj \cup Slave /\ NoRow \notin Slave \cup {None}
    /\ Watched \subseteq Obj /\ Ops \subseteq {"add", "del"} /\ AddTwice \in BOOLEAN
    /\ Faults \subseteq {"crash", "reboot", "gone", "fail", "lost"}
    /\ {MasterObjMax, RequestMax, FaultMax} \subseteq Nat

VARIABLES rows,       \* table "obj": NoRow, or the slave in the row
          mobjQueue,  \* nodes of the queue in shared memory
          mutex_mobj, mutex_slave,  \* who holds them
          node,       \* what slaveQueue says of a slave: "new" (never online),
                      \* "usable" (slaveIsNormal accepts it) or "offline"
          slaveLoadOk,
          pc,         \* main thread of the master: "slaves", "init" or "run"
          todo,       \* rows dbTraverse has still to visit
          job,        \* the addObj or delObj under way
          mgr,        \* master_objmanager_thread
          load,       \* slave_load_thread
          slv,        \* machine of a slave: "down", "fresh" (systemInit 0) or "inited"
          held,       \* objects in the queue of every slave
          want,       \* history: objects a user was told are there
          missed,     \* history: objects a starting master could not read
          unaware,    \* history: objects whose slave lost them unseen, or never got them
          requests, faults

bounds == <<requests, faults>>
locks == <<mutex_mobj, mutex_slave>>
known == <<node, slaveLoadOk>>
proc == <<pc, todo, job>>
slaves == <<slv, held>>
told == <<want, missed, unaware>>
vars == <<rows, mobjQueue, locks, known, proc, mgr, load, slaves, told, bounds>>

NoJob == [op |-> "none", id |-> None, at |-> "none"]
Resting == [at |-> "idle", i |-> 0]
Asleep == [at |-> "idle", ip |-> None, left |-> {}]
Rows == {o \in Obj : rows[o] # NoRow}
InQueue(o) == \E i \in DOMAIN mobjQueue : mobjQueue[i].id = o

Init ==
    /\ rows = [o \in Obj |-> NoRow] /\ mobjQueue = <<>>
    /\ mutex_mobj = "nobody" /\ mutex_slave = "nobody"
    /\ node = [s \in Slave |-> "new"] /\ slaveLoadOk = FALSE
    /\ pc = "slaves" /\ todo = {} /\ job = NoJob /\ mgr = Resting /\ load = Asleep
    /\ slv = [s \in Slave |-> "fresh"] /\ held = [s \in Slave |-> {}]
    /\ want = [o \in Obj |-> FALSE] /\ missed = {} /\ unaware = {}
    /\ requests = 0 /\ faults = 0

Fault(kind) == /\ kind \in Faults /\ faults < FaultMax
               /\ faults' = faults + 1 /\ UNCHANGED requests

-----------------------------------------------------------------------------
(* initMasterFromDB, before the threads of the master start *)

\* addSlave of every row of table "slave"; in a queue that is still there the
\* second node of an address is never found.
slaveInitCB ==
    /\ pc = "slaves" /\ mutex_slave = "nobody"
    /\ pc' = "init"
    /\ UNCHANGED <<rows, mobjQueue, locks, known, todo, job, mgr, load, slaves, told, bounds>>

\* Mutant: the cursor is closed one row early.
InitEndedEarly == Cardinality(todo) <= 1

InitEnded == todo = {}

objInitCB ==
    /\ pc = "init" /\ job = NoJob /\ ~InitEnded
    /\ \E o \in todo : /\ job' = [op |-> "init", id |-> o, at |-> "wait"]
                       /\ todo' = todo \ {o}
    /\ UNCHANGED <<rows, mobjQueue, locks, known, pc, mgr, load, slaves, told, bounds>>

\* The cursor fails, and dbTraverse ends as if there were no more rows.
traverseFailed ==
    /\ pc = "init" /\ job = NoJob /\ todo # {} /\ Fault("fail")
    /\ todo' = {} /\ missed' = missed \cup {o \in todo : ~InQueue(o)}
    /\ UNCHANGED <<rows, mobjQueue, locks, known, pc, job, mgr, load, slaves, want, unaware>>

mstartTask ==
    /\ pc = "init" /\ job = NoJob /\ InitEnded
    /\ pc' = "run" /\ todo' = {}
    /\ UNCHANGED <<rows, mobjQueue, locks, known, job, mgr, load, slaves, told, bounds>>

-----------------------------------------------------------------------------
(* Requests *)

Request(op, o) ==
    /\ pc = "run" /\ job = NoJob /\ requests < RequestMax
    /\ IF op = "add" THEN AddTwice \/ ~want[o] ELSE want[o]
    /\ job' = [op |-> op, id |-> o, at |-> "wait"]
    /\ requests' = requests + 1
    /\ UNCHANGED <<rows, mobjQueue, locks, known, pc, todo, mgr, load, slaves, told, faults>>

JobLock ==
    /\ job.at = "wait" /\ mutex_mobj = "nobody"
    /\ mutex_mobj' = "job"
    /\ job' = [job EXCEPT !.at = "locked"]
    /\ UNCHANGED <<rows, mobjQueue, mutex_slave, known, pc, todo, mgr, load, slaves, told, bounds>>

\* initObjTask takes the slave from the row (nobody holds mutex_slave while the
\* rows are read); a body a user sends has none.
NewObj == [id |-> job.id, attach |-> FALSE,
           slave |-> IF job.op = "init" THEN rows[job.id] ELSE None]

\* A full queue drops the object, and the caller goes on as if it were there.
addObj ==
    /\ job.at = "locked" /\ job.op # "del"
    /\ IF Len(mobjQueue) < MasterObjMax
       THEN mobjQueue' = Append(mobjQueue, NewObj) /\ missed' = missed \ {job.id}
       ELSE UNCHANGED <<mobjQueue, missed>>
    /\ mutex_mobj' = "nobody"
    /\ job' = IF job.op = "init" THEN NoJob ELSE [job EXCEPT !.at = "delete"]
    /\ UNCHANGED <<rows, mutex_slave, known, pc, todo, mgr, load, slaves, want, unaware, bounds>>

checkDel ==
    /\ job.at = "delete"
    /\ rows' = [rows EXCEPT ![job.id] = NoRow]
    /\ job' = [job EXCEPT !.at = "insert"]
    /\ UNCHANGED <<mobjQueue, locks, known, pc, todo, mgr, load, slaves, told, bounds>>

\* The user is told that the object is there.
Success == want' = [want EXCEPT ![job.id] = TRUE] /\ job' = NoJob

dbWrite ==
    /\ job.at = "insert"
    /\ rows' = [rows EXCEPT ![job.id] = None]
    /\ Success
    /\ UNCHANGED <<mobjQueue, locks, known, pc, todo, mgr, load, slaves, missed, unaware, bounds>>

\* The database cannot be reached from here on; the user is told the same.
dbWriteFailed ==
    /\ job.at \in {"delete", "insert"} /\ Fault("fail")
    /\ Success
    /\ UNCHANGED <<rows, mobjQueue, locks, known, pc, todo, mgr, load, slaves, missed, unaware>>

\* The first node with the id.
Hit == {i \in DOMAIN mobjQueue : /\ mobjQueue[i].id = job.id
                                 /\ \A j \in 1..(i - 1) : mobjQueue[j].id # job.id}

\* Neither the row nor the slaves are told.
Remaining == IF Hit = {} THEN mobjQueue
             ELSE RemoveAt(mobjQueue, CHOOSE i \in Hit : TRUE)

delObj ==
    /\ job.at = "locked" /\ job.op = "del"
    /\ mobjQueue' = Remaining
    /\ mutex_mobj' = "nobody"
    /\ want' = [want EXCEPT ![job.id] = FALSE]
    /\ job' = NoJob
    /\ UNCHANGED <<rows, mutex_slave, known, pc, todo, mgr, load, slaves, missed, unaware, bounds>>

-----------------------------------------------------------------------------
(* slave_load_thread *)

LoadLock ==
    /\ pc = "run" /\ load.at = "idle" /\ mutex_slave = "nobody"
    /\ mutex_slave' = "load"
    /\ load' = [at |-> "poll", ip |-> None, left |-> Slave]
    /\ UNCHANGED <<rows, mobjQueue, mutex_mobj, known, proc, mgr, slaves, told, bounds>>

Polled(s) == /\ load.at = "poll" /\ s \in load.left
             /\ load' = [load EXCEPT !.left = @ \ {s}]

\* Only an answer with systemInit 0 brings a slave online; the POST of
\* /system/init that follows may be lost.
LoadOnline(s) ==
    /\ Polled(s) /\ slv[s] = "fresh"
    /\ node' = [node EXCEPT ![s] = "usable"]
    /\ slv' \in {slv, [slv EXCEPT ![s] = "inited"]}
    /\ UNCHANGED <<rows, mobjQueue, locks, slaveLoadOk, proc, mgr, held, told, bounds>>

LoadNothing(s) ==
    /\ Polled(s) /\ slv[s] # "fresh" /\ (slv[s] = "down" => node[s] = "offline")
    /\ UNCHANGED <<rows, mobjQueue, locks, known, proc, mgr, slaves, told, bounds>>

LoadOffline(s) ==
    /\ load.at = "poll" /\ s \in load.left /\ slv[s] = "down" /\ node[s] # "offline"
    /\ node' = [node EXCEPT ![s] = "offline"]
    /\ load' = [at |-> "detach", ip |-> s, left |-> load.left \ {s}]
    /\ UNCHANGED <<rows, mobjQueue, locks, slaveLoadOk, proc, mgr, slaves, told, bounds>>

\* Mutant: detachObjSlave leaves attachSlave as it is.
DetachedNot(s) == mobjQueue

Detached(s) == [i \in DOMAIN mobjQueue |->
                  IF mobjQueue[i].slave = s
                  THEN [mobjQueue[i] EXCEPT !.attach = FALSE] ELSE mobjQueue[i]]

\* detachSlave waits for mutex_mobj with mutex_slave in hand.
LoadDetach ==
    /\ load.at = "detach" /\ mutex_mobj = "nobody"
    /\ mobjQueue' = Detached(load.ip)
    /\ load' = [load EXCEPT !.at = "poll", !.ip = None]
    /\ UNCHANGED <<rows, locks, known, proc, mgr, slaves, told, bounds>>

LoadUnlock ==
    /\ load.at = "poll" /\ load.left = {}
    /\ mutex_slave' = "nobody" /\ load' = Asleep /\ slaveLoadOk' = TRUE
    /\ UNCHANGED <<rows, mobjQueue, mutex_mobj, node, proc, mgr, slaves, told, bounds>>

-----------------------------------------------------------------------------
(* master_objmanager_thread and mobjManager *)

ManagerLock ==
    /\ pc = "run" /\ mgr.at = "idle" /\ slaveLoadOk /\ mutex_mobj = "nobody"
    /\ mutex_mobj' = "manager"
    /\ mgr' = [at |-> "walk", i |-> 1]
    /\ UNCHANGED <<rows, mobjQueue, mutex_slave, known, proc, load, slaves, told, bounds>>

Walking == mgr.at = "walk" /\ mgr.i \in DOMAIN mobjQueue
Node == mobjQueue[mgr.i]
NextNode == mgr' = [at |-> "walk", i |-> mgr.i + 1]
Attached(s) == [mobjQueue EXCEPT ![mgr.i].slave = s, ![mgr.i].attach = TRUE]

\* The slave has the object, takes it again, is waited for (120 s) or is given up.
OldSlave ==
    /\ Walking /\ Node.slave # None
    /\ \/ Node.attach /\ NextNode /\ UNCHANGED mobjQueue
       \/ /\ ~Node.attach /\ node[Node.slave] = "usable"
          /\ mobjQueue' = Attached(Node.slave) /\ mgr' = [mgr EXCEPT !.at = "post"]
       \/ /\ ~Node.attach /\ node[Node.slave] = "offline"
          /\ NextNode /\ UNCHANGED mobjQueue
       \/ /\ ~Node.attach /\ node[Node.slave] # "usable"
          /\ mobjQueue' = [mobjQueue EXCEPT ![mgr.i].slave = None] /\ NextNode
    /\ UNCHANGED <<rows, locks, known, proc, load, slaves, told, bounds>>

Usable == {s \in Slave : node[s] = "usable"}

\* getLowestLoadSlave waits for mutex_slave with mutex_mobj in hand.
NewSlave ==
    /\ Walking /\ Node.slave = None /\ mutex_slave = "nobody"
    /\ IF Usable = {}
       THEN NextNode /\ UNCHANGED mobjQueue
       ELSE /\ \E s \in Usable : mobjQueue' = Attached(s)
            /\ mgr' = [mgr EXCEPT !.at = "update"]
    /\ UNCHANGED <<rows, locks, known, proc, load, slaves, told, bounds>>

Posting == mgr' = [mgr EXCEPT !.at = "post"]

dbUpdate ==
    /\ mgr.at = "update"
    /\ rows' = IF rows[Node.id] = NoRow THEN rows
               ELSE [rows EXCEPT ![Node.id] = Node.slave]
    /\ Posting
    /\ UNCHANGED <<mobjQueue, locks, known, proc, load, slaves, told, bounds>>

dbUpdateFailed ==
    /\ mgr.at = "update" /\ Fault("fail")
    /\ Posting
    /\ UNCHANGED <<rows, mobjQueue, locks, known, proc, load, slaves, told>>

httpPost ==
    /\ mgr.at = "post"
    /\ held' = IF slv[Node.slave] # "down"
               THEN [held EXCEPT ![Node.slave] = @ \cup {Node.id}] ELSE held
    /\ unaware' = unaware \ {Node.id}
    /\ NextNode
    /\ UNCHANGED <<rows, mobjQueue, locks, known, proc, load, slv, want, missed, bounds>>

\* Its outcome is not looked at.
httpPostLost ==
    /\ mgr.at = "post" /\ Fault("lost")
    /\ unaware' = unaware \cup {Node.id}
    /\ NextNode
    /\ UNCHANGED <<rows, mobjQueue, locks, known, proc, load, slaves, want, missed>>

ManagerUnlock ==
    /\ mgr.at = "walk" /\ mgr.i \notin DOMAIN mobjQueue
    /\ mutex_mobj' = "nobody" /\ mgr' = Resting
    /\ UNCHANGED <<rows, mobjQueue, mutex_slave, known, proc, load, slaves, told, bounds>>

-----------------------------------------------------------------------------
(* Faults *)

SlaveGone(s) ==
    /\ slv[s] # "down" /\ Fault("gone")
    /\ slv' = [slv EXCEPT ![s] = "down"] /\ held' = [held EXCEPT ![s] = {}]
    /\ UNCHANGED <<rows, mobjQueue, locks, known, proc, mgr, load, told>>

AttachedTo(s) == {o \in Obj : \E i \in DOMAIN mobjQueue :
    mobjQueue[i].id = o /\ mobjQueue[i].slave = s /\ mobjQueue[i].attach}

SlaveBack(s) ==
    /\ slv[s] = "down"
    /\ slv' = [slv EXCEPT ![s] = "fresh"]
    /\ unaware' = IF node[s] = "offline" THEN unaware ELSE unaware \cup AttachedTo(s)
    /\ UNCHANGED <<rows, mobjQueue, locks, known, proc, mgr, load, held, want, missed, bounds>>

\* masterProcess starts again, with the rows as they are now.
Started == pc' = "slaves" /\ todo' = Rows /\ job' = NoJob /\ mgr' = Resting /\ load' = Asleep

\* main has not restarted the process less than 300 s ago.
CrashMaster ==
    /\ Fault("crash") /\ Started
    /\ UNCHANGED <<rows, mobjQueue, locks, known, slaves, told>>

Reboot ==
    /\ Fault("reboot") /\ Started
    /\ mobjQueue' = <<>> /\ mutex_mobj' = "nobody" /\ mutex_slave' = "nobody"
    /\ node' = [s \in Slave |-> "new"] /\ slaveLoadOk' = FALSE
    /\ missed' = Obj \ Rows /\ unaware' = {}
    /\ UNCHANGED <<rows, slaves, want>>

-----------------------------------------------------------------------------
Job == slaveInitCB \/ objInitCB \/ mstartTask \/ addObj \/ checkDel \/ dbWrite \/ delObj
Load == \/ \E s \in Slave : LoadOnline(s) \/ LoadNothing(s) \/ LoadOffline(s)
        \/ LoadLock \/ LoadUnlock
Manager == OldSlave \/ dbUpdate \/ httpPost \/ ManagerUnlock
Failure == traverseFailed \/ dbWriteFailed \/ dbUpdateFailed \/ httpPostLost

Next == \/ \E op \in Ops, o \in Obj : Request(op, o)
        \/ Job \/ JobLock
        \/ Load \/ LoadDetach
        \/ Manager \/ ManagerLock \/ NewSlave
        \/ \E s \in Slave : SlaveGone(s) \/ SlaveBack(s)
        \/ Failure \/ CrashMaster \/ Reboot

Spec == Init /\ [][Next]_vars

\* Threads run, sem_wait is not passed over for ever, a machine comes back.
Fairness == /\ WF_vars(Job) /\ SF_vars(JobLock)
            /\ WF_vars(Load) /\ SF_vars(LoadDetach)
            /\ WF_vars(Manager) /\ SF_vars(ManagerLock) /\ SF_vars(NewSlave)
            /\ \A s \in Slave : WF_vars(SlaveBack(s))

FairSpec == Spec /\ Fairness

-----------------------------------------------------------------------------
(* Properties *)

TypeOK ==
    /\ rows \in [Obj -> Slave \cup {None, NoRow}]
    /\ mobjQueue \in Seq([id : Obj, slave : Slave \cup {None}, attach : BOOLEAN])
    /\ mutex_mobj \in {"nobody", "job", "manager"} /\ mutex_slave \in {"nobody", "load"}
    /\ node \in [Slave -> {"new", "usable", "offline"}] /\ slaveLoadOk \in BOOLEAN
    /\ pc \in {"slaves", "init", "run"} /\ todo \subseteq Obj
    /\ job \in {NoJob} \cup [op : {"init", "add", "del"}, id : Obj,
                             at : {"wait", "locked", "delete", "insert"}]
    /\ mgr \in [at : {"idle", "walk", "update", "post"}, i : Nat]
    /\ load \in [at : {"idle", "poll", "detach"}, ip : Slave \cup {None}, left : SUBSET Slave]
    /\ slv \in [Slave -> {"down", "fresh", "inited"}] /\ held \in [Slave -> SUBSET Obj]
    /\ want \in [Obj -> BOOLEAN] /\ missed \subseteq Obj /\ unaware \subseteq Obj

Adding(o) == job.op = "add" /\ job.id = o
Held(o) == \E s \in Slave : o \in held[s]

\* A running master has every object a user was told is there in its queue, for
\* after a crash of the process the queue is still there and after a reboot the
\* row is (master.cpp:155), whatever step they come at, whatever is added again
\* meanwhile and whichever call of the database fails.  It lacks only what had
\* no row when the machine started (db.cpp:258, 272) or could not be read then.
Complete == pc = "run" => \A o \in Obj : want[o] => InQueue(o) \/ o \in missed

\* An object a user was told is there has its row (db.cpp:258).
Kept == \A o \in Obj : want[o] => rows[o] # NoRow \/ Adding(o)

\* An object is on one slave at a time (master.cpp:765).
RunsOnce == \A s, t \in Slave : held[s] \cap held[t] # {} => s = t

\* A master has died with a semaphore, for which its successor waits until the
\* machine is rebooted.
Orphaned == \/ mutex_mobj = "job" /\ job.at # "locked"
            \/ mutex_mobj = "manager" /\ mgr.at = "idle"
            \/ mutex_slave = "load" /\ load.at = "idle"

\* The manager and the load thread wait for each other.
Deadlocked == /\ mutex_mobj = "manager" /\ Walking /\ Node.slave = None
              /\ mutex_slave = "load" /\ load.at = "detach"

\* The object is attached to a slave that is up and does not have it, since the
\* POST was lost or the slave has booted between two polls.
Mistaken(o) == o \in unaware /\ \E i \in DOMAIN mobjQueue : LET n == mobjQueue[i] IN
    /\ n.id = o /\ n.attach /\ slv[n.slave] # "down" /\ o \notin held[n.slave]
    /\ ~(mgr.at \in {"update", "post"} /\ mgr.i = i)

\* A rebooted master meets slaves that were initialised by the one before.
Unknown == \A s \in Slave : slv[s] = "inited" /\ node[s] # "usable"

\* An object a user was told is there comes to run, and again after every crash
\* of a slave or of the master and every reboot (master.cpp:834).  There are five
\* ways in which it does not, and no others: a semaphore nobody will release,
\* the deadlock, an attachment the slave does not know of, slaves the master does
\* not accept, and a row that is not there or was not read.
Starts == \A o \in Watched :
    want[o] ~> \/ ~want[o] \/ Held(o)
               \/ Orphaned \/ Deadlocked \/ Mistaken(o) \/ Unknown \/ o \in missed

\* ... and the fourth is one (README.md): a rebooted master uses its slaves again.
SlavesReturn == \A s \in Slave :
    slv[s] # "down" /\ slaveLoadOk ~> node[s] = "usable" \/ slv[s] = "down" \/ Orphaned

\* An object no request has added, or that was deleted, is not in the queue
\* (master.cpp:265).
NoGhost == \A o \in Obj : pc = "run" /\ InQueue(o) => want[o] \/ Adding(o)

\* An object that was deleted stops running (master.cpp:265).
Stops == \A o \in Obj : [](~want[o] => <>(want[o] \/ ~Held(o)))
=============================================================================
