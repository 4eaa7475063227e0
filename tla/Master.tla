------------------------------- MODULE Master --------------------------------
(***************************************************************************)
(* The master process of an aiotc cluster (src/src/master.cpp) with the    *)
(* slave machines it drives and the database it persists to.               *)
(*                                                                         *)
(* Three threads share masterParams:                                       *)
(*   slave_load_thread         polls every slave, holding mutex_slave      *)
(*                             across the HTTP calls; a slave that goes    *)
(*                             offline has its objects detached, which     *)
(*                             takes mutex_mobj inside mutex_slave;        *)
(*   master_objmanager_thread  walks mobjQueue holding mutex_mobj, gives   *)
(*                             every detached object a slave and posts it, *)
(*                             taking mutex_slave inside mutex_mobj;       *)
(*   master_restapi_thread     one libevent loop serving the operators'    *)
(*                             requests: memory first, then the database.  *)
(*                                                                         *)
(* A stretch of a thread between two points where another thread or a      *)
(* machine can matter (a sem_wait, an HTTP call, a decision whose inputs   *)
(* another thread writes) is one action.                                   *)
(***************************************************************************)
EXTENDS Naturals, Sequences, FiniteSets, SequencesExt, SlaveRest, LowestLoad

CONSTANTS Slave,        \* slave machines, named by their ip
          None,         \* no ip, no row
          NodeMax,      \* slaveParam nodes the shared-memory pool can hold
          OfflineWait,  \* the 120 s of slaveIsNormal, in ticks
          MasterObjMax, \* config.json "master"."objMax"
          DbSystem0,    \* the tables found by initMasterFromDB: a systemInit row?
          DbSlave0,     \* ... the slave rows, in cursor order
          DbObj0,       \* ... the obj rows, in cursor order
          Inited0,      \* slaves that run, already initialised, when the master starts
          RestOps,      \* the requests the operators send
          FastReboot,   \* may a machine be back before the master has seen it gone?
          MaxRest, MaxCrash, MaxLost  \* bounds: requests, crashes, lost messages

NULL == 0               \* the NULL pointer
Node == 1 .. NodeMax    \* addresses of slaveParam nodes
Pointer == Node \cup {NULL}

DbObjRow == [tasks : SUBSET Task, slave : Slave \cup {None}]

ASSUME MasterAssumption ==
    /\ None \notin Slave /\ None \notin DbObjRow
    /\ Slave # {}
    /\ NodeMax \in Nat
    /\ OfflineWait \in Nat \ {0}
    /\ MasterObjMax \in Nat
    /\ DbSystem0 \in BOOLEAN
    /\ DbSlave0 \in Seq(Slave) /\ Len(DbSlave0) <= NodeMax
    /\ DbObj0 \in Seq([id : Obj, tasks : SUBSET Task, slave : Slave \cup {None}])
    /\ Len(DbObj0) <= MasterObjMax
    \* dbWrite deletes the rows of the key before it inserts one
    /\ \A i, j \in DOMAIN DbSlave0 : DbSlave0[i] = DbSlave0[j] => i = j
    /\ \A i, j \in DOMAIN DbObj0 : DbObj0[i].id = DbObj0[j].id => i = j
    /\ Inited0 \subseteq Slave
    /\ FastReboot \in BOOLEAN
    /\ MaxRest \in Nat /\ MaxCrash \in Nat /\ MaxLost \in Nat

VARIABLES
    slaveQueue,    \* the slaveParam nodes linked in pMasterParams->slaveQueue
    sp,            \* contents of every slaveParam node
    mobjQueue,     \* the objParam nodes of pMasterParams->mobjQueue
    sysOrgData,    \* pSystemParams->sysOrgData != NULL
    slaveLoadOk,
    mutex_slave,   \* value of the semaphore
    mutex_mobj,
    lpc, lTodo, lAck,   \* slave_load_thread: place, nodes left, reply in hand
    mpc, mIdx, mPick,   \* master_objmanager_thread: place, node, slave chosen
    job,                \* master_restapi_thread: the database call still to make
    db,                 \* the database
    slv,                \* the machines
    nRest, nCrash, nLost

shm    == <<slaveQueue, sp, mobjQueue, sysOrgData, slaveLoadOk>>
load   == <<lpc, lTodo, lAck>>
mgr    == <<mpc, mIdx, mPick>>
rest   == <<job, nRest>>
world  == <<slv, nCrash, nLost>>
mutex  == <<mutex_slave, mutex_mobj>>
vars   == <<shm, mutex, load, mgr, rest, db, world>>

\* offline is 0 or the second the slave was seen offline; only the time since
\* matters, so k > 0 stands for k - 1 ticks, and the last value for "expired".
Expired == OfflineWait + 1

slaveParam == [ip : Slave, systemInit : BOOLEAN, load : Nat, online : BOOLEAN,
               offline : 0 .. Expired]

\* tasks are the flags in taskParams; orig those in originaldata, the body the
\* object was added with, which is what mobjManager posts.
objParam == [id : Obj, slave : Pointer, attach : BOOLEAN,
             tasks : SUBSET Task, orig : SUBSET Task]

Ack == [ok : BOOLEAN, init : BOOLEAN, load : Nat]
NoAck == [ok |-> FALSE, init |-> FALSE, load |-> 0]

NoJob == [op |-> "none"]
Job == {NoJob} \cup [op : {"system_init"}]
       \cup [op : {"slave_add", "slave_del"}, ip : Slave]
       \cup [op : {"obj_add"}, id : Obj, tasks : SUBSET Task]
       \cup [op : {"task"}, id : Obj, task : Task, on : BOOLEAN]

LoadPlace == {"idle", "poll", "ack", "detach", "init"}
ManagerPlace == {"idle", "scan", "keep", "drop", "attach", "post"}

Linked == {slaveQueue[i] : i \in DOMAIN slaveQueue}

\* initObjTask looks the row's slave up among the nodes just added.
NodeOf(ip) ==
    IF \E i \in DOMAIN DbSlave0 : DbSlave0[i] = ip
    THEN CHOOSE i \in DOMAIN DbSlave0 : DbSlave0[i] = ip
    ELSE NULL

FreshSlave(ip) == [ip |-> ip, systemInit |-> FALSE, load |-> 0,
                   online |-> FALSE, offline |-> 0]

DbRow0(id) ==
    IF \E i \in DOMAIN DbObj0 : DbObj0[i].id = id
    THEN LET i == CHOOSE i \in DOMAIN DbObj0 : DbObj0[i].id = id
         IN [tasks |-> DbObj0[i].tasks, slave |-> DbObj0[i].slave]
    ELSE None

(* initMasterFromDB into the empty shared memory of a fresh main process.   *)
Init ==
    /\ slaveQueue = [i \in 1 .. Len(DbSlave0) |-> i]
    /\ sp = [n \in Node |-> FreshSlave(IF n <= Len(DbSlave0) THEN DbSlave0[n]
                                       ELSE CHOOSE s \in Slave : TRUE)]
    /\ mobjQueue = [i \in 1 .. Len(DbObj0) |->
                       [id |-> DbObj0[i].id, slave |-> NodeOf(DbObj0[i].slave),
                        attach |-> FALSE, tasks |-> DbObj0[i].tasks,
                        orig |-> DbObj0[i].tasks]]
    /\ sysOrgData = DbSystem0
    /\ slaveLoadOk = FALSE
    /\ mutex_slave = 1 /\ mutex_mobj = 1
    /\ lpc = "idle" /\ lTodo = <<>> /\ lAck = NoAck
    /\ mpc = "idle" /\ mIdx = 1 /\ mPick = NULL
    /\ job = NoJob
    /\ db = [system |-> DbSystem0,
             slaves |-> {DbSlave0[i] : i \in DOMAIN DbSlave0},
             objs |-> [o \in Obj |-> DbRow0(o)]]
    /\ slv = [s \in Slave |-> [Booted EXCEPT !.systemInit = (s \in Inited0)]]
    /\ nRest = 0 /\ nCrash = 0 /\ nLost = 0

-----------------------------------------------------------------------------
(* HTTP.  A request to a machine that is down fails; one to a running       *)
(* machine may be lost, MaxLost times.                                      *)

Lose(ip) ==
    /\ UNCHANGED slv
    /\ IF slv[ip].up THEN nLost < MaxLost /\ nLost' = nLost + 1 ELSE UNCHANGED nLost

Deliver(ip, handled) ==
    /\ slv[ip].up
    /\ slv' = [slv EXCEPT ![ip] = handled]

-----------------------------------------------------------------------------
(* slave_load_thread *)

LoadLock ==
    /\ lpc = "idle"
    /\ mutex_slave = 1
    /\ mutex_slave' = 0
    /\ lpc' = "poll" /\ lTodo' = slaveQueue
    /\ UNCHANGED <<shm, mutex_mobj, lAck, mgr, rest, db, world>>

\* httpGet of /system/slave, answered with the machine's systemInit and load.
LoadPoll ==
    /\ lpc = "poll" /\ lTodo # <<>>
    /\ LET ip == sp[Head(lTodo)].ip
       IN \/ /\ slv[ip].up
             /\ lAck' = [ok |-> TRUE, init |-> slv[ip].systemInit,
                         load |-> MachineLoad(slv[ip])]
             /\ UNCHANGED <<slv, nLost>>
          \/ /\ Lose(ip)
             /\ lAck' = NoAck
    /\ lpc' = "ack"
    /\ UNCHANGED <<shm, mutex, lTodo, mgr, rest, db, nCrash>>

NextSlave == lpc' = "poll" /\ lTodo' = Tail(lTodo) /\ lAck' = NoAck

\* No reply from a slave not yet known to be offline: it is marked first, its
\* objects are detached once mutex_mobj is granted.
LoadOffline ==
    /\ lpc = "ack" /\ ~lAck.ok
    /\ sp[Head(lTodo)].offline = 0
    /\ sp' = [sp EXCEPT ![Head(lTodo)].offline = 1, ![Head(lTodo)].systemInit = FALSE]
    /\ lpc' = "detach"
    /\ UNCHANGED <<slaveQueue, mobjQueue, sysOrgData, slaveLoadOk, mutex, lTodo, lAck,
                   mgr, rest, db, world>>

LoadStillOffline ==
    /\ lpc = "ack" /\ ~lAck.ok
    /\ sp[Head(lTodo)].offline # 0
    /\ sp' = [sp EXCEPT ![Head(lTodo)].online = FALSE]
    /\ NextSlave
    /\ UNCHANGED <<slaveQueue, mobjQueue, sysOrgData, slaveLoadOk, mutex, mgr, rest, db, world>>

\* detachSlave goes by ip.  What an object's freed slave node holds is arbitrary.
Detached(o, ip) ==
    o.attach /\ o.slave # NULL /\ (o.slave \in Linked => sp[o.slave].ip = ip)

LoadDetach ==
    /\ lpc = "detach"
    /\ mutex_mobj = 1
    /\ LET ip == sp[Head(lTodo)].ip
           hit == {i \in DOMAIN mobjQueue : Detached(mobjQueue[i], ip)}
           sure == {i \in hit : mobjQueue[i].slave \in Linked}
       IN \E D \in SUBSET hit :
            /\ sure \subseteq D
            /\ mobjQueue' = [i \in DOMAIN mobjQueue |->
                                IF i \in D THEN [mobjQueue[i] EXCEPT !.attach = FALSE]
                                ELSE mobjQueue[i]]
    /\ sp' = [sp EXCEPT ![Head(lTodo)].online = FALSE]
    /\ NextSlave
    /\ UNCHANGED <<slaveQueue, sysOrgData, slaveLoadOk, mutex, mgr, rest, db, world>>

\* A reply with systemInit 0: the slave counts as online again, and gets the
\* system parameters if there are any.
LoadOnline ==
    /\ lpc = "ack" /\ lAck.ok /\ ~lAck.init
    /\ sp' = [sp EXCEPT ![Head(lTodo)].online = TRUE,
                        ![Head(lTodo)].offline = 0,
                        ![Head(lTodo)].load = IF sysOrgData THEN @ ELSE lAck.load]
    /\ IF sysOrgData THEN lpc' = "init" /\ UNCHANGED <<lTodo, lAck>> ELSE NextSlave
    /\ UNCHANGED <<slaveQueue, mobjQueue, sysOrgData, slaveLoadOk, mutex, mgr, rest, db, world>>

\* httpPost of /system/init; its outcome is not looked at.
LoadInit ==
    /\ lpc = "init"
    /\ LET n == Head(lTodo)
       IN /\ \/ Lose(sp[n].ip)
             \/ Deliver(sp[n].ip, request_system_init(slv[sp[n].ip])) /\ UNCHANGED nLost
          /\ sp' = [sp EXCEPT ![n].systemInit = TRUE, ![n].load = lAck.load]
    /\ NextSlave
    /\ UNCHANGED <<slaveQueue, mobjQueue, sysOrgData, slaveLoadOk, mutex, mgr, rest, db, nCrash>>

\* A reply with systemInit 1: only the load is taken from it.
LoadInited ==
    /\ lpc = "ack" /\ lAck.ok /\ lAck.init
    /\ sp' = [sp EXCEPT ![Head(lTodo)].load = lAck.load]
    /\ NextSlave
    /\ UNCHANGED <<slaveQueue, mobjQueue, sysOrgData, slaveLoadOk, mutex, mgr, rest, db, world>>

LoadUnlock ==
    /\ lpc = "poll" /\ lTodo = <<>>
    /\ mutex_slave' = 1
    /\ slaveLoadOk' = TRUE
    /\ lpc' = "idle"
    /\ UNCHANGED <<slaveQueue, sp, mobjQueue, sysOrgData, mutex_mobj, lTodo, lAck, mgr,
                   rest, db, world>>

slave_load_thread ==
    \/ LoadLock \/ LoadPoll \/ LoadOffline \/ LoadStillOffline \/ LoadDetach
    \/ LoadOnline \/ LoadInit \/ LoadInited \/ LoadUnlock

-----------------------------------------------------------------------------
(* master_objmanager_thread *)

ManagerLock ==
    /\ mpc = "idle" /\ slaveLoadOk
    /\ mutex_mobj = 1
    /\ mutex_mobj' = 0
    /\ mpc' = "scan" /\ mIdx' = 1
    /\ UNCHANGED <<shm, mutex_slave, load, mPick, rest, db, world>>

Scanning == mpc = "scan" /\ mIdx \in DOMAIN mobjQueue
Current == mobjQueue[mIdx]
NextObj == mpc' = "scan" /\ mIdx' = mIdx + 1 /\ mPick' = NULL

ManagerSkip ==
    /\ Scanning /\ Current.slave # NULL /\ Current.attach
    /\ NextObj
    /\ UNCHANGED <<shm, mutex, load, rest, db, world>>

\* Mutant: the old slave need not have its system parameters yet.
VerdictUninitialised(n) ==
    IF sp[n].offline = 0 /\ sp[n].load < SLAVE_LOAD_MAX THEN "keep"
    ELSE IF sp[n].offline \in 1 .. OfflineWait THEN "wait" ELSE "drop"

\* Mutant: the wait for an offline slave never ends.
VerdictPatient(n) ==
    IF sp[n].offline = 0 /\ sp[n].systemInit /\ sp[n].load < SLAVE_LOAD_MAX THEN "keep"
    ELSE IF sp[n].offline # 0 THEN "wait" ELSE "drop"

\* slaveIsNormal: "keep" for 1, "wait" for 0, "drop" for -1.
Verdict(n) ==
    IF sp[n].offline = 0 /\ sp[n].systemInit /\ sp[n].load < SLAVE_LOAD_MAX THEN "keep"
    ELSE IF sp[n].offline \in 1 .. OfflineWait THEN "wait" ELSE "drop"

\* The old slave's fields are read without mutex_slave.  A freed node yields any verdict.
slaveIsNormal ==
    /\ Scanning /\ Current.slave # NULL /\ ~Current.attach
    /\ \E v \in {"keep", "wait", "drop"} :
         /\ Current.slave \in Linked => v = Verdict(Current.slave)
         /\ IF v = "wait" THEN NextObj ELSE mpc' = v /\ UNCHANGED <<mIdx, mPick>>
    /\ UNCHANGED <<shm, mutex, load, rest, db, world>>

ManagerKeep ==
    /\ mpc = "keep"
    /\ mobjQueue' = [mobjQueue EXCEPT ![mIdx].attach = TRUE]
    /\ mpc' = "post"
    /\ UNCHANGED <<slaveQueue, sp, sysOrgData, slaveLoadOk, mutex, load, mIdx, mPick,
                   rest, db, world>>

ManagerDrop ==
    /\ mpc = "drop"
    /\ mobjQueue' = [mobjQueue EXCEPT ![mIdx].slave = NULL]
    /\ NextObj
    /\ UNCHANGED <<slaveQueue, sp, sysOrgData, slaveLoadOk, mutex, load, rest, db, world>>

\* The slaves as the scan of _getlowestLoadSlave sees them (module LowestScan).
Loads == [i \in DOMAIN slaveQueue |-> sp[slaveQueue[i]]]

getLowestLoadSlave ==
    /\ Scanning /\ Current.slave = NULL
    /\ mutex_slave = 1
    /\ \/ /\ \E i \in DOMAIN slaveQueue : IsLowest(Loads, i) /\ mPick' = slaveQueue[i]
          /\ mpc' = "attach" /\ UNCHANGED mIdx
       \/ /\ ~\E i \in DOMAIN slaveQueue : IsLowest(Loads, i)
          /\ NextObj
    /\ UNCHANGED <<shm, mutex, load, rest, db, world>>

\* Mutant: the name of the field is wrong, and no row has it.
RowWithSlaveNot(row, ip) == row

\* dbUpdate of original.slave.ip changes a row that exists and inserts none.
RowWithSlave(row, ip) == IF row = None THEN None ELSE [row EXCEPT !.slave = ip]

ManagerAttach ==
    /\ mpc = "attach"
    /\ mobjQueue' = [mobjQueue EXCEPT ![mIdx].slave = mPick, ![mIdx].attach = TRUE]
    /\ db' = [db EXCEPT !.objs[Current.id] = RowWithSlave(@, sp[mPick].ip)]
    /\ mpc' = "post"
    /\ UNCHANGED <<slaveQueue, sp, sysOrgData, slaveLoadOk, mutex, load, mIdx, mPick,
                   rest, world>>

\* httpPost of originaldata to /obj/add.  The reply carries the new load;
\* whether the object arrived is not looked at.
ManagerPost ==
    /\ mpc = "post"
    /\ LET n == Current.slave
           ip == sp[n].ip
           added == request_obj_add(slv[ip], Current.id, Current.orig)
       IN \/ /\ Deliver(ip, added)
             /\ sp' = [sp EXCEPT ![n].load = MachineLoad(added)]
             /\ UNCHANGED nLost
          \/ /\ Deliver(ip, added)
             /\ nLost < MaxLost /\ nLost' = nLost + 1  \* the reply is lost
             /\ UNCHANGED sp
          \/ Lose(ip) /\ UNCHANGED sp
          \/ n \notin Linked /\ UNCHANGED <<slv, nLost, sp>>  \* a freed node's address
    /\ NextObj
    /\ UNCHANGED <<slaveQueue, mobjQueue, sysOrgData, slaveLoadOk, mutex, load, rest, db, nCrash>>

\* Mutant: posts the wrong semaphore.
ManagerUnlockSlave ==
    /\ mpc = "scan" /\ mIdx \notin DOMAIN mobjQueue
    /\ mutex_slave' = mutex_slave + 1
    /\ mpc' = "idle" /\ mIdx' = 1
    /\ UNCHANGED <<shm, mutex_mobj, load, mPick, rest, db, world>>

ManagerUnlock ==
    /\ mpc = "scan" /\ mIdx \notin DOMAIN mobjQueue
    /\ mutex_mobj' = 1
    /\ mpc' = "idle" /\ mIdx' = 1
    /\ UNCHANGED <<shm, mutex_slave, load, mPick, rest, db, world>>

mobjManager ==
    \/ ManagerSkip \/ slaveIsNormal \/ ManagerKeep \/ ManagerDrop
    \/ getLowestLoadSlave \/ ManagerAttach \/ ManagerPost

master_objmanager_thread == ManagerLock \/ mobjManager \/ ManagerUnlock

-----------------------------------------------------------------------------
(* master_restapi_thread.  A handler's critical section contains nothing    *)
(* that blocks on another lock, so waiting for the semaphore, the section   *)
(* and the release are one action; the database call that follows is        *)
(* another.                                                                 *)

Request(op) == job = NoJob /\ op \in RestOps /\ nRest < MaxRest /\ nRest' = nRest + 1

master_request_system_init ==
    /\ Request("system_init")
    /\ sysOrgData' = TRUE
    /\ job' = [op |-> "system_init"]
    /\ UNCHANGED <<slaveQueue, sp, mobjQueue, slaveLoadOk, mutex, load, mgr, db, world>>

\* shmMalloc gives any free address.  putToShmQueue fails when there is none; the
\* row is written all the same.
master_request_slave_add(ip) ==
    /\ Request("slave_add")
    /\ mutex_slave = 1
    /\ \/ \E n \in Node \ Linked :
            /\ slaveQueue' = Append(slaveQueue, n)
            /\ sp' = [sp EXCEPT ![n] = FreshSlave(ip)]
       \/ Linked = Node /\ UNCHANGED <<slaveQueue, sp>>
    /\ job' = [op |-> "slave_add", ip |-> ip]
    /\ UNCHANGED <<mobjQueue, sysOrgData, slaveLoadOk, mutex, load, mgr, db, world>>

\* The node is unlinked and freed; objects keep their pointers to it.
master_request_slave_del(ip) ==
    /\ Request("slave_del")
    /\ mutex_slave = 1
    /\ LET at == {i \in DOMAIN slaveQueue : sp[slaveQueue[i]].ip = ip}
       IN IF at = {} THEN UNCHANGED slaveQueue
          ELSE slaveQueue' = RemoveAt(slaveQueue, CHOOSE i \in at : \A j \in at : i <= j)
    /\ job' = [op |-> "slave_del", ip |-> ip]
    /\ UNCHANGED <<sp, mobjQueue, sysOrgData, slaveLoadOk, mutex, load, mgr, db, world>>

\* addObj with max = masterObjMax.  Clients number their objects: an id already
\* in the queue is sent again only with "obj_add_again".
master_request_obj_add(id, tasks) ==
    /\ Request("obj_add")
    /\ HasObj(mobjQueue, id) => "obj_add_again" \in RestOps
    /\ mutex_mobj = 1
    /\ mobjQueue' = IF Len(mobjQueue) < MasterObjMax
                    THEN Append(mobjQueue, [id |-> id, slave |-> NULL, attach |-> FALSE,
                                            tasks |-> tasks, orig |-> tasks])
                    ELSE mobjQueue
    /\ job' = [op |-> "obj_add", id |-> id, tasks |-> tasks]
    /\ UNCHANGED <<slaveQueue, sp, sysOrgData, slaveLoadOk, mutex, load, mgr, db, world>>

\* Mutant: the node is unlinked without mutex_mobj.
obj_del_unlocked(id) ==
    /\ Request("obj_del")
    /\ \E i \in DOMAIN mobjQueue : IsFirst(mobjQueue, i, id)
                                  /\ mobjQueue' = RemoveAt(mobjQueue, i)
    /\ UNCHANGED <<slaveQueue, sp, sysOrgData, slaveLoadOk, mutex, load, mgr, job, db, world>>

\* delObj; neither the row nor the slave's copy is deleted.
master_request_obj_del(id) ==
    /\ Request("obj_del")
    /\ mutex_mobj = 1
    /\ \/ \E i \in DOMAIN mobjQueue : IsFirst(mobjQueue, i, id)
                                      /\ mobjQueue' = RemoveAt(mobjQueue, i)
       \/ ~HasObj(mobjQueue, id) /\ UNCHANGED mobjQueue
    /\ UNCHANGED <<slaveQueue, sp, sysOrgData, slaveLoadOk, mutex, load, mgr, job, db, world>>

\* The eight start/stop handlers of stream, preview, record and capture: the
\* request is passed on to the slave of an attached object, under mutex_mobj.
httpPostSlave(o, task, on) ==
    IF o.slave # NULL /\ o.attach
    THEN LET ip == sp[o.slave].ip
         IN \/ Deliver(ip, request_task(slv[ip], o.id, task, on)) /\ UNCHANGED nLost
            \/ Lose(ip)
            \/ o.slave \notin Linked /\ UNCHANGED <<slv, nLost>>
    ELSE UNCHANGED <<slv, nLost>>

master_request_task(id, task, on) ==
    /\ Request("task")
    /\ mutex_mobj = 1
    /\ \/ \E i \in DOMAIN mobjQueue :
            /\ IsFirst(mobjQueue, i, id)
            /\ httpPostSlave(mobjQueue[i], task, on)
            /\ mobjQueue' = [mobjQueue EXCEPT ![i].tasks = WithTask(@, task, on)]
       \/ ~HasObj(mobjQueue, id) /\ UNCHANGED <<mobjQueue, slv, nLost>>
    /\ job' = [op |-> "task", id |-> id, task |-> task, on |-> on]
    /\ UNCHANGED <<slaveQueue, sp, sysOrgData, slaveLoadOk, mutex, load, mgr, db, nCrash>>

\* Mutant: the stop handlers write 1 like the start handlers.
RowStarted(row, task, on) ==
    IF row = None THEN None ELSE [row EXCEPT !.tasks = WithTask(row.tasks, task, TRUE)]

\* dbWrite replaces the row of the key, dbUpdate changes one that exists.
RowWithTask(row, task, on) ==
    IF row = None THEN None ELSE [row EXCEPT !.tasks = WithTask(row.tasks, task, on)]

DbAfter(j) ==
    CASE j.op = "system_init" -> [db EXCEPT !.system = TRUE]
      [] j.op = "slave_add" -> [db EXCEPT !.slaves = @ \cup {j.ip}]
      [] j.op = "slave_del" -> [db EXCEPT !.slaves = @ \ {j.ip}]
      [] j.op = "obj_add" -> [db EXCEPT !.objs[j.id] = [tasks |-> j.tasks, slave |-> None]]
      [] j.op = "task" -> [db EXCEPT !.objs[j.id] = RowWithTask(@, j.task, j.on)]

RestDb ==
    /\ job # NoJob
    /\ db' = DbAfter(job)
    /\ job' = NoJob
    /\ UNCHANGED <<shm, mutex, load, mgr, nRest, world>>

master_restapi_thread ==
    \/ master_request_system_init
    \/ \E s \in Slave : master_request_slave_add(s) \/ master_request_slave_del(s)
    \/ \E o \in Obj : \/ \E ts \in SUBSET Task : master_request_obj_add(o, ts)
                      \/ master_request_obj_del(o)
                      \/ \E t \in Task, on \in BOOLEAN : master_request_task(o, t, on)
    \/ RestDb

-----------------------------------------------------------------------------
(* The machines and time *)

SlaveCrash(s) ==
    /\ slv[s].up
    /\ nCrash < MaxCrash /\ nCrash' = nCrash + 1
    /\ slv' = [slv EXCEPT ![s] = Crashed]
    /\ UNCHANGED <<shm, mutex, load, mgr, rest, db, nLost>>

\* The rest process of a machine quits and main starts it again.
RestRestart(s) ==
    /\ slv[s].up
    /\ nCrash < MaxCrash /\ nCrash' = nCrash + 1
    /\ slv' = [slv EXCEPT ![s] = RestRestarted(slv[s])]
    /\ UNCHANGED <<shm, mutex, load, mgr, rest, db, nLost>>

KnownOffline(s) == \A n \in Linked : sp[n].ip = s => sp[n].offline # 0

SlaveBoot(s) ==
    /\ ~slv[s].up
    /\ FastReboot \/ KnownOffline(s)
    /\ slv' = [slv EXCEPT ![s] = Booted]
    /\ UNCHANGED <<shm, mutex, load, mgr, rest, db, nCrash, nLost>>

Waiting == {n \in Node : sp[n].offline \in 1 .. OfflineWait}

Tick ==
    /\ Waiting # {}
    /\ sp' = [n \in Node |-> IF n \in Waiting THEN [sp[n] EXCEPT !.offline = @ + 1]
                             ELSE sp[n]]
    /\ UNCHANGED <<slaveQueue, mobjQueue, sysOrgData, slaveLoadOk, mutex, load, mgr, rest,
                   db, world>>

machines == (\E s \in Slave : SlaveCrash(s) \/ RestRestart(s) \/ SlaveBoot(s)) \/ Tick

Next == slave_load_thread \/ master_objmanager_thread \/ master_restapi_thread \/ machines

Spec == Init /\ [][Next]_vars

(* Both manager threads sleep 5 s between two rounds with their semaphore   *)
(* free, so a thread already waiting for it is granted it before they take  *)
(* it again.  Spec allows any overtaking; TimedSpec, used for liveness,     *)
(* does not.                                                                *)
WaitsForSlave == Scanning /\ Current.slave = NULL
WaitsForMobj == lpc = "detach"

Sleep ==
    /\ mpc = "idle" /\ mpc' # "idle" => ~WaitsForMobj
    /\ lpc = "idle" /\ lpc' # "idle" => ~WaitsForSlave

(* The threads run for ever and so does the clock; nothing makes a machine  *)
(* boot, a request arrive, or a message get lost.                           *)
Fairness ==
    /\ WF_vars(slave_load_thread /\ Sleep) /\ SF_vars(LoadLock /\ Sleep)
    /\ WF_vars(master_objmanager_thread /\ Sleep) /\ SF_vars(ManagerLock /\ Sleep)
    /\ WF_vars(RestDb)
    /\ WF_vars(Tick)

TimedSpec == Init /\ [][Next /\ Sleep]_vars /\ Fairness

-----------------------------------------------------------------------------
(* Properties *)

\* Every variable keeps its type: semaphores are 0 or 1, pointers are nodes.
TypeOK ==
    /\ slaveQueue \in Seq(Node) /\ sp \in [Node -> slaveParam]
    /\ mobjQueue \in Seq(objParam)
    /\ sysOrgData \in BOOLEAN /\ slaveLoadOk \in BOOLEAN
    /\ mutex_slave \in {0, 1} /\ mutex_mobj \in {0, 1}
    /\ lpc \in LoadPlace /\ lTodo \in Seq(Node) /\ lAck \in Ack
    /\ mpc \in ManagerPlace /\ mIdx \in Nat \ {0} /\ mPick \in Pointer
    /\ job \in Job
    /\ db \in [system : BOOLEAN, slaves : SUBSET Slave, objs : [Obj -> DbObjRow \cup {None}]]
    /\ slv \in [Slave -> Machine]
    /\ nRest \in Nat /\ nCrash \in Nat /\ nLost \in Nat

Healthy(n) == sp[n].systemInit /\ sp[n].offline = 0

\* The load thread has marked the slave with node n's ip and waits to detach it.
BeingDetached(n) == lpc = "detach" /\ sp[Head(lTodo)].ip = sp[n].ip

\* No object stays attached to a slave the master has marked offline: at every
\* moment an attached object's slave is initialised and not offline, or
\* slave_load_thread is in detachSlave for it (master.cpp, slaveLoad against
\* mobjManager: the mark is made under mutex_slave only, the attachment under
\* mutex_mobj only).
AttachedHealthy ==
    \A i \in DOMAIN mobjQueue : mobjQueue[i].attach =>
        /\ mobjQueue[i].slave # NULL
        /\ Healthy(mobjQueue[i].slave) \/ BeingDetached(mobjQueue[i].slave)

\* Memory and database agree on which tasks an object has: unless its write is
\* still pending in the REST thread, an object the master manages has a row,
\* and the row holds its task flags (handlers write memory first, under
\* mutex_mobj, and the database after the release).
DbTasksMatch ==
    \A i \in DOMAIN mobjQueue :
        LET o == mobjQueue[i]
        IN (job.op \in {"obj_add", "task"} => job.id # o.id) =>
              /\ db.objs[o.id] # None
              /\ db.objs[o.id].tasks = o.tasks

\* Why AttachedHealthy holds, as an inductive invariant in three parts.  Where
\* each thread is says which semaphore it holds and that it has a node in hand;
ControlInv ==
    /\ TypeOK
    /\ lpc # "idle" => mutex_slave = 0
    /\ mpc # "idle" => mutex_mobj = 0
    /\ lpc \in {"ack", "detach", "init"} => lTodo # <<>>
    /\ mpc \in {"keep", "drop", "attach", "post"} => mIdx \in DOMAIN mobjQueue
    /\ mpc \in {"keep", "drop", "post"} => Current.slave # NULL
    /\ mpc = "attach" => mPick # NULL

\* ... a node in use is linked, and an initialised slave is not offline, nor is
\* one about to be initialised;
NodesInv ==
    /\ \A i \in DOMAIN mobjQueue : mobjQueue[i].slave \in Linked \cup {NULL}
    /\ mpc = "attach" => mPick \in Linked
    /\ \A n \in Node : sp[n].systemInit => sp[n].offline = 0
    /\ lpc = "init" => sp[Head(lTodo)].offline = 0

\* ... and a slave about to be attached is fit, or the load thread is already
\* waiting for mutex_mobj, which the manager holds, to detach what gets attached.
GrantInv ==
    /\ AttachedHealthy
    /\ mpc = "keep" => Healthy(Current.slave) \/ BeingDetached(Current.slave)
    /\ mpc = "drop" => ~Current.attach
    /\ mpc = "attach" => Healthy(mPick) \/ BeingDetached(mPick)

AttachedInv == ControlInv /\ NodesInv /\ GrantInv

RunsSomewhere(o) == \E s \in Slave : Runs(slv[s], o)

\* Failover: an object the master manages never stops running for good; after
\* a slave crashes its objects are detached, wait, and are posted again, to the
\* old slave or to another (slaveLoad, mobjManager).
Failover == \A o \in Obj : [](HasObj(mobjQueue, o) => <>RunsSomewhere(o))

\* master.cpp:737, "an offline slave is waited for a certain time; if it is not
\* online by then its objects are reassigned": objects of a slave that stays
\* down for ever do not stay attached to it.
OfflineReassigned ==
    \A s \in Slave :
        <>[](~slv[s].up) =>
            <>[](\A i \in DOMAIN mobjQueue :
                    mobjQueue[i].attach => sp[mobjQueue[i].slave].ip # s)

\* master.cpp:737-738, the wait and "the old slave is preferred if it has spare
\* load": mobjManager takes an object from its slave only when the slave's wait
\* has expired or the slave is loaded to the limit.
DropOnlyAfterWait ==
    [][\A i \in DOMAIN mobjQueue :
          mpc = "drop" /\ mIdx = i /\ mobjQueue' # mobjQueue =>
              LET n == mobjQueue[i].slave
              IN sp[n].offline = Expired \/ sp[n].load >= SLAVE_LOAD_MAX]_vars

\* master.cpp:737, "if it is not online by then": a slave that runs for ever,
\* with no message lost any more, is online for the master in the end (nLost
\* only grows up to MaxLost, so the losses do end).
UpSlaveOnline ==
    \A s \in Slave :
        <>[](slv[s].up) => <>[](\A n \in Linked : sp[n].ip = s => sp[n].online)

\* README, "parameters are kept in the database; RESTful is called once and the
\* tasks run again by themselves after a restart": an object that keeps a task
\* does not lose it for ever, once all machines stay up.
TasksFollow ==
    \A o \in Obj, t \in Task :
        <>[](/\ \A s \in Slave : slv[s].up
             /\ \E i \in DOMAIN mobjQueue : mobjQueue[i].id = o /\ t \in mobjQueue[i].tasks)
            => []<>(\E s \in Slave : RunsTask(slv[s], o, t))

\* README, the same sentence: the row of an object attached to a slave names
\* that slave, so that a restarted master finds it again.
DbKnowsSlave ==
    mpc = "idle" /\ job = NoJob =>
        \A i \in DOMAIN mobjQueue : mobjQueue[i].attach =>
            db.objs[mobjQueue[i].id].slave = sp[mobjQueue[i].slave].ip

\* pids.cpp:43, "dynamic stop and del commands need resource synchronisation":
\* no object of the queue points to a slave node that /system/slave/del freed.
NoDanglingSlave ==
    \A i \in DOMAIN mobjQueue : mobjQueue[i].slave \in Linked \cup {NULL}
=============================================================================
