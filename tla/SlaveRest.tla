------------------------------ MODULE SlaveRest ------------------------------
(***************************************************************************)
(* The slave side of the cluster: what the REST server of a slave machine  *)
(* (rest.cpp) does to that machine's shared memory.  The server is one     *)
(* libevent loop and every handler takes mutex_obj around its queue work,  *)
(* so a handler is one atomic operator from a machine state to the next.   *)
(*                                                                         *)
(* A machine is the record [up, systemInit, objs]: objs is the objQueue of *)
(* the machine, a sequence because the handlers act on the FIRST node with *)
(* a given id and addObj (misc.cpp) never looks for a duplicate.           *)
(***************************************************************************)
EXTENDS Naturals, Sequences

CONSTANTS Obj,          \* ids of the objects (cameras)
          Task,         \* kinds of task flag: stream, preview, record, capture
          SlaveObjMax   \* config.json "slave"."objMax"

ASSUME SlaveObjMaxAssumption == SlaveObjMax \in Nat \ {0}

\* The part of an objParam the master and the operators can tell apart.
SlaveObj == [id : Obj, tasks : SUBSET Task]

Machine == [up : BOOLEAN, systemInit : BOOLEAN, objs : Seq(SlaveObj)]

\* i is the first node of queue q with this id: what searchFromQueue finds
\* and delFromQueue unlinks under conditionByObjId.
IsFirst(q, i, id) ==
    /\ i \in DOMAIN q
    /\ q[i].id = id
    /\ \A j \in 1 .. i - 1 : q[j].id # id

HasObj(q, id) == \E i \in DOMAIN q : q[i].id = id

\* A machine whose main process has just started: empty shared memory.
Booted == [up |-> TRUE, systemInit |-> FALSE, objs |-> <<>>]

Crashed == [up |-> FALSE, systemInit |-> FALSE, objs |-> <<>>]

\* restProcess: main restarts a dead rest process; the queue is in shared memory.
RestRestarted(sv) == [sv EXCEPT !.systemInit = FALSE]

request_system_init(sv) == [sv EXCEPT !.systemInit = TRUE]

\* pSlaveParams->load as request_system_status and request_obj_add compute it.
MachineLoad(sv) == (Len(sv.objs) * 100) \div SlaveObjMax

\* addObj with max = slaveObjMax: a full queue drops the object silently, and
\* the reply is "success" either way.
request_obj_add(sv, id, tasks) ==
    IF Len(sv.objs) < SlaveObjMax
    THEN [sv EXCEPT !.objs = Append(@, [id |-> id, tasks |-> tasks])]
    ELSE sv

WithTask(tasks, task, on) == IF on THEN tasks \cup {task} ELSE tasks \ {task}

\* The /obj/{stream,preview,record,capture}/{start,stop} handlers.
request_task(sv, id, task, on) ==
    LET changed(o) == [o EXCEPT !.tasks = WithTask(o.tasks, task, on)]
    IN [sv EXCEPT !.objs =
           [i \in DOMAIN sv.objs |->
               IF IsFirst(sv.objs, i, id) THEN changed(sv.objs[i]) ELSE sv.objs[i]]]

Runs(sv, id) == sv.up /\ HasObj(sv.objs, id)

RunsTask(sv, id, task) ==
    sv.up /\ \E i \in DOMAIN sv.objs : sv.objs[i].id = id /\ task \in sv.objs[i].tasks
=============================================================================
