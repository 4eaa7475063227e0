------------------------------ MODULE AlgTask ------------------------------
(***************************************************************************)
(* The algorithms of an object: /task/start and /task/stop at the master,  *)
(* which keeps them in the object's algQueue and in the array task.alg of  *)
(* its row and posts the request on to the object's slave, which keeps an  *)
(* algQueue of its own.  Nothing reads these queues at this commit (the    *)
(* start of the algorithm processes is under if(0)); the model is about    *)
(* the three lists and how far they agree.                                 *)
(*                                                                         *)
(* Nodes of one name in an algQueue are alike, so a list is how many of    *)
(* every name it has.  The objects have their rows from the start.  There  *)
(* is one slave; how slaves are chosen and polled is in module Master, how *)
(* the master's queue is filled after a restart in MasterRestart.          *)
(***************************************************************************)
EXTENDS Naturals, Sequences, FiniteSets, Functions

CONSTANTS Obj, Alg,
          AlgMax,                \* 100 in addAlg
          Faults,                \* kinds of fault that happen
          RequestMax, FaultMax   \* bounds

ASSUME AlgAssumption ==
    /\ {AlgMax, RequestMax, FaultMax} \subseteq Nat
    /\ Faults \subseteq {"crash", "reboot", "down", "glitch", "timeout", "fail"}

VARIABLES rowAlgs,    \* task.alg of every row
          nodes,      \* attachSlave of an object's nodes in mobjQueue, in order
          algQueue,   \* list of the first of them
          slaveAlgs,  \* list of the slave's first node of an object
          slaveObjs,  \* objects of the slave
          slaveUp,
          late,       \* POSTs given up by the master that the slave may yet read
          req,        \* request of the REST thread
          stuck,      \* a master died with mutex_mobj
          \* histories
          unwritten,  \* entries of algQueue that the row does not stand for
          lapsed,     \* <<o, a>> of a row that algQueue has lost
          ahead,      \* entries the slave may have beyond algQueue
          requests, faults

bounds == <<requests, faults>>
slave == <<slaveAlgs, slaveObjs, slaveUp, late>>
history == <<unwritten, lapsed, ahead>>
vars == <<rowAlgs, nodes, algQueue, slave, req, stuck, history, bounds>>

NoReq == [op |-> "none", at |-> "none", got |-> FALSE]
Zero == [o \in Obj |-> [a \in Alg |-> 0]]

Init ==
    /\ rowAlgs = [o \in Obj |-> {}] /\ nodes = [o \in Obj |-> <<FALSE>>]
    /\ algQueue = Zero
    /\ slaveAlgs = Zero /\ slaveObjs = {} /\ slaveUp = TRUE /\ late = {}
    /\ req = NoReq /\ stuck = FALSE
    /\ unwritten = Zero /\ lapsed = {} /\ ahead = Zero
    /\ requests = 0 /\ faults = 0

Fault(kind) == kind \in Faults /\ faults < FaultMax /\ faults' = faults + 1
NoFault == faults' = faults

-----------------------------------------------------------------------------
(* The lists *)

Inc(q, o, a) == [q EXCEPT ![o] = [q[o] EXCEPT ![a] = @ + 1]]
Dec(q, o, a) == [q EXCEPT ![o] = [q[o] EXCEPT ![a] = @ - 1]]

Full(list) == SumFunction(list) >= AlgMax

Put(q, o, a) == IF Full(q[o]) THEN q ELSE Inc(q, o, a)
Del(q, o, a) == IF q[o][a] > 0 THEN Dec(q, o, a) ELSE q

\* attachSlave of the node that searchFromQueue finds.
Attached(o) == nodes[o] # <<>> /\ Head(nodes[o])

\* Mutant: a stop is not posted on (argc not set).
PostedStarts(o) == req.op = "start" /\ Attached(o) /\ slaveUp /\ o \in slaveObjs

\* httpPostSlave; the slave's handler ignores an object it does not have.
Posted(o) == Attached(o) /\ slaveUp /\ o \in slaveObjs

\* The row stands for an entry of the queue.
Live(o, a) == a \in rowAlgs[o] /\ <<o, a>> \notin lapsed

\* What the slave has or may yet get.
Due(o, a) == slaveAlgs[o][a] + (IF <<"start", o, a>> \in late THEN 1 ELSE 0)
AllDue(o) == [a \in Alg |-> Due(o, a)]

-----------------------------------------------------------------------------
(* Start and stop at the master's REST thread *)

Idle == req = NoReq /\ ~stuck /\ requests < RequestMax /\ requests' = requests + 1

Arrive ==
    /\ Idle
    /\ \E op \in {"start", "stop"}, o \in Obj, a \in Alg :
         req' = [op |-> op, o |-> o, a |-> a, at |-> "begin", got |-> FALSE]
    /\ NoFault
    /\ UNCHANGED <<rowAlgs, nodes, algQueue, slave, stuck, history>>

\* Mutant: nobody looks.
ExsitNever(a) == FALSE

\* The row of whatever object.
dbExsit(a) == \E o \in Obj : a \in rowAlgs[o]

At(op, at) == req.op = op /\ req.at = at

StartIgnored ==
    /\ At("start", "begin") /\ dbExsit(req.a)
    /\ req' = NoReq
    /\ UNCHANGED <<rowAlgs, nodes, algQueue, slave, stuck, history, bounds>>

\* With the object's node found the POST comes next, under mutex_mobj.
Listed(got) ==
    req' = [req EXCEPT !.at = IF nodes[req.o] = <<>> THEN "row" ELSE "post", !.got = got]

addAlg ==
    LET got == nodes[req.o] # <<>> /\ ~Full(algQueue[req.o])
    IN  /\ algQueue' = IF got THEN Inc(algQueue, req.o, req.a) ELSE algQueue
        /\ Listed(got)
        /\ UNCHANGED <<rowAlgs, nodes, slave, stuck, lapsed, ahead, requests>>

StartNew ==
    /\ At("start", "begin") /\ ~dbExsit(req.a)
    /\ addAlg
    /\ NoFault /\ UNCHANGED unwritten

\* A query that fails finds nothing.
StartAgain ==
    /\ At("start", "begin") /\ dbExsit(req.a) /\ Fault("fail")
    /\ addAlg
    /\ unwritten' = IF req'.got /\ Live(req.o, req.a)
                    THEN Inc(unwritten, req.o, req.a) ELSE unwritten

delAlg ==
    /\ At("stop", "begin")
    /\ algQueue' = Del(algQueue, req.o, req.a)
    /\ Listed(algQueue[req.o][req.a] > 0)
    /\ UNCHANGED <<rowAlgs, nodes, slave, stuck, history, bounds>>

Handled(op, o, a) ==
    slaveAlgs' = IF op = "start" THEN Put(slaveAlgs, o, a) ELSE Del(slaveAlgs, o, a)

\* Why the slave may be left with an entry more: it takes what the queue had no
\* room for, the stop is not for it because its attachSlave is 0, or the stop
\* overtakes a start that timed out.
OneAhead ==
    \/ req.op = "start" /\ ~req.got
    \/ req.op = "stop" /\ req.got /\ ~Attached(req.o) /\ req.o \in slaveObjs
    \/ req.op = "stop" /\ req.got /\ <<"start", req.o, req.a>> \in late

httpPost ==
    /\ req.at = "post" /\ ~stuck
    /\ IF Posted(req.o) THEN Handled(req.op, req.o, req.a) ELSE UNCHANGED slaveAlgs
    /\ ahead' = IF OneAhead THEN Inc(ahead, req.o, req.a) ELSE ahead
    /\ req' = [req EXCEPT !.at = "row"]
    /\ UNCHANGED <<rowAlgs, nodes, algQueue, slaveObjs, slaveUp, late, stuck,
                   unwritten, lapsed, bounds>>

\* Not answered in three seconds, which nobody notices.
httpPostTimeout ==
    /\ req.at = "post" /\ ~stuck /\ Posted(req.o) /\ Fault("timeout")
    /\ late' = late \cup {<<req.op, req.o, req.a>>}
    /\ ahead' = IF req.got <=> req.op = "stop" THEN Inc(ahead, req.o, req.a) ELSE ahead
    /\ req' = [req EXCEPT !.at = "row"]
    /\ UNCHANGED <<rowAlgs, nodes, algQueue, slaveAlgs, slaveObjs, slaveUp,
                   stuck, unwritten, lapsed, requests>>

dbPush ==
    /\ At("start", "row")
    /\ rowAlgs' = [rowAlgs EXCEPT ![req.o] = @ \cup {req.a}]
    /\ lapsed' = CASE req.got -> lapsed \ {<<req.o, req.a>>}
                   [] ~req.got /\ req.a \in rowAlgs[req.o] -> lapsed
                   [] OTHER -> lapsed \cup {<<req.o, req.a>>}
    /\ req' = NoReq
    /\ UNCHANGED <<nodes, algQueue, slave, stuck, unwritten, ahead, bounds>>

\* Mutant: $pull with the id of another object.
PulledNot == rowAlgs

Pulled == [rowAlgs EXCEPT ![req.o] = @ \ {req.a}]

dbPull ==
    /\ At("stop", "row")
    /\ rowAlgs' = Pulled
    /\ unwritten' = IF req.got /\ ~Live(req.o, req.a)
                    THEN Dec(unwritten, req.o, req.a) ELSE unwritten
    /\ lapsed' = lapsed \ {<<req.o, req.a>>}
    /\ req' = NoReq
    /\ UNCHANGED <<nodes, algQueue, slave, stuck, ahead, bounds>>

\* The list was changed and the row is not.
Cut ==
    /\ unwritten' = CASE req.op = "start" /\ req.got /\ ~Live(req.o, req.a) ->
                             Inc(unwritten, req.o, req.a)
                      [] req.op = "stop" /\ req.got /\ ~Live(req.o, req.a) ->
                             Dec(unwritten, req.o, req.a)
                      [] OTHER -> unwritten
    /\ lapsed' = IF req.op = "stop" /\ req.got /\ Live(req.o, req.a)
                 THEN lapsed \cup {<<req.o, req.a>>} ELSE lapsed
    /\ req' = NoReq

dbUpdateFailed ==
    /\ req.at = "row" /\ Fault("fail")
    /\ Cut
    /\ UNCHANGED <<rowAlgs, nodes, algQueue, slave, stuck, ahead, requests>>

-----------------------------------------------------------------------------
(* Adding an object again, and deleting it *)

\* One more node, and a row without algorithms instead of the old one.
objAdd(o) ==
    /\ Idle
    /\ nodes' = [nodes EXCEPT ![o] = Append(@, FALSE)]
    /\ rowAlgs' = [rowAlgs EXCEPT ![o] = {}]
    /\ unwritten' = [unwritten EXCEPT ![o] =
                        [a \in Alg |-> @[a] + (IF Live(o, a) THEN 1 ELSE 0)]]
    /\ lapsed' = {p \in lapsed : p[1] # o}
    /\ NoFault
    /\ UNCHANGED <<algQueue, slave, req, stuck, ahead>>

\* The first node with its list; the row stays, and the slave is not told.
objDel(o) ==
    /\ Idle /\ nodes[o] # <<>>
    /\ nodes' = [nodes EXCEPT ![o] = Tail(@)]
    /\ algQueue' = [algQueue EXCEPT ![o] = Zero[o]]
    /\ unwritten' = [unwritten EXCEPT ![o] = Zero[o]]
    /\ lapsed' = lapsed \cup ({o} \X rowAlgs[o])
    /\ ahead' = [ahead EXCEPT ![o] = AllDue(o)]
    /\ NoFault
    /\ UNCHANGED <<rowAlgs, slave, req, stuck>>

-----------------------------------------------------------------------------
(* The manager and the slave *)

\* mutex_mobj is free.
Unlocked == ~stuck /\ req.at # "post"

\* attachSlave is 1 whether the POST arrives or not; the body is originaldata,
\* which has no algorithms.
mobjManager ==
    /\ Unlocked /\ slaveUp
    /\ \E o \in Obj : \E i \in DOMAIN nodes[o] :
         /\ ~nodes[o][i]
         /\ nodes' = [nodes EXCEPT ![o] = [@ EXCEPT ![i] = TRUE]]
         /\ \/ slaveObjs' = slaveObjs \cup {o} /\ NoFault
            \/ slaveObjs' = slaveObjs /\ Fault("timeout")
    /\ UNCHANGED <<rowAlgs, algQueue, slaveAlgs, slaveUp, late, req, stuck,
                   history, requests>>

Detached == [o \in Obj |-> [i \in DOMAIN nodes[o] |-> FALSE]]

SlaveDown ==
    /\ slaveUp /\ Fault("down")
    /\ slaveUp' = FALSE /\ slaveObjs' = {} /\ slaveAlgs' = Zero /\ late' = {}
    /\ ahead' = Zero
    /\ UNCHANGED <<rowAlgs, nodes, algQueue, req, stuck, unwritten, lapsed, requests>>

SlaveOffline ==
    /\ ~slaveUp /\ Unlocked /\ nodes' = Detached
    /\ UNCHANGED <<rowAlgs, algQueue, slave, req, stuck, history, bounds>>

SlaveBoot ==
    /\ ~slaveUp /\ slaveUp' = TRUE
    /\ UNCHANGED <<rowAlgs, nodes, algQueue, slaveAlgs, slaveObjs, late, req, stuck,
                   history, bounds>>

\* A poll that is not answered in time.
Glitch ==
    /\ slaveUp /\ Unlocked /\ Fault("glitch") /\ nodes' = Detached
    /\ UNCHANGED <<rowAlgs, algQueue, slave, req, stuck, history, requests>>

\* The slave reads a POST its master has given up.
SlaveLate ==
    /\ \E p \in late : late' = late \ {p} /\ Handled(p[1], p[2], p[3])
    /\ UNCHANGED <<rowAlgs, nodes, algQueue, slaveObjs, slaveUp, req, stuck,
                   history, bounds>>

-----------------------------------------------------------------------------
(* The master's process and machine *)

\* The process dies, and its successor adds a node for every row to the queue it
\* finds; or it hangs, if the dead one had mutex_mobj.
CrashMaster ==
    /\ ~stuck /\ Fault("crash")
    /\ \/ /\ req.at # "post"
          /\ nodes' = [o \in Obj |-> Append(nodes[o], FALSE)] /\ stuck' = FALSE
       \/ nodes' = nodes /\ stuck' = TRUE
    /\ Cut
    /\ ahead' = IF req.at = "post" /\ req.op = "stop" /\ req.got
                THEN Inc(ahead, req.o, req.a) ELSE ahead
    /\ UNCHANGED <<rowAlgs, algQueue, slave, requests>>

\* The machine of the master; initObjTask reads no algorithms from the row.
Reboot ==
    /\ Fault("reboot")
    /\ nodes' = [o \in Obj |-> <<FALSE>>] /\ algQueue' = Zero
    /\ req' = NoReq /\ stuck' = FALSE
    /\ unwritten' = Zero
    /\ lapsed' = UNION {{o} \X rowAlgs[o] : o \in Obj}
    /\ ahead' = [o \in Obj |-> AllDue(o)]
    /\ UNCHANGED <<rowAlgs, slave, requests>>

-----------------------------------------------------------------------------
Start == StartIgnored \/ StartNew \/ dbPush
Stop == delAlg \/ dbPull
Object == \E o \in Obj : objAdd(o) \/ objDel(o)
Slave == SlaveDown \/ SlaveOffline \/ SlaveBoot \/ Glitch \/ SlaveLate
Failure == StartAgain \/ httpPostTimeout \/ dbUpdateFailed \/ CrashMaster \/ Reboot

Next == Arrive \/ Start \/ Stop \/ httpPost \/ Object \/ mobjManager
        \/ Slave \/ Failure

Spec == Init /\ [][Next]_vars

\* The threads of the master run, and a machine boots.
Fairness == /\ WF_vars(Start) /\ WF_vars(Stop) /\ WF_vars(httpPost)
            /\ WF_vars(mobjManager) /\ WF_vars(SlaveBoot)

FairSpec == Spec /\ Fairness

-----------------------------------------------------------------------------
(* Properties *)

Lists == [Obj -> [Alg -> Nat]]

TypeOK ==
    /\ rowAlgs \in [Obj -> SUBSET Alg] /\ nodes \in [Obj -> Seq(BOOLEAN)]
    /\ {algQueue, slaveAlgs, unwritten, ahead} \subseteq Lists
    /\ slaveObjs \subseteq Obj /\ slaveUp \in BOOLEAN /\ stuck \in BOOLEAN
    /\ late \subseteq {"start", "stop"} \X Obj \X Alg /\ lapsed \subseteq Obj \X Alg
    /\ req \in {NoReq} \cup [op : {"start", "stop"}, o : Obj, a : Alg,
                             at : {"begin", "post", "row"}, got : BOOLEAN]

\* Between two requests the master has an algorithm of an object at most once if
\* it is in the row and not at all otherwise (master.cpp:500, 510), but for one
\* entry more for every start that a crash or the database cut off before its
\* $push or that was let in by a query that failed, and for what was in a row that
\* /obj/add replaced.  Whatever fails, repeats and reboots, nothing else adds up.
QueueInRow == req = NoReq =>
    \A o \in Obj, a \in Alg :
       algQueue[o][a] <= unwritten[o][a] + (IF a \in rowAlgs[o] THEN 1 ELSE 0)

\* ... and it has all of the row (master.cpp:538) but what the queue had no room
\* or no object for, what a stop cut off before its $pull has left there, and what
\* the row had when the object was deleted or the machine rebooted.
RowsMatch == req = NoReq =>
    \A o \in Obj : \A a \in rowAlgs[o] : algQueue[o][a] > 0 \/ <<o, a>> \in lapsed

\* The slave has no more of an algorithm than the master (misc.cpp:348) but for
\* one entry more for every stop that timed out, that was cut off by a crash or
\* that came while the slave was taken for detached, for every start the master
\* had no room for, and for what it had when the object was deleted at the master
\* or the master's machine rebooted.  Its death ends it all.
SlaveSubset == req.at # "post" =>
    \A o \in Obj, a \in Alg : slaveAlgs[o][a] <= algQueue[o][a] + ahead[o][a]

\* A start that is ignored is for an algorithm the object has (master.cpp:501).
IgnoredIsThere == [][StartIgnored => algQueue[req.o][req.a] > 0]_vars

\* An algorithm that is in the row comes to run at the slave (misc.cpp:305).
AlgRuns == \A o \in Obj, a \in Alg :
    [](a \in rowAlgs[o] => <>(a \notin rowAlgs[o] \/ slaveAlgs[o][a] > 0))
=============================================================================
