------------------------------ MODULE ObjTask ------------------------------
(***************************************************************************)
(* The object tasks of a slave machine: the object manager thread of main  *)
(* gives an enabled object whose beat is late to a process (objManager,    *)
(* getEmptyProc), and the two beat threads of the process (ProcBeat every  *)
(* 5 s, TaskBeat every second) keep its beat, start and stop its stream    *)
(* and let it go when it is disabled.  One kind of task is modelled at a   *)
(* time: live streams, whose TaskBeat starts them again after 30 s without *)
(* a frame (rtsp.cpp), or captures and previews, whose TaskBeat does not   *)
(* (gat1400.cpp, preview.cpp).                                             *)
(***************************************************************************)
EXTENDS Integers, Sequences, FiniteSets, SequencesExt

CONSTANTS Object,      \* object ids
          ProcMax,     \* processes that may be created
          TaskMax,     \* room in the queue of a process
          Live,        \* live streams, or captures and previews
          MaxRequest,  \* bound on requests
          MaxCrash,    \* bound on crashes
          Crashes,     \* which crashes happen, see Crash
          Slow,        \* a start or stop may take longer than 20 s
          DelRunning   \* an object may be deleted while a process has it

ASSUME ObjTaskAssumption ==
    /\ ProcMax \in Nat /\ TaskMax \in Nat \ {0} /\ MaxRequest \in Nat
    /\ MaxCrash \in Nat /\ Crashes \subseteq {"idle", "playing", "locked"}
    /\ {Live, Slow, DelRunning} \subseteq BOOLEAN

VARIABLES objQueue,  \* objects of the machine, those whose taskParams exist
          on,        \* taskParams.livestream
          late,      \* liveBeat is 0 or more than 20 s old
          tbeat,     \* liveTaskBeat: "zero", "fresh", or "late" by 30 s
          args,      \* liveArgs: NULL or the process life it was allocated in
          state,     \* processes in the order of pidQueue
          que,       \* pobjQueue of each process
          inited,    \* taskMax of the process is set
          life,      \* how often the process was started
          beat,      \* what its TaskBeat thread is in, holding mutex_pobj
          leaked,    \* it died holding mutex_pobj
          playing,   \* process lives in which the object's stream runs
          mpc, todo, mo, mp,  \* the manager: place, objects left, the one in
                              \* hand and the process looked at
          requests, crashes

tasks == <<objQueue, on, late, tbeat, args, playing>>
procs == <<state, que, inited, life, beat, leaked>>
manager == <<mpc, todo, mo, mp>>
vars == <<tasks, procs, manager, requests, crashes>>

Proc == 1 .. ProcMax
NULL == <<>>
NoObj == "none"
Idle == [op |-> "none", obj |-> NoObj]
This(p) == <<p, life[p]>>
Has(p, o) == Contains(que[p], o)
Full(p) == Len(que[p]) >= TaskMax   \* load >= PROC_LOAD_MAX
Unlocked(p) == beat[p] = Idle /\ ~leaked[p]
Created == {p \in Proc : state[p] # "none"}

Init ==
    /\ objQueue = Object /\ on = [o \in Object |-> FALSE]
    /\ late = [o \in Object |-> TRUE] /\ tbeat = [o \in Object |-> "zero"]
    /\ args = [o \in Object |-> NULL] /\ playing = [o \in Object |-> {}]
    /\ state = [p \in Proc |-> "none"] /\ que = [p \in Proc |-> <<>>]
    /\ inited = [p \in Proc |-> FALSE] /\ life = [p \in Proc |-> 0]
    /\ beat = [p \in Proc |-> Idle] /\ leaked = [p \in Proc |-> FALSE]
    /\ mpc = "idle" /\ todo = {} /\ mo = NoObj /\ mp = 0
    /\ requests = 0 /\ crashes = 0

-----------------------------------------------------------------------------
(* Requests: each holds mutex_obj, as the manager does for a whole round *)

Request == mpc = "idle" /\ requests < MaxRequest /\ requests' = requests + 1

request_stream_start(o) ==
    /\ Request /\ o \in objQueue
    /\ on' = [on EXCEPT ![o] = TRUE]
    /\ UNCHANGED <<objQueue, late, tbeat, args, playing, procs, manager, crashes>>

request_stream_stop(o) ==
    /\ Request /\ o \in objQueue
    /\ on' = [on EXCEPT ![o] = FALSE]
    /\ UNCHANGED <<objQueue, late, tbeat, args, playing, procs, manager, crashes>>

delObj(o) ==
    /\ Request /\ o \in objQueue
    /\ DelRunning \/ (~on[o] /\ \A p \in Proc : ~Has(p, o))
    /\ objQueue' = objQueue \ {o}
    /\ UNCHANGED <<on, late, tbeat, args, playing, procs, manager, crashes>>

-----------------------------------------------------------------------------
(* slave_objmanager_thread *)

ManagerLock ==
    /\ mpc = "idle" /\ mpc' = "round" /\ todo' = objQueue
    /\ UNCHANGED <<tasks, procs, mo, mp, requests, crashes>>

ManagerUnlock ==
    /\ mpc = "round" /\ todo = {} /\ mpc' = "idle"
    /\ UNCHANGED <<tasks, procs, todo, mo, mp, requests, crashes>>

\* objManager: an object whose beat is late is looked for in the processes.
objManager ==
    /\ mpc = "round"
    /\ \E o \in todo :
          /\ todo' = todo \ {o}
          /\ IF on[o] /\ late[o] THEN mpc' = "search" /\ mo' = o /\ mp' = 1
             ELSE UNCHANGED <<mpc, mo, mp>>
    /\ UNCHANGED <<tasks, procs, requests, crashes>>

\* Mutant: the beat of an object that was looked for stays as late as it is.
BeatenNot == late' = late /\ mpc' = "round" /\ mo' = NoObj /\ mp' = 0

\* liveBeat = nowSec, whatever has become of the search.
Beaten == /\ late' = [late EXCEPT ![mo] = FALSE]
          /\ mpc' = "round" /\ mo' = NoObj /\ mp' = 0

\* getEmptyProc holds mutex_pid while conditionByPidOps looks into one process
\* after the other, waiting for the mutex_pobj of each that has room.
conditionByPidOps ==
    /\ mpc = "search" /\ mp \in Created
    /\ Full(mp) \/ Unlocked(mp)
    /\ IF ~Full(mp) /\ Has(mp, mo) THEN Beaten
       ELSE mp' = mp + 1 /\ UNCHANGED <<late, mpc, mo>>
    /\ UNCHANGED <<objQueue, on, tbeat, args, playing, procs, todo, requests, crashes>>

\* The first process with room.
Chosen == CHOOSE p \in Created : ~Full(p) /\ \A q \in Created : q < p => Full(q)

Searched == mpc = "search" /\ mp \notin Created

conditionByPidOps2 ==
    /\ Searched /\ \E p \in Created : ~Full(p)
    /\ mp' = Chosen /\ mpc' = "put"
    /\ UNCHANGED <<tasks, procs, todo, mo, requests, crashes>>

createProcess ==
    /\ Searched /\ \A p \in Created : Full(p)
    /\ mp \in Proc
    /\ state' = [state EXCEPT ![mp] = "init"]
    /\ life' = [life EXCEPT ![mp] = 1]
    /\ mpc' = "put"
    /\ UNCHANGED <<tasks, que, inited, beat, leaked, todo, mo, mp, requests, crashes>>

\* The slave's load forbids another process.
NoProcess ==
    /\ Searched /\ \A p \in Created : Full(p)
    /\ mp \notin Proc
    /\ Beaten
    /\ UNCHANGED <<objQueue, on, tbeat, args, playing, procs, todo, requests, crashes>>

\* putObj2pidQue: a full queue refuses the object silently.
putObj2pidQue ==
    /\ mpc = "put" /\ inited[mp] /\ Unlocked(mp)
    /\ que' = IF Full(mp) THEN que ELSE [que EXCEPT ![mp] = Append(@, mo)]
    /\ Beaten
    /\ UNCHANGED <<objQueue, on, tbeat, args, playing, state, inited, life, beat, leaked,
                   todo, requests, crashes>>

\* It gives up after 10 s if the process has not come up.
WaitProcInitFailed ==
    /\ mpc = "put" /\ ~inited[mp]
    /\ Beaten
    /\ UNCHANGED <<objQueue, on, tbeat, args, playing, procs, todo, requests, crashes>>

-----------------------------------------------------------------------------
(* A process *)

rtspInit(p) ==
    /\ state[p] = "init"
    /\ state' = [state EXCEPT ![p] = "ready"]
    /\ inited' = [inited EXCEPT ![p] = TRUE]
    /\ UNCHANGED <<tasks, que, life, beat, leaked, manager, requests, crashes>>

\* Mutant: a disabled object is let go although its stream still runs.
StoppedUnchecked(o) == ~on[o]

Stopped(o) == ~on[o] /\ tbeat[o] = "zero"

rtspProcBeat(p, o) ==
    /\ state[p] = "ready" /\ Unlocked(p) /\ Has(p, o)
    /\ \/ on[o] /\ late' = [late EXCEPT ![o] = FALSE] /\ UNCHANGED que
       \/ /\ Stopped(o)
          /\ que' = [que EXCEPT ![p] = RemoveFirst(@, o)]
          /\ late' = [late EXCEPT ![o] = TRUE]
    /\ UNCHANGED <<objQueue, on, tbeat, args, playing, state, inited, life, beat,
                   leaked, manager, requests, crashes>>

\* Mutant: a stream without frames is not started again.
TaskOpNoRestart(o) == IF on[o] THEN IF tbeat[o] = "zero" THEN "start" ELSE "none"
                      ELSE IF tbeat[o] # "zero" THEN "stop" ELSE "none"

\* Mutant: a disabled object is not stopped.
TaskOpNoStop(o) == IF on[o] THEN IF tbeat[o] = "zero" THEN "start"
                                 ELSE IF tbeat[o] = "late" THEN "restart" ELSE "none"
                   ELSE "none"

\* What TaskBeat calls for an object.
TaskOp(o) == IF on[o] THEN IF tbeat[o] = "zero" THEN "start"
                           ELSE IF tbeat[o] = "late" THEN "restart" ELSE "none"
             ELSE IF tbeat[o] # "zero" THEN "stop" ELSE "none"

rtspTaskBeat(p, o) ==
    /\ state[p] = "ready" /\ Unlocked(p) /\ Has(p, o)
    /\ TaskOp(o) # "none"
    /\ IF TaskOp(o) = "restart" /\ ~Live
       THEN tbeat' = [tbeat EXCEPT ![o] = "fresh"] /\ UNCHANGED beat
       ELSE beat' = [beat EXCEPT ![p] = [op |-> TaskOp(o), obj |-> o]] /\ UNCHANGED tbeat
    /\ UNCHANGED <<objQueue, on, late, args, playing, state, que, inited, life,
                   leaked, manager, requests, crashes>>

BeatEnd(p) == beat' = [beat EXCEPT ![p] = Idle]

\* rtsp_start, after rtsp_stop if the stream is to be started again.
rtsp_start(p, connected) == LET o == beat[p].obj IN
    /\ beat[p].op \in {"start", "restart"}
    /\ Live \/ connected
    /\ args' = [args EXCEPT ![o] = This(p)]
    /\ playing' = [playing EXCEPT ![o] = IF connected THEN @ \cup {This(p)}
                                         ELSE @ \ {This(p)}]
    /\ tbeat' = [tbeat EXCEPT ![o] = "fresh"]
    /\ BeatEnd(p)
    /\ UNCHANGED <<objQueue, on, late, state, que, inited, life, leaked, manager,
                   requests, crashes>>

rtsp_stop(p) == LET o == beat[p].obj IN
    /\ beat[p].op = "stop"
    /\ args' = [args EXCEPT ![o] = NULL]
    /\ playing' = [playing EXCEPT ![o] = @ \ {This(p)}]
    /\ tbeat' = [tbeat EXCEPT ![o] = "zero"]
    /\ BeatEnd(p)
    /\ UNCHANGED <<objQueue, on, late, state, que, inited, life, leaked, manager,
                   requests, crashes>>

\* What a process dies of leaves its queue, taskMax and semaphore as they are.
Dies(p) == /\ state' = [state EXCEPT ![p] = "dead"]
           /\ leaked' = [leaked EXCEPT ![p] = @ \/ beat[p] # Idle]
           /\ playing' = [o \in Object |-> playing[o] \ {This(p)}]
           /\ BeatEnd(p)

\* liveArgs point into the heap of a process that is no more, and rtsp_stop
\* writes and frees there: it may kill the process, or go through as above.
DanglingArgs(p) ==
    /\ beat[p] # Idle /\ args[beat[p].obj] \notin {NULL, This(p)}
    /\ Dies(p)
    /\ UNCHANGED <<objQueue, on, late, tbeat, args, que, inited, life, manager,
                   requests, crashes>>

-----------------------------------------------------------------------------
(* Time, crashes, and the SIGCHLD handler *)

\* 20 s without a beat of a process that has the object: main does not restart
\* it or waits for another, or its ProcBeat waits for mutex_pobj.
Silent(p) == \/ state[p] = "dead" /\ life[p] > 1
             \/ state[p] = "ready" /\ leaked[p]
             \/ Slow /\ beat[p] # Idle

BeatLate(o) ==
    /\ ~late[o] /\ \A p \in Proc : Has(p, o) => Silent(p)
    /\ late' = [late EXCEPT ![o] = TRUE]
    /\ UNCHANGED <<objQueue, on, tbeat, args, playing, procs, manager, requests, crashes>>

\* 30 s without a frame of the object.
TaskLate(o) ==
    /\ tbeat[o] = "fresh"
    /\ tbeat' = [tbeat EXCEPT ![o] = "late"]
    /\ UNCHANGED <<objQueue, on, late, args, playing, procs, manager, requests, crashes>>

\* A crash when no object of the process has been started, in "playing" when
\* streams run, in "locked" while TaskBeat holds mutex_pobj.
Crash(p) ==
    /\ crashes < MaxCrash /\ crashes' = crashes + 1
    /\ state[p] = "ready"
    /\ \/ beat[p] = Idle /\ \A o \in Object : Has(p, o) => tbeat[o] = "zero"
       \/ beat[p] = Idle /\ "playing" \in Crashes
       \/ beat[p] # Idle /\ "locked" \in Crashes
    /\ Dies(p)
    /\ UNCHANGED <<objQueue, on, late, tbeat, args, que, inited, life, manager, requests>>

MayRestart(p) == state[p] = "dead" /\ life[p] = 1

\* creatProcByPid waits for mutex_pid, and restarts a process once in 300 s.
Restarted(p) ==
    /\ MayRestart(p) /\ mpc # "search"
    /\ state' = [state EXCEPT ![p] = "init"]
    /\ life' = [life EXCEPT ![p] = @ + 1]
    /\ UNCHANGED <<objQueue, on, tbeat, args, playing, que, inited, beat, leaked,
                   todo, requests, crashes>>

Restart(p) == Restarted(p) /\ UNCHANGED <<late, mpc, mo, mp>>

\* The manager then finds no process of the pid it has chosen.
RestartMeanwhile(p) == mpc = "put" /\ mp = p /\ Restarted(p) /\ Beaten

-----------------------------------------------------------------------------
ManagerStep == \/ ManagerLock \/ ManagerUnlock \/ objManager
               \/ conditionByPidOps \/ conditionByPidOps2 \/ createProcess
               \/ NoProcess \/ putObj2pidQue

BeatStep(p, o) == rtspProcBeat(p, o) \/ rtspTaskBeat(p, o)

ProcStep(p) == \/ rtspInit(p) \/ Restart(p) \/ RestartMeanwhile(p)
               \/ rtsp_start(p, FALSE) \/ rtsp_stop(p) \/ DanglingArgs(p)

\* The camera of the object answers.
Connected(o) == \E p \in Proc : beat[p].obj = o /\ rtsp_start(p, TRUE)

Next ==
    \/ \E o \in Object : \/ request_stream_start(o) \/ request_stream_stop(o)
                        \/ delObj(o) \/ BeatLate(o) \/ TaskLate(o)
    \/ ManagerStep \/ WaitProcInitFailed
    \/ \E p \in Proc : \/ ProcStep(p) \/ rtsp_start(p, TRUE) \/ Crash(p)
                       \/ \E o \in Object : BeatStep(p, o)

Spec == Init /\ [][Next]_vars

\* The threads go on and get their semaphores, time passes, main restarts what
\* it may restart, and a camera that is asked again and again answers.
FairSpec ==
    /\ Spec
    /\ SF_vars(ManagerStep)
    /\ \A p \in Proc : WF_vars(ProcStep(p))
    /\ \A o \in Object : /\ WF_vars(BeatLate(o) \/ TaskLate(o))
                         /\ SF_vars(\E p \in Proc : BeatStep(p, o))
                         /\ SF_vars(Connected(o))

-----------------------------------------------------------------------------
(* Properties *)
Lives == Proc \X (1 .. 2)

TypeOK ==
    /\ objQueue \subseteq Object /\ on \in [Object -> BOOLEAN]
    /\ late \in [Object -> BOOLEAN] /\ tbeat \in [Object -> {"zero", "fresh", "late"}]
    /\ args \in [Object -> Lives \cup {NULL}] /\ playing \in [Object -> SUBSET Lives]
    /\ state \in [Proc -> {"none", "init", "ready", "dead"}]
    /\ que \in [Proc -> Seq(Object)] /\ inited \in [Proc -> BOOLEAN]
    /\ life \in [Proc -> 0 .. 2] /\ leaked \in [Proc -> BOOLEAN]
    /\ beat \in [Proc -> [op : {"none", "start", "restart", "stop"},
                          obj : Object \cup {NoObj}]]
    /\ mpc \in {"idle", "round", "search", "put"} /\ todo \subseteq Object
    /\ mo \in Object \cup {NoObj} /\ mp \in 0 .. ProcMax + 1

\* The process serves its queue.
Serves(p) == state[p] \in {"init", "ready"} /\ ~leaked[p]

\* An object is in the queue of one process at most, and there once: the
\* manager gives it to a process only when its task "was just added and not
\* started yet, or its process died" (pids.cpp:41).
AssignedOnce ==
    /\ \A p, q \in Proc, o \in Object : Serves(p) /\ Serves(q) /\ Has(p, o) /\ Has(q, o) => p = q
    /\ \A p \in Proc : IsInjective(que[p]) /\ Len(que[p]) <= TaskMax

\* Its stream runs in one process at most, a process that has it in its queue
\* and will stop it, with parameters of its own heap.
OneStream == \A o \in Object :
    /\ Cardinality(playing[o]) <= 1
    /\ \A l \in playing[o] : /\ l = This(l[1]) /\ args[o] = l
                            /\ Has(l[1], o) /\ tbeat[o] # "zero"

\* A process reads task parameters of its own heap only: "all parameters are in
\* shared memory" (pids.cpp:45).
ArgsOwn == \A p \in Proc : beat[p] # Idle => args[beat[p].obj] \in {NULL, This(p)}

\* No process has an object whose taskParams are freed: "stop and del need a
\* mechanism to synchronise the resource" (pids.cpp:43).
NoDanglingTask == \A p \in Proc, o \in Object : Has(p, o) => o \in objQueue

\* A process that serves nothing any more stays in pidQueue.
Lame == \E p \in Proc : leaked[p] \/ (state[p] = "dead" /\ life[p] > 1)

\* A task that stays enabled runs again and again, whichever requests and
\* crashes came before, unless a process died with mutex_pobj or for good.
Started == \A o \in Object :
    <>[](o \in objQueue /\ on[o] /\ ~Lame) => []<>(playing[o] # {})

\* A task that stays disabled is stopped in the end, and its place is free.
StoppedForGood == \A o \in Object :
    <>[](~on[o] /\ ~Lame) => <>[](playing[o] = {} /\ \A p \in Proc : ~Has(p, o))
=============================================================================
