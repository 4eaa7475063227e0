----------------------------- MODULE Supervisor -----------------------------
(***************************************************************************)
(* The main process of a machine as the guardian of its children           *)
(* (main.cpp, pids.cpp): processes created at the start by createTasks and *)
(* later by the object manager thread, their entries in pidQueue, and the  *)
(* SIGCHLD handler that restarts what quits.  The handler interrupts       *)
(* whichever thread takes the signal, waits for one child only, and takes  *)
(* the semaphore mutex_pid that the interrupted thread may hold.  Children *)
(* take mutex_pid too, to find their own entries.                          *)
(***************************************************************************)
EXTENDS Integers, Sequences, FiniteSets

CONSTANTS Pid,        \* process ids, handed out in order and none twice
          Static,     \* sequence of the processes createTasks creates
          Dynamic,    \* processes the object manager may create
          PidQueMax,  \* bound on room
          MaxDeaths,  \* bound on crashes
          Deaths      \* which crashes happen, see Die

Role == {Static[i] : i \in DOMAIN Static} \cup Dynamic

\* The threads of main and the pids can hold mutex_pid.  The third thread waits
\* for messages and does nothing but take signals.
main == -1
manager == -2
message == -3
Creator == {main, manager}
Thread == Creator \cup {message}

\* createTasks creates no process twice (main.cpp:309).
ASSUME SupervisorAssumption ==
    /\ \A i, j \in DOMAIN Static : Static[i] = Static[j] => i = j
    /\ Static \in Seq(Role) /\ PidQueMax \in Nat /\ MaxDeaths \in Nat
    /\ Deaths \subseteq {"together", "early", "locked", "busy"}
    /\ Pid \subseteq Nat \ {0}

VARIABLES proc,       \* what each process is doing
          role,       \* what each process was forked as
          pidQueue,   \* the entries, one record for each pidOps
          mutex_pid,  \* who holds the semaphore: a thread, a child or nobody
          sig,        \* SIGCHLD is pending
          pc, job, new,  \* a thread of main: its place, the process it
                         \* creates and the pid fork has returned
          at, quit, again,  \* the handler in a thread: its place, quit_pid
                            \* and the pid of the restarted process
          created,    \* processes created so far
          deaths,
          room,       \* of pidQueue: slaveObjMax * 3, scaled down with Pid
          calm        \* history: no child has died but as in Ordinary

threads == <<pc, job, new, created>>
handlers == <<at, quit, again>>
others == <<deaths, calm, room>>
vars == <<proc, role, pidQueue, mutex_pid, sig, threads, handlers, others>>

NoPid == 0
Free == 0
Alive == {"starting", "looking", "running"}
Live(r) == {p \in Pid : proc[p] \in Alive /\ role[p] = r}
Linked(p) == \E e \in pidQueue : e.pid = p
EntryOf(p) == CHOOSE e \in pidQueue : e.pid = p
With(e, f) == (pidQueue \ {e}) \cup {f}

Init ==
    /\ proc = [p \in Pid |-> "unused"] /\ role = [p \in Pid |-> "none"]
    /\ pidQueue = {} /\ mutex_pid = Free /\ sig = FALSE
    /\ pc = [t \in Thread |-> "idle"] /\ job = [t \in Thread |-> "none"]
    /\ new = [t \in Thread |-> NoPid] /\ created = {}
    /\ at = [t \in Thread |-> "none"] /\ quit = [t \in Thread |-> NoPid]
    /\ again = [t \in Thread |-> NoPid]
    /\ deaths = 0 /\ calm = TRUE
    /\ room \in 1 .. PidQueMax

\* A thread goes on only when no handler runs on top of it.
At(t, place) == at[t] = "none" /\ pc[t] = place
Go(t, place) == pc' = [pc EXCEPT ![t] = place]

\* Mutant: sem_trywait, and nobody looks at what it returns.
AcquireTry(owner) == mutex_pid' = owner

Acquire(owner) == mutex_pid = Free /\ mutex_pid' = owner

-----------------------------------------------------------------------------
(* The threads of main *)

\* createTasks: the next process of its list.
createTasks ==
    /\ At(main, "idle") /\ Cardinality(created) < Len(Static)
    /\ LET r == Static[Cardinality(created) + 1]
       IN  job' = [job EXCEPT ![main] = r] /\ created' = created \cup {r}
    /\ Go(main, "fork")
    /\ UNCHANGED <<proc, role, pidQueue, mutex_pid, sig, new, handlers, others>>

\* getEmptyProc: the object manager, which runs after createTasks, has taken
\* mutex_pid and searches pidQueue.
getEmptyProc ==
    /\ At(manager, "idle") /\ pc[main] = "idle"
    /\ Cardinality(created) >= Len(Static)
    /\ Acquire(manager)
    /\ Go(manager, "search")
    /\ UNCHANGED <<proc, role, pidQueue, sig, job, new, created, handlers, others>>

\* It releases mutex_pid: there is a process for the object, or one to create.
Searched ==
    /\ At(manager, "search")
    /\ mutex_pid' = Free
    /\ \/ /\ \E e \in pidQueue : e.role \in Dynamic
          /\ Go(manager, "created") /\ UNCHANGED <<job, created>>
       \/ \E r \in Dynamic \ created :
             /\ job' = [job EXCEPT ![manager] = r]
             /\ created' = created \cup {r}
             /\ Go(manager, "fork")
       \/ Go(manager, "idle") /\ UNCHANGED <<job, created>>
    /\ UNCHANGED <<proc, role, pidQueue, sig, new, handlers, others>>

Forked(p, r) ==
    /\ proc[p] = "unused" /\ \A q \in Pid : q < p => proc[q] # "unused"
    /\ proc' = [proc EXCEPT ![p] = "starting"]
    /\ role' = [role EXCEPT ![p] = r]

createProcess(t) ==
    /\ At(t, "fork")
    /\ \E p \in Pid : Forked(p, job[t]) /\ new' = [new EXCEPT ![t] = p]
    /\ Go(t, "put")
    /\ UNCHANGED <<pidQueue, mutex_pid, sig, job, created, handlers, others>>

\* The entry starts with running and lastReboot 0, as in the template.
put2PidQueue(t) ==
    /\ At(t, "put")
    /\ Acquire(t)
    /\ pidQueue' = IF Cardinality(pidQueue) >= room THEN pidQueue
                   ELSE pidQueue \cup {[role |-> job[t], pid |-> new[t],
                                        running |-> FALSE, recent |-> FALSE]}
    /\ Go(t, "queued")
    /\ UNCHANGED <<proc, role, sig, job, new, created, handlers, others>>

Queued(t) ==
    /\ At(t, "queued")
    /\ mutex_pid' = Free
    /\ Go(t, IF t = main THEN "idle" ELSE "created")
    /\ UNCHANGED <<proc, role, pidQueue, sig, job, new, created, handlers, others>>

\* getEmptyProc looks the process up again before it gives it the object.
getOpsByPid ==
    /\ At(manager, "created")
    /\ Acquire(manager)
    /\ Go(manager, "lookup")
    /\ UNCHANGED <<proc, role, pidQueue, sig, job, new, created, handlers, others>>

LookedUp ==
    /\ At(manager, "lookup")
    /\ mutex_pid' = Free
    /\ Go(manager, "idle")
    /\ UNCHANGED <<proc, role, pidQueue, sig, job, new, created, handlers, others>>

-----------------------------------------------------------------------------
(* The SIGCHLD handler *)

\* Mutant: the main thread blocks the signal.
DeliverToManager(t) ==
    /\ sig /\ at[t] = "none" /\ t # main /\ Cardinality(created) >= Len(Static)
    /\ sig' = FALSE
    /\ at' = [at EXCEPT ![t] = "wait"]
    /\ UNCHANGED <<proc, role, pidQueue, mutex_pid, threads, quit, again, others>>

\* The kernel asks the main thread first; a thread in the handler blocks the
\* signal, and another one takes it.
Deliver(t) ==
    /\ sig /\ at[t] = "none"
    /\ t # main => at[main] # "none" /\ Cardinality(created) >= Len(Static)
    /\ sig' = FALSE
    /\ at' = [at EXCEPT ![t] = "wait"]
    /\ UNCHANGED <<proc, role, pidQueue, mutex_pid, threads, quit, again, others>>

\* Mutant: waits until no child is left, without WNOHANG.
BackToWait(t) == /\ at' = [at EXCEPT ![t] = "wait"]
                 /\ quit' = [quit EXCEPT ![t] = NoPid]
                 /\ again' = [again EXCEPT ![t] = NoPid]

\* The handler returns.
Back(t) == /\ at' = [at EXCEPT ![t] = "none"]
           /\ quit' = [quit EXCEPT ![t] = NoPid]
           /\ again' = [again EXCEPT ![t] = NoPid]

main_child_quit_signal(t) ==
    /\ at[t] = "wait"
    /\ \E p \in Pid : /\ proc[p] = "zombie"
                      /\ proc' = [proc EXCEPT ![p] = "reaped"]
                      /\ quit' = [quit EXCEPT ![t] = p]
    /\ at' = [at EXCEPT ![t] = "find"]
    /\ UNCHANGED <<role, pidQueue, mutex_pid, sig, threads, again, others>>

\* Mutant: the flag is read the wrong way round.
ToRestartStopped(e) == ~e.running /\ ~e.recent

ToRestart(e) == e.running /\ ~e.recent

\* Nothing interrupts the handler, so it releases mutex_pid in the same step.
creatProcByPid(t) ==
    /\ at[t] = "find" /\ mutex_pid = Free
    /\ \/ /\ ~Linked(quit[t])
          /\ Back(t)
       \/ /\ Linked(quit[t]) /\ ~EntryOf(quit[t]).running
          /\ at' = [at EXCEPT ![t] = "delete"] /\ UNCHANGED <<quit, again>>
       \/ /\ Linked(quit[t]) /\ ToRestart(EntryOf(quit[t]))
          /\ at' = [at EXCEPT ![t] = "fork"] /\ UNCHANGED <<quit, again>>
       \/ /\ Linked(quit[t]) /\ EntryOf(quit[t]).running
          /\ ~ToRestart(EntryOf(quit[t]))
          /\ Back(t)
    /\ UNCHANGED <<proc, role, pidQueue, mutex_pid, sig, threads, others>>

\* Mutant: the condition finds the first entry.
RemainingButFirst(t) == {e \in pidQueue : e.role # Static[1]}

Remaining(t) == {e \in pidQueue : e.pid # quit[t]}

delOpsByPid(t) ==
    /\ at[t] = "delete" /\ mutex_pid = Free
    /\ pidQueue' = Remaining(t)
    /\ Back(t)
    /\ UNCHANGED <<proc, role, mutex_pid, sig, threads, others>>

Restart(t) ==
    /\ at[t] = "fork"
    /\ \E p \in Pid : /\ Forked(p, EntryOf(quit[t]).role)
                      /\ again' = [again EXCEPT ![t] = p]
    /\ at' = [at EXCEPT ![t] = "setpid"]
    /\ UNCHANGED <<pidQueue, mutex_pid, sig, threads, quit, others>>

Restarted(t) ==
    /\ at[t] = "setpid"
    /\ LET e == EntryOf(quit[t])
       IN  pidQueue' = With(e, [e EXCEPT !.pid = again[t], !.recent = TRUE])
    /\ Back(t)
    /\ UNCHANGED <<proc, role, mutex_pid, sig, threads, others>>

\* 300 s have passed since the last restart.
Expire == \E e \in pidQueue :
    /\ e.recent
    /\ pidQueue' = With(e, [e EXCEPT !.recent = FALSE])
    /\ UNCHANGED <<proc, role, mutex_pid, sig, threads, handlers, others>>

-----------------------------------------------------------------------------
(* The children *)

\* getRealOps looks for the entry of the process, once every 100 ms.
Look(p) ==
    /\ proc[p] = "starting" /\ Acquire(p)
    /\ proc' = [proc EXCEPT ![p] = "looking"]
    /\ UNCHANGED <<role, pidQueue, sig, threads, handlers, others>>

getRealOps(p) ==
    /\ proc[p] = "looking"
    /\ mutex_pid' = Free
    /\ IF Linked(p)
       THEN /\ proc' = [proc EXCEPT ![p] = "running"]
            /\ pidQueue' = With(EntryOf(p), [EntryOf(p) EXCEPT !.running = TRUE])
       ELSE proc' = [proc EXCEPT ![p] = "starting"] /\ UNCHANGED pidQueue
    /\ UNCHANGED <<role, sig, threads, handlers, others>>

\* Somebody is about to put p into an entry.
Expected(p) == \/ \E t \in Thread : pc[t] = "put" /\ new[t] = p
               \/ \E t \in Thread : at[t] = "setpid" /\ again[t] = p

Exit(p) == proc' = [proc EXCEPT ![p] = "zombie"] /\ sig' = TRUE

\* It gives up after 10 s; who puts it into the queue needs less.
Unknown(p) ==
    /\ proc[p] = "starting" /\ ~Linked(p) /\ ~Expected(p)
    /\ Exit(p)
    /\ calm' = FALSE
    /\ UNCHANGED <<role, pidQueue, mutex_pid, threads, handlers, deaths, room>>

\* No thread of main is at work.
Rest == /\ Cardinality(created) >= Len(Static)
        /\ \A t \in Thread : at[t] = "none" /\ pc[t] = "idle"

\* A running process dies while main is at rest and no other has just died or
\* been started.
Ordinary(p) ==
    /\ Rest /\ proc[p] = "running"
    /\ \A q \in Pid : proc[q] \notin {"zombie", "starting", "looking"}

\* Crashes: ordinary ones, of "together" several at once, "early" before the
\* process has found its entry, "locked" while it holds mutex_pid, and "busy"
\* while main is at work.
Die(p) ==
    /\ deaths < MaxDeaths /\ deaths' = deaths + 1
    /\ \/ Ordinary(p)
       \/ /\ Rest \/ "busy" \in Deaths
          /\ \/ proc[p] = "running" /\ {"together", "busy"} \cap Deaths # {}
             \/ proc[p] = "starting" /\ "early" \in Deaths
             \/ proc[p] = "looking" /\ "locked" \in Deaths
    /\ calm' = (calm /\ Ordinary(p))
    /\ Exit(p)
    /\ UNCHANGED <<role, pidQueue, mutex_pid, threads, handlers, room>>

-----------------------------------------------------------------------------
HandlerStep(t) == \/ Deliver(t) \/ main_child_quit_signal(t) \/ creatProcByPid(t)
                  \/ delOpsByPid(t) \/ Restart(t) \/ Restarted(t)

ThreadStep(t) == createProcess(t) \/ put2PidQueue(t) \/ Queued(t)

ManagerStep == Searched \/ getOpsByPid \/ LookedUp

ChildStep(p) == Look(p) \/ getRealOps(p) \/ Unknown(p)

Next == \/ createTasks \/ getEmptyProc \/ ManagerStep \/ Expire
        \/ \E t \in Creator : ThreadStep(t)
        \/ \E t \in Thread : HandlerStep(t)
        \/ \E p \in Pid : ChildStep(p) \/ Die(p)

Spec == Init /\ [][Next]_vars

\* Threads and children go on, and get mutex_pid if it is free again and again.
FairSpec ==
    /\ Spec
    /\ WF_vars(createTasks) /\ SF_vars(ManagerStep)
    /\ SF_vars(\E t \in Creator : ThreadStep(t)) /\ SF_vars(\E t \in Thread : HandlerStep(t))
    /\ \A r \in Role : SF_vars(\E p \in Pid : role[p] = r /\ ChildStep(p))

-----------------------------------------------------------------------------
(* Properties *)
\* mutex_pid is held by who is between taking and releasing it, or by a child
\* that died in between; whoever quits, no thread releases what another holds.
LockInv ==
    /\ \A t \in Thread : mutex_pid = t <=> pc[t] \in {"search", "queued", "lookup"}
    /\ \A p \in Pid : proc[p] = "looking" => mutex_pid = p
    /\ mutex_pid \in Pid => proc[mutex_pid] \in {"looking", "zombie", "reaped"}

TypeOK ==
    /\ proc \in [Pid -> Alive \cup {"unused", "zombie", "reaped"}]
    /\ role \in [Pid -> Role \cup {"none"}]
    /\ pidQueue \subseteq [role : Role, pid : Pid, running : BOOLEAN, recent : BOOLEAN]
    /\ mutex_pid \in Thread \cup Pid \cup {Free} /\ sig \in BOOLEAN
    /\ pc \in [Thread -> {"idle", "search", "fork", "put", "queued", "created", "lookup"}]
    /\ job \in [Thread -> Role \cup {"none"}] /\ new \in [Thread -> Pid \cup {NoPid}]
    /\ at \in [Thread -> {"none", "wait", "find", "delete", "fork", "setpid"}]
    /\ quit \in [Thread -> Pid \cup {NoPid}] /\ again \in [Thread -> Pid \cup {NoPid}]
    /\ created \subseteq Role /\ deaths \in Nat /\ calm \in BOOLEAN
    /\ room \in 1 .. PidQueMax

\* A child is never forked twice: whatever quits while others are created and
\* restarted, there is one process at most for each that was to be created,
\* and the one that runs is the one its entry names.
OneProcess ==
    /\ \A p, q \in Pid : proc[p] \in Alive /\ proc[q] \in Alive /\ role[p] = role[q]
                         => p = q
    /\ \A p \in Pid : proc[p] = "running" =>
          Linked(p) /\ EntryOf(p).running /\ EntryOf(p).role = role[p]

\* The handlers of two threads never work on the same entry, and the entry a
\* handler has found stays in the queue until it is done with it.
HandlerEntry ==
    /\ \A t \in Thread : at[t] \in {"delete", "fork", "setpid"} => Linked(quit[t])
    /\ \A t, u \in Thread : quit[t] = quit[u] => t = u \/ quit[t] = NoPid

\* wait() in the handler never blocks: for each signal that is pending or
\* being handled there is a child nobody has waited for.
WaitNeverBlocks ==
    Cardinality({t \in Thread : at[t] = "wait"}) + (IF sig THEN 1 ELSE 0)
        <= Cardinality({p \in Pid : proc[p] = "zombie"})

\* "When a process dies, main starts it again" (pids.cpp:39), unless it was
\* restarted less than 300 s before, or a child has died together with another,
\* before it had set running, or while main was at work: then the signal, the
\* entry or mutex_pid may be lost.
Fallen(r) == /\ \E p \in Pid : proc[p] = "zombie" /\ role[p] = r
             /\ \A e \in pidQueue : e.role = r => ~e.recent
KeptAlive == \A r \in Role : Fallen(r) ~> Live(r) # {} \/ ~calm

\* The handler does not wait for a semaphore that the thread it has interrupted
\* holds: the main thread, which takes the signal first, is at rest by then.
HandlerNotStuck ==
    calm => \A t \in Thread : at[t] \in {"find", "delete"} => mutex_pid # t
=============================================================================
