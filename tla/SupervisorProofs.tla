-------------------------- MODULE SupervisorProofs --------------------------
(***************************************************************************)
(* No process is forked twice, the handler finds its entry and never       *)
(* blocks, for any processes, pids and deaths.  Pids are handed out in     *)
(* order, so the process of a role that may be alive is the last one: an   *)
(* entry names that one, unless a handler has forked it and is about to    *)
(* write its pid, and only the entry of a process that was waited for      *)
(* leads to a fork.                                                        *)
(***************************************************************************)
EXTENDS Supervisor, FiniteSetTheorems, TLAPS

Used(p) == proc[p] # "unused"

\* Of the processes of a role all but the last were waited for.
Order ==
    /\ \A p, q \in Pid : q < p /\ Used(p) => Used(q)
    /\ \A p, q \in Pid : Used(p) /\ Used(q) /\ role[p] = role[q] /\ q < p
                         => proc[q] = "reaped"

\* createTasks is somewhere in its list, the object manager waits for its end,
\* and no process has a role that was not created.
Roles ==
    /\ IsFiniteSet(created)
    /\ Cardinality(created) < Len(Static) =>
          created = {Static[i] : i \in 1 .. Cardinality(created)}
    /\ pc[manager] # "idle" => Cardinality(created) >= Len(Static)
    /\ \A p \in Pid : Used(p) => role[p] \in created
    /\ \A t \in Thread : pc[t] \in {"fork", "put"} => job[t] \in created

\* A thread that is to fork a process is the only one that has to do with it.
Jobs ==
    /\ \A t \in Thread : pc[t] = "fork" =>
          \A p \in Pid : Used(p) => role[p] # job[t]
    /\ \A t \in Thread : pc[t] = "put" =>
          /\ new[t] \in Pid /\ Used(new[t]) /\ role[new[t]] = job[t]
          /\ \A p \in Pid : Used(p) /\ role[p] = job[t] => p = new[t]
          /\ \A e \in pidQueue : e.role # job[t]
    /\ \A t, u \in Thread :
          pc[t] \in {"fork", "put"} /\ pc[u] \in {"fork", "put"} /\ job[t] = job[u]
          => t = u

Entries ==
    /\ \A e \in pidQueue : Used(e.pid) /\ role[e.pid] = e.role
    /\ \A e, f \in pidQueue : e.role = f.role => e = f
    /\ \A e \in pidQueue : \A p \in Pid :
          Used(p) /\ role[p] = e.role /\ e.pid < p =>
             \E t \in Thread : at[t] = "setpid" /\ quit[t] = e.pid /\ again[t] = p
    /\ \A p \in Pid : proc[p] = "running" =>
          \E e \in pidQueue : e.pid = p /\ e.running

Handlers ==
    /\ \A t \in Thread : at[t] \in {"none", "wait"} => quit[t] = NoPid
    /\ \A t \in Thread : at[t] \in {"find", "delete", "fork", "setpid"} =>
          quit[t] \in Pid /\ proc[quit[t]] = "reaped"
    /\ \A t \in Thread : at[t] \in {"delete", "fork", "setpid"} =>
          \E e \in pidQueue : e.pid = quit[t]
    /\ \A t, u \in Thread : quit[t] = quit[u] => t = u \/ quit[t] = NoPid
    /\ \A t \in Thread : at[t] = "setpid" =>
          /\ again[t] \in Pid /\ Used(again[t]) /\ quit[t] < again[t]
          /\ role[again[t]] = role[quit[t]]
          /\ \A p \in Pid : Used(p) /\ role[p] = role[quit[t]] => p <= again[t]

Shape == Order /\ Roles /\ Jobs /\ Entries /\ Handlers
Core == TypeOK /\ Shape

\* Between wait() and SIGCHLD.
Zombies == {p \in Pid : proc[p] = "zombie"}
Waits == IsFiniteSet(Zombies) /\ WaitNeverBlocks

\* Who has died only as in Ordinary has died when createTasks was done and no
\* thread was at work, and the main thread takes the signal.
Calm ==
    calm =>
       /\ sig => \A t \in Thread : at[t] = "none"
       /\ \A t \in Thread : t # main => at[t] = "none"
       /\ sig \/ at[main] # "none" =>
             pc[main] = "idle" /\ Cardinality(created) >= Len(Static)

-----------------------------------------------------------------------------
LEMMA ThreadFacts ==
    /\ main \in Thread /\ manager \in Thread /\ main # manager
    /\ Creator \subseteq Thread /\ \A t \in Creator : t = main \/ t = manager
    /\ \A t \in Thread : t \notin Pid /\ t # Free /\ t \in Int
    /\ Free \notin Pid /\ NoPid \notin Pid /\ Pid \subseteq Nat
  BY SupervisorAssumption DEF Thread, Creator, main, manager, message, Free, NoPid

LEMMA ForkTypes ==
    ASSUME TypeOK, NEW p \in Pid, NEW r \in Role, Forked(p, r)
    PROVE  /\ proc' \in [Pid -> Alive \cup {"unused", "zombie", "reaped"}]
           /\ role' \in [Pid -> Role \cup {"none"}]
  <1>1. proc' = [proc EXCEPT ![p] = "starting"] /\ role' = [role EXCEPT ![p] = r]
    BY DEF Forked
  <1>2. "starting" \in Alive
    BY DEF Alive
  <1>. QED
    BY <1>1, <1>2 DEF TypeOK

\* An entry is replaced by one with another pid or flag.
LEMMA UpdateTypes ==
    ASSUME TypeOK, NEW e \in pidQueue, NEW q \in Pid, NEW b \in BOOLEAN
    PROVE  /\ With(e, [e EXCEPT !.recent = b])
                \subseteq [role : Role, pid : Pid, running : BOOLEAN, recent : BOOLEAN]
           /\ With(e, [e EXCEPT !.running = b])
                \subseteq [role : Role, pid : Pid, running : BOOLEAN, recent : BOOLEAN]
           /\ With(e, [e EXCEPT !.pid = q, !.recent = b])
                \subseteq [role : Role, pid : Pid, running : BOOLEAN, recent : BOOLEAN]
  <1> DEFINE R == [role : Role, pid : Pid, running : BOOLEAN, recent : BOOLEAN]
  <1>1. pidQueue \subseteq R /\ e \in R
    BY DEF TypeOK
  <1>2. /\ [e EXCEPT !.recent = b] \in R
        /\ [e EXCEPT !.running = b] \in R
        /\ [e EXCEPT !.pid = q, !.recent = b] \in R
    BY <1>1
  <1> HIDE DEF R
  <1>3. \A x \in R : With(e, x) \subseteq R
    BY <1>1 DEF With
  <1>. QED
    BY <1>2, <1>3 DEF R

LEMMA TypeStep ==
    ASSUME TypeOK, Roles, Jobs, Entries, Handlers, Next
    PROVE  TypeOK'
  <1> USE ThreadFacts DEF TypeOK, threads, handlers, others
  <1>1. CASE createTasks
    <2>1. Cardinality(created) \in Nat /\ Cardinality(created) < Len(Static)
      BY <1>1, FS_CardinalityType DEF createTasks, Roles
    <2>2. Static[Cardinality(created) + 1] \in Role
      BY <2>1, SupervisorAssumption
    <2>. QED
      BY <1>1, <2>2 DEF createTasks, Go
  <1>2. CASE getEmptyProc
    BY <1>2 DEF getEmptyProc, Go, Acquire
  <1>3. CASE Searched
    <2>1. ASSUME NEW r \in Dynamic, job' = [job EXCEPT ![manager] = r],
                 created' = created \cup {r}
          PROVE  TypeOK'
      <3>1. r \in Role
        BY <2>1 DEF Role
      <3>. QED
        BY <1>3, <2>1, <3>1 DEF Searched, Go
    <2>2. CASE UNCHANGED <<job, created>>
      BY <1>3, <2>2 DEF Searched, Go
    <2>. QED
      BY <1>3, <2>1, <2>2 DEF Searched
  <1>4. CASE getOpsByPid
    BY <1>4 DEF getOpsByPid, Go, Acquire
  <1>5. CASE LookedUp
    BY <1>5 DEF LookedUp, Go
  <1>6. CASE Expire
    <2>1. PICK e \in pidQueue : pidQueue' = With(e, [e EXCEPT !.recent = FALSE])
      BY <1>6 DEF Expire
    <2>2. /\ UNCHANGED <<proc, role, mutex_pid, sig, threads, handlers, others>>
      BY <1>6 DEF Expire
    <2>3. Pid # {} => pidQueue' \subseteq
               [role : Role, pid : Pid, running : BOOLEAN, recent : BOOLEAN]
      BY <2>1, UpdateTypes
    <2>4. Pid # {}
      BY <2>1
    <2>. QED
      BY <2>2, <2>3, <2>4
  <1>7. ASSUME NEW t \in Thread, createProcess(t) PROVE TypeOK'
    <2>1. job[t] \in Role
      BY <1>7 DEF createProcess, At, Roles
    <2>2. PICK q \in Pid : Forked(q, job[t]) /\ new' = [new EXCEPT ![t] = q]
      BY <1>7 DEF createProcess
    <2>3. /\ proc' \in [Pid -> Alive \cup {"unused", "zombie", "reaped"}]
          /\ role' \in [Pid -> Role \cup {"none"}]
      BY <2>1, <2>2, ForkTypes
    <2>4. new' \in [Thread -> Pid \cup {NoPid}]
      BY <2>2
    <2>5. pc' \in [Thread -> {"idle", "search", "fork", "put", "queued", "created", "lookup"}]
      BY <1>7 DEF createProcess, Go
    <2>6. UNCHANGED <<pidQueue, mutex_pid, sig, job, created, handlers, others>>
      BY <1>7 DEF createProcess
    <2>. QED
      BY <2>3, <2>4, <2>5, <2>6
  <1>8. ASSUME NEW t \in Thread, put2PidQueue(t) PROVE TypeOK'
    <2>1. job[t] \in Role /\ new[t] \in Pid
      BY <1>8 DEF put2PidQueue, At, Roles, Jobs
    <2>2. [role |-> job[t], pid |-> new[t], running |-> FALSE, recent |-> FALSE]
             \in [role : Role, pid : Pid, running : BOOLEAN, recent : BOOLEAN]
      BY <2>1
    <2>3. pidQueue' \subseteq
             [role : Role, pid : Pid, running : BOOLEAN, recent : BOOLEAN]
      BY <1>8, <2>2 DEF put2PidQueue
    <2>4. /\ pc' \in [Thread -> {"idle", "search", "fork", "put", "queued", "created", "lookup"}]
          /\ mutex_pid' \in Thread
          /\ UNCHANGED <<proc, role, sig, job, new, created, handlers, others>>
      BY <1>8 DEF put2PidQueue, Go, Acquire
    <2>. QED
      BY <2>3, <2>4
  <1>9. ASSUME NEW t \in Thread, Queued(t) PROVE TypeOK'
    BY <1>9 DEF Queued, Go
  <1>10. ASSUME NEW t \in Thread, Deliver(t) PROVE TypeOK'
    BY <1>10 DEF Deliver
  <1>11. ASSUME NEW t \in Thread, main_child_quit_signal(t) PROVE TypeOK'
    BY <1>11 DEF main_child_quit_signal
  <1>12. ASSUME NEW t \in Thread, creatProcByPid(t) PROVE TypeOK'
    BY <1>12 DEF creatProcByPid, Back
  <1>13. ASSUME NEW t \in Thread, delOpsByPid(t) PROVE TypeOK'
    BY <1>13 DEF delOpsByPid, Back, Remaining
  <1>14. ASSUME NEW t \in Thread, Restart(t) PROVE TypeOK'
    <2>1. EntryOf(quit[t]) \in pidQueue
      BY <1>14 DEF Restart, EntryOf, Handlers
    <2>2. PICK q \in Pid : /\ Forked(q, EntryOf(quit[t]).role)
                           /\ again' = [again EXCEPT ![t] = q]
      BY <1>14 DEF Restart
    <2>3. EntryOf(quit[t]).role \in Role
      BY <2>1
    <2>4. /\ proc' \in [Pid -> Alive \cup {"unused", "zombie", "reaped"}]
          /\ role' \in [Pid -> Role \cup {"none"}]
      BY <2>2, <2>3, ForkTypes
    <2>5. again' \in [Thread -> Pid \cup {NoPid}]
      BY <2>2
    <2>6. at' \in [Thread -> {"none", "wait", "find", "delete", "fork", "setpid"}]
      BY <1>14 DEF Restart
    <2>7. UNCHANGED <<pidQueue, mutex_pid, sig, threads, quit, others>>
      BY <1>14 DEF Restart
    <2>. QED
      BY <2>4, <2>5, <2>6, <2>7
  <1>15. ASSUME NEW t \in Thread, Restarted(t) PROVE TypeOK'
    <2>1. EntryOf(quit[t]) \in pidQueue /\ again[t] \in Pid
      BY <1>15 DEF Restarted, EntryOf, Handlers
    <2>2. pidQueue' \subseteq
             [role : Role, pid : Pid, running : BOOLEAN, recent : BOOLEAN]
      BY <1>15, <2>1, UpdateTypes DEF Restarted
    <2>3. /\ at' \in [Thread -> {"none", "wait", "find", "delete", "fork", "setpid"}]
          /\ quit' \in [Thread -> Pid \cup {NoPid}]
          /\ again' \in [Thread -> Pid \cup {NoPid}]
          /\ UNCHANGED <<proc, role, mutex_pid, sig, threads, others>>
      BY <1>15 DEF Restarted, Back
    <2>. QED
      BY <2>2, <2>3
  <1>16. ASSUME NEW q \in Pid, Look(q) PROVE TypeOK'
    BY <1>16 DEF Look, Acquire, Alive
  <1>17. ASSUME NEW q \in Pid, getRealOps(q) PROVE TypeOK'
    <2>1. CASE Linked(q)
      <3>1. EntryOf(q) \in pidQueue
        BY <2>1 DEF EntryOf, Linked
      <3>. QED
        <4>1. pidQueue' \subseteq
                 [role : Role, pid : Pid, running : BOOLEAN, recent : BOOLEAN]
          <5>1. pidQueue' = With(EntryOf(q), [EntryOf(q) EXCEPT !.running = TRUE])
            BY <1>17, <2>1, Zenon DEF getRealOps
          <5>. QED
            BY <3>1, <5>1, UpdateTypes
        <4>2. /\ proc' \in [Pid -> Alive \cup {"unused", "zombie", "reaped"}]
              /\ mutex_pid' = Free
              /\ UNCHANGED <<role, sig, threads, handlers, others>>
          BY <1>17, <2>1 DEF getRealOps, Alive
        <4>. QED
          BY <4>1, <4>2
    <2>2. CASE ~Linked(q)
      BY <1>17, <2>2 DEF getRealOps, Alive
    <2>. QED
      BY <2>1, <2>2
  <1>18. ASSUME NEW q \in Pid, Unknown(q) PROVE TypeOK'
    BY <1>18 DEF Unknown, Exit
  <1>19. ASSUME NEW q \in Pid, Die(q) PROVE TypeOK'
    BY <1>19 DEF Die, Exit, Ordinary, Rest
  <1>. QED
    BY <1>1, <1>2, <1>3, <1>4, <1>5, <1>6, <1>7, <1>8, <1>9, <1>10, <1>11, <1>12, <1>13, <1>14, <1>15, <1>16, <1>17, <1>18, <1>19 DEF Next, ManagerStep, ThreadStep, HandlerStep, ChildStep

-----------------------------------------------------------------------------
(* What most steps leave as it is *)

\* Steps of a thread that neither create nor queue a process.
LEMMA ThreadOnly ==
    ASSUME Core, UNCHANGED <<proc, role, pidQueue, handlers, job, new, created>>,
           \A t \in Thread : pc'[t] = pc[t] \/ pc'[t] \notin {"fork", "put"},
           pc'[manager] # "idle" => Cardinality(created) >= Len(Static)
    PROVE  Shape'
  <1> USE DEF Core, Shape, Used, handlers
  <1>1. Order'
    BY DEF Order
  <1>2. Roles'
    BY DEF Roles
  <1>3. Jobs'
    BY DEF Jobs
  <1>4. Entries'
    BY DEF Entries
  <1>5. Handlers'
    BY DEF Handlers
  <1>. QED
    BY <1>1, <1>2, <1>3, <1>4, <1>5

\* A living process looks for its entry, goes back or dies.
LEMMA ChildOnly ==
    ASSUME Core, UNCHANGED <<role, pidQueue, threads, handlers>>,
           NEW q \in Pid, proc[q] \in Alive,
           NEW x \in {"starting", "looking", "zombie"},
           proc' = [proc EXCEPT ![q] = x]
    PROVE  Shape'
  <1> USE DEF Core, Shape, Used, handlers, threads, Alive
  <1>1. proc \in [Pid -> Alive \cup {"unused", "zombie", "reaped"}]
    BY DEF TypeOK
  <1>2. /\ \A p \in Pid : Used(p)' <=> Used(p)
        /\ \A p \in Pid : proc[p] = "reaped" => proc'[p] = "reaped"
        /\ \A p \in Pid : proc'[p] = "running" => proc[p] = "running"
    BY <1>1
  <1>3. Order'
    BY <1>2 DEF Order
  <1>4. Roles'
    BY <1>2 DEF Roles
  <1>5. Jobs'
    BY <1>2 DEF Jobs
  <1>6. Entries'
    <2>1. \A e \in pidQueue : e.pid \in Pid
      BY DEF TypeOK
    <2>. QED
      BY <1>2, <2>1 DEF Entries
  <1>7. Handlers'
    BY <1>2 DEF Handlers
  <1>. QED
    BY <1>3, <1>4, <1>5, <1>6, <1>7

\* There is one entry at most with a pid.
LEMMA EntryOfIs ==
    ASSUME Core, NEW e \in pidQueue
    PROVE  EntryOf(e.pid) = e
  <1>1. \A f \in pidQueue : f.pid = e.pid => f = e
    BY DEF Core, Shape, Entries
  <1>. QED
    BY <1>1 DEF EntryOf

\* The flags of an entry change, and a process that has found it runs.
LEMMA FlagsOnly ==
    ASSUME Core, UNCHANGED <<role, threads, handlers>>,
           NEW e \in pidQueue, NEW f, pidQueue' = With(e, f),
           f.pid = e.pid, f.role = e.role, e.running => f.running,
           \/ UNCHANGED proc
           \/ /\ proc[e.pid] = "looking" /\ f.running
              /\ proc' = [proc EXCEPT ![e.pid] = "running"]
    PROVE  Shape'
  <1> USE DEF Core, Shape, Used, handlers, threads
  <1>0. e.pid \in Pid /\ \A g \in pidQueue : g.pid \in Pid
    BY DEF TypeOK
  <1>1. proc \in [Pid -> Alive \cup {"unused", "zombie", "reaped"}]
    BY DEF TypeOK
  <1>2. /\ \A p \in Pid : Used(p)' <=> Used(p)
        /\ \A p \in Pid : proc[p] = "reaped" => proc'[p] = "reaped"
        /\ \A p \in Pid : proc'[p] = "running" =>
              proc[p] = "running" \/ (p = e.pid /\ f.running)
    BY <1>0, <1>1
  <1>w. /\ \A g \in pidQueue' : g \in pidQueue \/ g = f
        /\ \A g \in pidQueue : g \in pidQueue' \/ g = e
        /\ f \in pidQueue'
        /\ \A g \in pidQueue' : g # f => g \in pidQueue /\ g # e
    BY DEF With
  <1>3. Order'
    BY <1>2 DEF Order
  <1>4. Roles'
    BY <1>2 DEF Roles
  <1>5. Jobs'
    BY <1>2, <1>w DEF Jobs
  <1>6. Entries'
    <2>1. \A g \in pidQueue' : Used(g.pid)' /\ role'[g.pid] = g.role
      BY <1>0, <1>2, <1>w DEF Entries
    <2>2. \A g, h \in pidQueue' : g.role = h.role => g = h
      BY <1>w DEF Entries
    <2>3. \A g \in pidQueue' : \A p \in Pid :
             Used(p)' /\ role'[p] = g.role /\ g.pid < p =>
                \E t \in Thread : at'[t] = "setpid" /\ quit'[t] = g.pid /\ again'[t] = p
      <3>1. \A g \in pidQueue' : \E h \in pidQueue : h.pid = g.pid /\ h.role = g.role
        BY <1>w
      <3>. QED
        BY <1>2, <3>1 DEF Entries
    <2>4. \A p \in Pid : proc'[p] = "running" =>
             \E g \in pidQueue' : g.pid = p /\ g.running
      BY <1>2, <1>w DEF Entries
    <2>. QED
      BY <2>1, <2>2, <2>3, <2>4 DEF Entries
  <1>7. Handlers'
    <2>1. \A g \in pidQueue : \E h \in pidQueue' : h.pid = g.pid
      BY <1>w
    <2>. QED
      BY <1>2, <2>1 DEF Handlers
  <1>. QED
    BY <1>3, <1>4, <1>5, <1>6, <1>7


-----------------------------------------------------------------------------
(* Forks *)

\* The new pid is the last one.
LEMMA NewPid ==
    ASSUME TypeOK, Order, NEW q \in Pid, NEW r \in Role, Forked(q, r)
    PROVE  /\ ~Used(q) /\ proc'[q] = "starting" /\ role'[q] = r
           /\ \A p \in Pid : Used(p)' <=> Used(p) \/ p = q
           /\ \A p \in Pid : Used(p) =>
                 p < q /\ role'[p] = role[p] /\ proc'[p] = proc[p]
           /\ \A p \in Pid : proc'[p] = "running" => proc[p] = "running"
           /\ \A p \in Pid : proc[p] = "reaped" => proc'[p] = "reaped"
           /\ \A p \in Pid : p < q => Used(p)
  <1>1. /\ proc' = [proc EXCEPT ![q] = "starting"] /\ role' = [role EXCEPT ![q] = r]
        /\ proc[q] = "unused" /\ \A p \in Pid : p < q => proc[p] # "unused"
    BY DEF Forked
  <1>2. DOMAIN proc = Pid /\ DOMAIN role = Pid
    BY DEF TypeOK
  <1>3. \A p \in Pid : Used(p) => p < q
    <2>1. \A p \in Pid : p \in Int
      BY ThreadFacts
    <2>2. \A p \in Pid : q < p /\ Used(p) => Used(q)
      BY DEF Order
    <2>. QED
      BY <1>1, <2>1, <2>2 DEF Used
  <1>. QED
    BY <1>1, <1>2, <1>3 DEF Used

LEMMA ForkOrder ==
    ASSUME TypeOK, Order, NEW q \in Pid, NEW r \in Role, Forked(q, r),
           \A p \in Pid : Used(p) /\ role[p] = r => proc[p] = "reaped"
    PROVE  Order'
  <1>1. \A p \in Pid : p \in Int
    BY ThreadFacts
  <1>2. \A p, u \in Pid : u < p /\ Used(p)' => Used(u)'
    BY <1>1, NewPid DEF Order
  <1>3. ASSUME NEW p \in Pid, NEW u \in Pid, Used(p)', Used(u)',
               role'[p] = role'[u], u < p
        PROVE  proc'[u] = "reaped"
    <2>1. u # q
      BY <1>1, <1>3, NewPid
    <2>2. Used(u)
      BY <1>3, <2>1, NewPid
    <2>3. CASE p = q
      BY <1>3, <2>2, <2>3, NewPid
    <2>4. CASE p # q
      BY <1>3, <2>2, <2>4, NewPid DEF Order
    <2>. QED
      BY <2>3, <2>4
  <1>. QED
    BY <1>2, <1>3 DEF Order

LEMMA CreateStep ==
    ASSUME Core, NEW t \in Thread, createProcess(t)
    PROVE  Shape'
  <1> USE DEF Core, Shape, Used
  <1>1. PICK q \in Pid : Forked(q, job[t]) /\ new' = [new EXCEPT ![t] = q]
    BY DEF createProcess
  <1>2. /\ pc' = [pc EXCEPT ![t] = "put"] /\ pc[t] = "fork"
        /\ UNCHANGED <<pidQueue, job, created, handlers>>
    BY DEF createProcess, At, Go
  <1>3. /\ \A p \in Pid : Used(p) => role[p] # job[t]
        /\ job[t] \in Role /\ job[t] \in created
    BY <1>2 DEF Jobs, Roles, TypeOK
  <1>4. /\ proc'[q] = "starting" /\ role'[q] = job[t] /\ ~Used(q)
        /\ \A p \in Pid : Used(p)' <=> Used(p) \/ p = q
        /\ \A p \in Pid : Used(p) =>
              p < q /\ role'[p] = role[p] /\ proc'[p] = proc[p]
        /\ \A p \in Pid : proc'[p] = "running" => proc[p] = "running"
        /\ \A p \in Pid : proc[p] = "reaped" => proc'[p] = "reaped"
    BY <1>1, <1>3, NewPid
  <1>5. Order'
    BY <1>1, <1>3, ForkOrder
  <1>6. Roles'
    <2>1. pc'[manager] # "idle" => pc[manager] # "idle"
      BY <1>2, ThreadFacts DEF TypeOK
    <2>2. \A p \in Pid : Used(p)' => role'[p] \in created'
      BY <1>2, <1>3, <1>4 DEF Roles
    <2>3. \A u \in Thread : pc'[u] \in {"fork", "put"} => job'[u] \in created'
      BY <1>2, <1>3 DEF Roles, TypeOK
    <2>. QED
      BY <1>2, <2>1, <2>2, <2>3 DEF Roles
  <1>e. \A e \in pidQueue : e.pid \in Pid /\ Used(e.pid) /\ role[e.pid] = e.role
    BY DEF TypeOK, Entries
  <1>7. Jobs'
    <2>0. /\ pc \in [Thread -> {"idle", "search", "fork", "put", "queued", "created", "lookup"}]
          /\ new \in [Thread -> Pid \cup {NoPid}]
      BY DEF TypeOK
    <2>1. \A u, v \in Thread :
             pc'[u] \in {"fork", "put"} /\ pc'[v] \in {"fork", "put"} /\ job'[u] = job'[v]
             => u = v
      BY <1>2, <2>0 DEF Jobs
    <2>2. \A u \in Thread : pc'[u] = "fork" =>
             \A p \in Pid : Used(p)' => role'[p] # job'[u]
      <3>1. \A u \in Thread : pc'[u] = "fork" => u # t /\ pc[u] = "fork" /\ job[u] # job[t]
        BY <1>2, <2>0 DEF Jobs
      <3>. QED
        BY <1>2, <1>4, <3>1 DEF Jobs
    <2>3. \A e \in pidQueue : e.role # job[t]
      BY <1>3, <1>e
    <2>4. ASSUME NEW u \in Thread, pc'[u] = "put"
          PROVE  /\ new'[u] \in Pid /\ proc'[new'[u]] # "unused" /\ role'[new'[u]] = job'[u]
                 /\ \A p \in Pid : Used(p)' /\ role'[p] = job'[u] => p = new'[u]
                 /\ \A e \in pidQueue' : e.role # job'[u]
      <3>1. CASE u = t
        BY <1>1, <1>2, <1>3, <1>4, <2>0, <2>3, <3>1
      <3>2. CASE u # t
        <4>1. pc[u] = "put" /\ job[u] # job[t] /\ new'[u] = new[u] /\ job'[u] = job[u]
          BY <1>1, <1>2, <2>0, <2>4, <3>2 DEF Jobs
        <4>2. /\ new[u] \in Pid /\ Used(new[u]) /\ role[new[u]] = job[u]
              /\ \A p \in Pid : Used(p) /\ role[p] = job[u] => p = new[u]
              /\ \A e \in pidQueue : e.role # job[u]
          BY <4>1 DEF Jobs
        <4>3. proc'[new[u]] # "unused" /\ role'[new[u]] = job[u]
          BY <1>4, <4>2
        <4>. QED
          BY <1>2, <1>4, <4>1, <4>2, <4>3 DEF Used
      <3>. QED
        BY <3>1, <3>2
    <2>. QED
      BY <2>1, <2>2, <2>4 DEF Jobs
  <1>8. Entries'
    <2>1. \A e \in pidQueue' : Used(e.pid)' /\ role'[e.pid] = e.role
      BY <1>2, <1>4, <1>e
    <2>2. \A e \in pidQueue' : \A p \in Pid :
             Used(p)' /\ role'[p] = e.role /\ e.pid < p =>
                \E u \in Thread : at'[u] = "setpid" /\ quit'[u] = e.pid /\ again'[u] = p
      BY <1>2, <1>3, <1>4, <1>e DEF Entries, handlers
    <2>3. \A p \in Pid : proc'[p] = "running" =>
             \E e \in pidQueue' : e.pid = p /\ e.running
      BY <1>2, <1>4 DEF Entries
    <2>4. \A e, f \in pidQueue' : e.role = f.role => e = f
      BY <1>2 DEF Entries
    <2>. QED
      BY <2>1, <2>2, <2>3, <2>4 DEF Entries
  <1>9. Handlers'
    <2>1. ASSUME NEW u \in Thread, at[u] = "setpid"
          PROVE  /\ again[u] \in Pid /\ proc'[again[u]] # "unused" /\ quit[u] < again[u]
                 /\ role'[again[u]] = role'[quit[u]]
                 /\ \A p \in Pid : proc'[p] # "unused" /\ role'[p] = role'[quit[u]] => p <= again[u]
      <3>1. /\ again[u] \in Pid /\ Used(again[u]) /\ quit[u] < again[u]
            /\ quit[u] \in Pid /\ Used(quit[u]) /\ role[again[u]] = role[quit[u]]
            /\ \A p \in Pid : Used(p) /\ role[p] = role[quit[u]] => p <= again[u]
        BY <2>1 DEF Handlers, Used
      <3>. QED
        BY <1>3, <1>4, <3>1
    <2>2. UNCHANGED <<at, quit, again, pidQueue>>
      BY <1>2 DEF handlers
    <2>. QED
      BY <1>4, <2>1, <2>2 DEF Handlers
  <1>. QED
    BY <1>5, <1>6, <1>7, <1>8, <1>9


\* A thread chooses a process that was not created.
LEMMA ChooseStep ==
    ASSUME Core, NEW t \in Thread, NEW r \in Role, r \notin created,
           UNCHANGED <<proc, role, pidQueue, new, handlers>>,
           pc[t] \notin {"fork", "put"}, pc' = [pc EXCEPT ![t] = "fork"],
           job' = [job EXCEPT ![t] = r], created' = created \cup {r},
           \/ t = manager /\ Cardinality(created) >= Len(Static)
           \/ /\ t = main /\ Cardinality(created) < Len(Static)
              /\ r = Static[Cardinality(created) + 1]
    PROVE  Shape'
  <1> USE DEF Core, Shape, Used
  <1>0. /\ pc \in [Thread -> {"idle", "search", "fork", "put", "queued", "created", "lookup"}]
        /\ job \in [Thread -> Role \cup {"none"}]
    BY DEF TypeOK
  <1>1. Order'
    BY DEF Order
  <1>2. Roles'
    <2>1. /\ IsFiniteSet(created') /\ Cardinality(created) \in Nat
          /\ Cardinality(created') = Cardinality(created) + 1
      BY FS_AddElement, FS_CardinalityType DEF Roles
    <2>2. Len(Static) \in Nat
      BY SupervisorAssumption
    <2>3. Cardinality(created') < Len(Static) =>
             created' = {Static[i] : i \in 1 .. Cardinality(created')}
      <3>1. SUFFICES ASSUME Cardinality(created') < Len(Static)
            PROVE  created' = {Static[i] : i \in 1 .. Cardinality(created')}
        OBVIOUS
      <3>2. /\ r = Static[Cardinality(created) + 1]
            /\ created = {Static[i] : i \in 1 .. Cardinality(created)}
        BY <2>1, <2>2, <3>1 DEF Roles
      <3>3. \A i : i \in 1 .. Cardinality(created) + 1
                     <=> i \in 1 .. Cardinality(created) \/ i = Cardinality(created) + 1
        BY <2>1
      <3>. QED
        BY <2>1, <3>2, <3>3
    <2>4. pc'[manager] # "idle" => Cardinality(created') >= Len(Static)
      <3>1. CASE t = manager
        BY <2>1, <2>2, <3>1, ThreadFacts
      <3>2. CASE t = main
        BY <1>0, <2>1, <2>2, <3>2, ThreadFacts DEF Roles
      <3>. QED
        BY <3>1, <3>2
    <2>5. \A p \in Pid : proc'[p] # "unused" => role'[p] \in created'
      BY DEF Roles
    <2>6. \A u \in Thread : pc'[u] \in {"fork", "put"} => job'[u] \in created'
      BY <1>0 DEF Roles
    <2>. QED
      BY <2>1, <2>3, <2>4, <2>5, <2>6 DEF Roles
  <1>3. Jobs'
    <2>1. \A p \in Pid : Used(p) => role[p] # r
      BY DEF Roles
    <2>2. \A u \in Thread : pc[u] \in {"fork", "put"} => job[u] # r
      BY DEF Roles
    <2>3. \A u, v \in Thread :
             pc'[u] \in {"fork", "put"} /\ pc'[v] \in {"fork", "put"} /\ job'[u] = job'[v]
             => u = v
      BY <1>0, <2>2 DEF Jobs
    <2>4. \A u \in Thread : pc'[u] = "fork" =>
             \A p \in Pid : proc'[p] # "unused" => role'[p] # job'[u]
      BY <1>0, <2>1 DEF Jobs
    <2>5. \A u \in Thread : pc'[u] = "put" => pc[u] = "put" /\ job'[u] = job[u]
      BY <1>0
    <2>. QED
      BY <2>3, <2>4, <2>5 DEF Jobs
  <1>4. Entries'
    BY DEF Entries, handlers
  <1>5. Handlers'
    BY DEF Handlers, handlers
  <1>. QED
    BY <1>1, <1>2, <1>3, <1>4, <1>5

LEMMA TasksStep ==
    ASSUME Core, createTasks
    PROVE  Shape'
  <1> DEFINE n == Cardinality(created)
  <1>1. /\ n \in Nat /\ n < Len(Static) /\ Len(Static) \in Nat
        /\ created = {Static[i] : i \in 1 .. n}
    BY FS_CardinalityType, SupervisorAssumption DEF createTasks, Core, Shape, Roles
  <1>2. Static[n + 1] \in Role /\ Static[n + 1] \notin created
    <2>1. n + 1 \in DOMAIN Static /\ \A i \in 1 .. n : i \in DOMAIN Static /\ i # n + 1
      BY <1>1, SupervisorAssumption
    <2>2. \A i \in 1 .. n : Static[i] # Static[n + 1]
      BY <2>1, SupervisorAssumption
    <2>. QED
      BY <1>1, <2>1, <2>2, SupervisorAssumption DEF Role
  <1>3. /\ pc[main] = "idle" /\ pc' = [pc EXCEPT ![main] = "fork"]
        /\ job' = [job EXCEPT ![main] = Static[n + 1]]
        /\ created' = created \cup {Static[n + 1]}
        /\ UNCHANGED <<proc, role, pidQueue, new, handlers>>
    BY DEF createTasks, At, Go
  <1>. QED
    BY <1>1, <1>2, <1>3, ThreadFacts, ChooseStep

LEMMA SearchedStep ==
    ASSUME Core, Searched
    PROVE  Shape'
  <1>1. /\ pc[manager] = "search" /\ UNCHANGED <<proc, role, pidQueue, new, handlers>>
        /\ Cardinality(created) >= Len(Static)
    BY DEF Searched, At, Core, Shape, Roles
  <1>2. CASE \E r \in Dynamic \ created :
               /\ job' = [job EXCEPT ![manager] = r]
               /\ created' = created \cup {r}
               /\ Go(manager, "fork")
    <2>1. PICK r \in Dynamic \ created :
               /\ job' = [job EXCEPT ![manager] = r]
               /\ created' = created \cup {r}
               /\ pc' = [pc EXCEPT ![manager] = "fork"]
      BY <1>2 DEF Go
    <2>2. r \in Role /\ r \notin created
      BY DEF Role
    <2>. QED
      BY <1>1, <2>1, <2>2, ThreadFacts, ChooseStep
  <1>3. CASE /\ UNCHANGED <<job, created>>
             /\ Go(manager, "created") \/ Go(manager, "idle")
    <2>1. \A u \in Thread : pc'[u] = pc[u] \/ pc'[u] \notin {"fork", "put"}
      BY <1>3 DEF Go, Core, TypeOK
    <2>. QED
      BY <1>1, <1>3, <2>1, ThreadOnly
  <1>. QED
    BY <1>2, <1>3 DEF Searched

LEMMA PutStep ==
    ASSUME Core, NEW t \in Thread, put2PidQueue(t)
    PROVE  Shape'
  <1> USE DEF Core, Shape, Used
  <1> DEFINE f == [role |-> job[t], pid |-> new[t], running |-> FALSE, recent |-> FALSE]
  <1>1. /\ pc[t] = "put" /\ pc' = [pc EXCEPT ![t] = "queued"]
        /\ UNCHANGED <<proc, role, job, new, created, handlers>>
        /\ pidQueue' = pidQueue \/ pidQueue' = pidQueue \cup {f}
    BY DEF put2PidQueue, At, Go
  <1>0. pc \in [Thread -> {"idle", "search", "fork", "put", "queued", "created", "lookup"}]
    BY DEF TypeOK
  <1>2. /\ new[t] \in Pid /\ Used(new[t]) /\ role[new[t]] = job[t]
        /\ \A p \in Pid : Used(p) /\ role[p] = job[t] => p = new[t]
        /\ \A e \in pidQueue : e.role # job[t]
    BY <1>1 DEF Jobs
  <1>3. f.role = job[t] /\ f.pid = new[t]
    OBVIOUS
  <1> HIDE DEF f
  <1>4. Order'
    BY <1>1 DEF Order
  <1>5. Roles'
    <2>1. pc'[manager] # "idle" => pc[manager] # "idle"
      BY <1>0, <1>1, ThreadFacts
    <2>2. \A u \in Thread : pc'[u] \in {"fork", "put"} => pc[u] \in {"fork", "put"}
      BY <1>0, <1>1
    <2>. QED
      BY <1>1, <2>1, <2>2 DEF Roles
  <1>6. Jobs'
    <2>1. \A u \in Thread : pc'[u] \in {"fork", "put"} => u # t /\ pc'[u] = pc[u]
      BY <1>0, <1>1
    <2>2. \A u \in Thread : pc'[u] = "put" => job[u] # job[t]
      BY <1>1, <2>1 DEF Jobs
    <2>3. \A u \in Thread : pc'[u] = "put" => \A e \in pidQueue' : e.role # job[u]
      BY <1>1, <1>3, <2>1, <2>2 DEF Jobs
    <2>. QED
      BY <1>1, <2>1, <2>3 DEF Jobs
  <1>7. Entries'
    <2>1. \A e \in pidQueue' : e \in pidQueue \/ e = f
      BY <1>1
    <2>2. \A e \in pidQueue' : proc'[e.pid] # "unused" /\ role'[e.pid] = e.role
      BY <1>1, <1>2, <1>3, <2>1 DEF Entries
    <2>3. \A e, g \in pidQueue' : e.role = g.role => e = g
      BY <1>2, <1>3, <2>1 DEF Entries
    <2>4. \A e \in pidQueue' : \A p \in Pid :
             proc'[p] # "unused" /\ role'[p] = e.role /\ e.pid < p =>
                \E u \in Thread : at'[u] = "setpid" /\ quit'[u] = e.pid /\ again'[u] = p
      <3>0. \A n \in Nat : ~(n < n)
        OBVIOUS
      <3>1. ~(new[t] < new[t])
        BY <1>2, <3>0, ThreadFacts
      <3>. QED
        BY <1>1, <1>2, <1>3, <2>1, <3>1 DEF Entries, handlers
    <2>5. \A p \in Pid : proc'[p] = "running" =>
             \E e \in pidQueue' : e.pid = p /\ e.running
      BY <1>1 DEF Entries
    <2>. QED
      BY <2>2, <2>3, <2>4, <2>5 DEF Entries
  <1>8. Handlers'
    BY <1>1 DEF Handlers, handlers
  <1>. QED
    BY <1>4, <1>5, <1>6, <1>7, <1>8


-----------------------------------------------------------------------------
(* The handler *)

LEMMA DeliverStep ==
    ASSUME Core, NEW t \in Thread, Deliver(t)
    PROVE  Shape'
  <1> USE DEF Core, Shape, Used
  <1>1. /\ at[t] = "none" /\ at' = [at EXCEPT ![t] = "wait"]
        /\ UNCHANGED <<proc, role, pidQueue, threads, quit, again>>
    BY DEF Deliver
  <1>2. at \in [Thread -> {"none", "wait", "find", "delete", "fork", "setpid"}]
    BY DEF TypeOK
  <1>3. \A u \in Thread : at'[u] = at[u] \/ (at[u] = "none" /\ at'[u] = "wait")
    BY <1>1, <1>2
  <1>4. Order' /\ Roles' /\ Jobs'
    BY <1>1 DEF Order, Roles, Jobs, threads
  <1>5. Entries'
    BY <1>1, <1>3 DEF Entries
  <1>6. Handlers'
    BY <1>1, <1>3 DEF Handlers
  <1>. QED
    BY <1>4, <1>5, <1>6

LEMMA QuitStep ==
    ASSUME Core, NEW t \in Thread, main_child_quit_signal(t)
    PROVE  Shape'
  <1> USE DEF Core, Shape, Used
  <1>1. PICK p \in Pid : /\ proc[p] = "zombie"
                         /\ proc' = [proc EXCEPT ![p] = "reaped"]
                         /\ quit' = [quit EXCEPT ![t] = p]
    BY DEF main_child_quit_signal
  <1>2. /\ at[t] = "wait" /\ at' = [at EXCEPT ![t] = "find"]
        /\ UNCHANGED <<role, pidQueue, threads, again>>
    BY DEF main_child_quit_signal
  <1>3. /\ at \in [Thread -> {"none", "wait", "find", "delete", "fork", "setpid"}]
        /\ quit \in [Thread -> Pid \cup {NoPid}]
        /\ proc \in [Pid -> Alive \cup {"unused", "zombie", "reaped"}]
    BY DEF TypeOK
  <1>4. /\ \A q \in Pid : proc'[q] # "unused" <=> proc[q] # "unused"
        /\ \A q \in Pid : proc[q] = "reaped" => proc'[q] = "reaped"
        /\ \A q \in Pid : proc'[q] = "running" => proc[q] = "running"
        /\ proc'[p] = "reaped"
    BY <1>1, <1>3
  <1>5. /\ \A u \in Thread : u # t => at'[u] = at[u] /\ quit'[u] = quit[u]
        /\ at'[t] = "find" /\ quit'[t] = p
    BY <1>1, <1>2, <1>3
  <1>6. \A u \in Thread : quit[u] # p
    <2>1. \A u \in Thread : at[u] \in {"none", "wait"} => quit[u] = NoPid
      BY DEF Handlers
    <2>2. \A u \in Thread : at[u] \notin {"none", "wait"} => proc[quit[u]] = "reaped"
      BY <1>3 DEF Handlers
    <2>. QED
      BY <1>1, <2>1, <2>2, ThreadFacts
  <1>7. Order'
    BY <1>2, <1>4 DEF Order
  <1>8. Roles'
    BY <1>2, <1>4 DEF Roles, threads
  <1>9. Jobs'
    BY <1>2, <1>4 DEF Jobs, threads
  <1>10. Entries'
    <2>1. \A e \in pidQueue : e.pid \in Pid
      BY DEF TypeOK
    <2>2. \A u \in Thread : at[u] = "setpid" => at'[u] = "setpid" /\ quit'[u] = quit[u]
      BY <1>2, <1>5
    <2>. QED
      BY <1>2, <1>4, <2>1, <2>2 DEF Entries
  <1>11. Handlers'
    <2>1. \A u, v \in Thread : quit'[u] = quit'[v] => u = v \/ quit'[u] = NoPid
      BY <1>5, <1>6 DEF Handlers
    <2>2. \A u \in Thread : at'[u] = "setpid" => u # t /\ at[u] = "setpid" /\ quit'[u] = quit[u]
      BY <1>5
    <2>. QED
      BY <1>2, <1>4, <1>5, <2>1, <2>2 DEF Handlers
  <1>. QED
    BY <1>7, <1>8, <1>9, <1>10, <1>11

\* The handler goes on with the entry it has found, or returns.
LEMMA FoundStep ==
    ASSUME Core, NEW t \in Thread, creatProcByPid(t)
    PROVE  Shape'
  <1> USE DEF Core, Shape, Used
  <1>0. /\ at \in [Thread -> {"none", "wait", "find", "delete", "fork", "setpid"}]
        /\ quit \in [Thread -> Pid \cup {NoPid}]
        /\ again \in [Thread -> Pid \cup {NoPid}]
    BY DEF TypeOK
  <1>1. at[t] = "find" /\ UNCHANGED <<proc, role, pidQueue, threads>>
    BY DEF creatProcByPid
  <1>2. \/ Back(t)
        \/ /\ Linked(quit[t]) /\ UNCHANGED <<quit, again>>
           /\ \/ at' = [at EXCEPT ![t] = "delete"]
              \/ at' = [at EXCEPT ![t] = "fork"]
    BY DEF creatProcByPid
  <1>3. /\ \A u \in Thread : u # t =>
              at'[u] = at[u] /\ quit'[u] = quit[u] /\ again'[u] = again[u]
        /\ \/ at'[t] = "none" /\ quit'[t] = NoPid
           \/ at'[t] \in {"delete", "fork"} /\ quit'[t] = quit[t] /\ Linked(quit[t])
    BY <1>0, <1>2 DEF Back
  <1>4. Order' /\ Roles' /\ Jobs'
    BY <1>1 DEF Order, Roles, Jobs, threads
  <1>5. Entries'
    <2>1. \A u \in Thread : at[u] = "setpid" => u # t
      BY <1>1
    <2>. QED
      BY <1>1, <1>3, <2>1 DEF Entries
  <1>6. Handlers'
    <2>1. \A u, v \in Thread : quit'[u] = quit'[v] => u = v \/ quit'[u] = NoPid
      BY <1>3 DEF Handlers
    <2>2. \A u \in Thread : at'[u] \in {"find", "delete", "fork", "setpid"} =>
             quit'[u] \in Pid /\ proc'[quit'[u]] = "reaped"
      BY <1>1, <1>3 DEF Handlers
    <2>3. \A u \in Thread : at'[u] \in {"delete", "fork", "setpid"} =>
             \E e \in pidQueue' : e.pid = quit'[u]
      BY <1>1, <1>3 DEF Handlers, Linked
    <2>4. \A u \in Thread : at'[u] \in {"none", "wait"} => quit'[u] = NoPid
      BY <1>3 DEF Handlers
    <2>5. \A u \in Thread : at'[u] = "setpid" => u # t
      BY <1>3
    <2>. QED
      BY <1>1, <1>3, <2>1, <2>2, <2>3, <2>4, <2>5 DEF Handlers
  <1>. QED
    BY <1>4, <1>5, <1>6

LEMMA DeleteStep ==
    ASSUME Core, NEW t \in Thread, delOpsByPid(t)
    PROVE  Shape'
  <1> USE DEF Core, Shape, Used
  <1>0. /\ at \in [Thread -> {"none", "wait", "find", "delete", "fork", "setpid"}]
        /\ quit \in [Thread -> Pid \cup {NoPid}]
        /\ again \in [Thread -> Pid \cup {NoPid}]
    BY DEF TypeOK
  <1>1. /\ at[t] = "delete" /\ UNCHANGED <<proc, role, threads>>
        /\ pidQueue' = {e \in pidQueue : e.pid # quit[t]}
    BY DEF delOpsByPid, Remaining
  <1>2. /\ \A u \in Thread : u # t =>
              at'[u] = at[u] /\ quit'[u] = quit[u] /\ again'[u] = again[u]
        /\ at'[t] = "none" /\ quit'[t] = NoPid
    BY <1>0 DEF delOpsByPid, Back
  <1>3. quit[t] \in Pid /\ proc[quit[t]] = "reaped"
    BY <1>1 DEF Handlers
  <1>4. Order' /\ Roles' /\ Jobs'
    BY <1>1 DEF Order, Roles, Jobs, threads
  <1>5. Entries'
    BY <1>1, <1>2, <1>3 DEF Entries
  <1>6. Handlers'
    <2>1. \A u, v \in Thread : quit'[u] = quit'[v] => u = v \/ quit'[u] = NoPid
      BY <1>2 DEF Handlers
    <2>2. \A u \in Thread : at'[u] \in {"delete", "fork", "setpid"} =>
             u # t /\ quit[u] # quit[t]
      BY <1>2, <1>3, ThreadFacts DEF Handlers
    <2>3. \A u \in Thread : at'[u] \in {"delete", "fork", "setpid"} =>
             \E e \in pidQueue' : e.pid = quit'[u]
      BY <1>1, <1>2, <2>2 DEF Handlers
    <2>. QED
      BY <1>1, <1>2, <2>1, <2>3 DEF Handlers
  <1>. QED
    BY <1>4, <1>5, <1>6

LEMMA RestartStep ==
    ASSUME Core, NEW t \in Thread, Restart(t)
    PROVE  Shape'
  <1> USE DEF Core, Shape, Used
  <1>0. /\ at \in [Thread -> {"none", "wait", "find", "delete", "fork", "setpid"}]
        /\ again \in [Thread -> Pid \cup {NoPid}]
        /\ \A e \in pidQueue : e.pid \in Pid /\ e.role \in Role
    BY DEF TypeOK
  <1>1. /\ at[t] = "fork" /\ at' = [at EXCEPT ![t] = "setpid"]
        /\ UNCHANGED <<pidQueue, threads, quit>>
    BY DEF Restart
  <1>2. PICK e \in pidQueue : e.pid = quit[t]
    BY <1>1 DEF Handlers
  <1>3. EntryOf(quit[t]) = e
    BY <1>2, EntryOfIs
  <1> DEFINE r == e.role
  <1>4. PICK q \in Pid : Forked(q, r) /\ again' = [again EXCEPT ![t] = q]
    BY <1>3 DEF Restart
  <1>5. /\ quit[t] \in Pid /\ proc[quit[t]] = "reaped" /\ role[quit[t]] = r
        /\ r \in Role
    BY <1>0, <1>1, <1>2 DEF Handlers, Entries
  <1>6. \A p \in Pid : Used(p) /\ role[p] = r => proc[p] = "reaped"
    <2>1. ASSUME NEW p \in Pid, Used(p), role[p] = r, quit[t] < p PROVE FALSE
      <3>1. PICK u \in Thread : at[u] = "setpid" /\ quit[u] = quit[t]
        BY <1>2, <2>1 DEF Entries
      <3>2. u = t
        BY <1>5, <3>1, ThreadFacts DEF Handlers
      <3>. QED
        BY <1>1, <3>1, <3>2
    <2>2. \A p \in Pid : p \in Int
      BY ThreadFacts
    <2>3. \A p \in Pid : p < quit[t] \/ p = quit[t] \/ quit[t] < p
      BY <1>5, <2>2
    <2>. QED
      BY <1>5, <2>1, <2>3 DEF Order
  <1> HIDE DEF r
  <1>7. /\ proc'[q] = "starting" /\ role'[q] = r /\ ~Used(q)
        /\ \A p \in Pid : proc'[p] # "unused" <=> Used(p) \/ p = q
        /\ \A p \in Pid : Used(p) =>
              p < q /\ role'[p] = role[p] /\ proc'[p] = proc[p]
        /\ \A p \in Pid : proc'[p] = "running" => proc[p] = "running"
        /\ \A p \in Pid : proc[p] = "reaped" => proc'[p] = "reaped"
    BY <1>4, <1>5, NewPid
  <1>8. /\ \A u \in Thread : u # t => at'[u] = at[u] /\ again'[u] = again[u]
        /\ at'[t] = "setpid" /\ again'[t] = q
    BY <1>0, <1>1, <1>4
  <1>9. Order'
    BY <1>4, <1>5, <1>6, ForkOrder
  <1>10. r \in created
    BY <1>5 DEF Roles
  <1>11. Roles'
    <2>1. \A p \in Pid : proc'[p] # "unused" => role'[p] \in created'
      BY <1>1, <1>7, <1>10 DEF Roles, threads
    <2>. QED
      BY <1>1, <2>1 DEF Roles, threads
  <1>12. Jobs'
    <2>1. \A u \in Thread : pc[u] = "fork" => job[u] # r
      BY <1>5 DEF Jobs
    <2>2. \A u \in Thread : pc[u] = "put" => job[u] # r
      BY <1>2 DEF Jobs, r
    <2>3. \A u \in Thread : pc'[u] = "fork" =>
             \A p \in Pid : proc'[p] # "unused" => role'[p] # job'[u]
      BY <1>1, <1>7, <2>1 DEF Jobs, threads
    <2>4. \A u \in Thread : pc'[u] = "put" =>
             /\ new'[u] \in Pid /\ proc'[new'[u]] # "unused" /\ role'[new'[u]] = job'[u]
             /\ \A p \in Pid : proc'[p] # "unused" /\ role'[p] = job'[u] => p = new'[u]
             /\ \A f \in pidQueue' : f.role # job'[u]
      BY <1>1, <1>7, <2>2 DEF Jobs, threads
    <2>. QED
      BY <1>1, <2>3, <2>4 DEF Jobs, threads
  <1>13. Entries'
    <2>1. \A f \in pidQueue' : proc'[f.pid] # "unused" /\ role'[f.pid] = f.role
      BY <1>0, <1>1, <1>7 DEF Entries
    <2>2. ASSUME NEW f \in pidQueue', NEW p \in Pid,
                 proc'[p] # "unused", role'[p] = f.role, f.pid < p
          PROVE  \E u \in Thread : at'[u] = "setpid" /\ quit'[u] = f.pid /\ again'[u] = p
      <3>0. f \in pidQueue
        BY <1>1
      <3>1. CASE p = q
        <4>1. f = e
          BY <1>2, <1>7, <2>2, <3>0, <3>1 DEF Entries, r
        <4>. QED
          BY <1>1, <1>2, <1>8, <3>1, <4>1
      <3>2. CASE p # q
        <4>1. Used(p) /\ role[p] = f.role
          BY <1>7, <2>2, <3>2
        <4>2. PICK u \in Thread : at[u] = "setpid" /\ quit[u] = f.pid /\ again[u] = p
          BY <2>2, <3>0, <4>1 DEF Entries
        <4>3. u # t
          BY <1>1, <4>2
        <4>. QED
          BY <1>1, <1>8, <4>2, <4>3
      <3>. QED
        BY <3>1, <3>2
    <2>3. \A p \in Pid : proc'[p] = "running" =>
             \E f \in pidQueue' : f.pid = p /\ f.running
      BY <1>1, <1>7 DEF Entries
    <2>4. \A f, g \in pidQueue' : f.role = g.role => f = g
      BY <1>1 DEF Entries
    <2>. QED
      BY <2>1, <2>2, <2>3, <2>4 DEF Entries
  <1>14. Handlers'
    <2>1. ASSUME NEW u \in Thread, at'[u] = "setpid"
          PROVE  /\ again'[u] \in Pid /\ proc'[again'[u]] # "unused"
                 /\ quit'[u] < again'[u] /\ role'[again'[u]] = role'[quit'[u]]
                 /\ \A p \in Pid : proc'[p] # "unused" /\ role'[p] = role'[quit'[u]]
                                   => p <= again'[u]
      <3>1. CASE u = t
        <4>1. \A p \in Pid : Used(p) => p <= q
          <5>1. \A p \in Pid : p \in Int
            BY ThreadFacts
          <5>. QED
            BY <1>7, <5>1
        <4>2. Used(quit[t]) /\ q <= q
          BY <1>5, ThreadFacts
        <4>. QED
          BY <1>1, <1>5, <1>7, <1>8, <3>1, <4>1, <4>2
      <3>2. CASE u # t
        <4>1. /\ again[u] \in Pid /\ Used(again[u]) /\ quit[u] < again[u]
              /\ quit[u] \in Pid /\ Used(quit[u]) /\ role[again[u]] = role[quit[u]]
              /\ \A p \in Pid : Used(p) /\ role[p] = role[quit[u]] => p <= again[u]
          BY <1>8, <2>1, <3>2 DEF Handlers
        <4>2. role[quit[u]] # r
          <5>1. PICK f \in pidQueue : f.pid = quit[u]
            BY <1>8, <2>1, <3>2 DEF Handlers
          <5>2. f # e
            BY <1>2, <1>5, <3>2, <5>1, ThreadFacts DEF Handlers
          <5>. QED
            BY <1>2, <5>1, <5>2 DEF Entries, r
        <4>. QED
          BY <1>1, <1>7, <1>8, <3>2, <4>1, <4>2
      <3>. QED
        BY <3>1, <3>2
    <2>2. \A u \in Thread : at'[u] \in {"none", "wait"} => quit'[u] = NoPid
      BY <1>1, <1>8 DEF Handlers
    <2>3. \A u \in Thread : at'[u] \in {"find", "delete", "fork", "setpid"} =>
             quit'[u] \in Pid /\ proc'[quit'[u]] = "reaped"
      BY <1>1, <1>5, <1>7, <1>8 DEF Handlers
    <2>4. \A u \in Thread : at'[u] \in {"delete", "fork", "setpid"} =>
             \E f \in pidQueue' : f.pid = quit'[u]
      BY <1>1, <1>8 DEF Handlers
    <2>5. \A u, v \in Thread : quit'[u] = quit'[v] => u = v \/ quit'[u] = NoPid
      BY <1>1 DEF Handlers
    <2>. QED
      BY <2>1, <2>2, <2>3, <2>4, <2>5 DEF Handlers
  <1>. QED
    BY <1>9, <1>11, <1>12, <1>13, <1>14

LEMMA RestartedStep ==
    ASSUME Core, NEW t \in Thread, Restarted(t)
    PROVE  Shape'
  <1> USE DEF Core, Shape, Used
  <1>0. /\ at \in [Thread -> {"none", "wait", "find", "delete", "fork", "setpid"}]
        /\ quit \in [Thread -> Pid \cup {NoPid}]
        /\ again \in [Thread -> Pid \cup {NoPid}]
        /\ \A g \in pidQueue :
              g \in [role : Role, pid : Pid, running : BOOLEAN, recent : BOOLEAN]
    BY DEF TypeOK
  <1>1. at[t] = "setpid" /\ UNCHANGED <<proc, role, threads>>
    BY DEF Restarted
  <1>2. PICK e \in pidQueue : e.pid = quit[t]
    BY <1>1 DEF Handlers
  <1>3. EntryOf(quit[t]) = e
    BY <1>2, EntryOfIs
  <1> DEFINE f == [e EXCEPT !.pid = again[t], !.recent = TRUE]
  <1>4. pidQueue' = With(e, f)
    BY <1>3 DEF Restarted
  <1>5. f.pid = again[t] /\ f.role = e.role
    BY <1>0
  <1> HIDE DEF f
  <1>w. /\ \A g \in pidQueue' : g = f \/ (g \in pidQueue /\ g # e)
        /\ \A g \in pidQueue : g \in pidQueue' \/ g = e
        /\ f \in pidQueue'
    BY <1>4 DEF With
  <1>6. /\ \A u \in Thread : u # t =>
              at'[u] = at[u] /\ quit'[u] = quit[u] /\ again'[u] = again[u]
        /\ at'[t] = "none" /\ quit'[t] = NoPid
    BY <1>0 DEF Restarted, Back
  <1>7. /\ quit[t] \in Pid /\ proc[quit[t]] = "reaped" /\ role[quit[t]] = e.role
        /\ again[t] \in Pid /\ Used(again[t]) /\ quit[t] < again[t]
        /\ role[again[t]] = e.role
        /\ \A p \in Pid : Used(p) /\ role[p] = e.role => p <= again[t]
    BY <1>1, <1>2 DEF Handlers, Entries
  <1>8. Order' /\ Roles'
    BY <1>1 DEF Order, Roles, threads
  <1>9. Jobs'
    <2>1. \A g \in pidQueue' : \E h \in pidQueue : h.role = g.role
      BY <1>5, <1>w
    <2>. QED
      BY <1>1, <2>1 DEF Jobs, threads
  <1>10. Entries'
    <2>1. \A g \in pidQueue' : proc'[g.pid] # "unused" /\ role'[g.pid] = g.role
      BY <1>1, <1>5, <1>7, <1>w DEF Entries
    <2>2. \A g, h \in pidQueue' : g.role = h.role => g = h
      BY <1>5, <1>w DEF Entries
    <2>3. ASSUME NEW g \in pidQueue', NEW p \in Pid,
                 proc'[p] # "unused", role'[p] = g.role, g.pid < p
          PROVE  \E u \in Thread : at'[u] = "setpid" /\ quit'[u] = g.pid /\ again'[u] = p
      <3>1. CASE g = f
        <4>1. p <= again[t] /\ again[t] < p
          BY <1>1, <1>5, <1>7, <2>3, <3>1
        <4>2. p \in Int /\ again[t] \in Int
          <5>1. \A q \in Pid : q \in Int
            BY SupervisorAssumption
          <5>2. p \in Pid /\ again[t] \in Pid
            BY <1>7
          <5>. QED
            BY <5>1, <5>2
        <4>. QED
          BY <4>1, <4>2
      <3>2. CASE g # f
        <4>1. g \in pidQueue /\ g # e
          BY <1>w, <3>2
        <4>2. PICK u \in Thread : at[u] = "setpid" /\ quit[u] = g.pid /\ again[u] = p
          BY <1>1, <2>3, <4>1 DEF Entries
        <4>3. u # t
          <5>1. g.pid # e.pid
            BY <4>1 DEF Entries
          <5>. QED
            BY <1>2, <4>2, <5>1
        <4>. QED
          BY <1>6, <4>2, <4>3
      <3>. QED
        BY <3>1, <3>2
    <2>4. \A p \in Pid : proc'[p] = "running" =>
             \E g \in pidQueue' : g.pid = p /\ g.running
      BY <1>1, <1>2, <1>7, <1>w DEF Entries
    <2>. QED
      BY <2>1, <2>2, <2>3, <2>4 DEF Entries
  <1>11. Handlers'
    <2>1. \A u, v \in Thread : quit'[u] = quit'[v] => u = v \/ quit'[u] = NoPid
      BY <1>6 DEF Handlers
    <2>2. \A u \in Thread : at'[u] \in {"delete", "fork", "setpid"} =>
             u # t /\ quit[u] # quit[t]
      BY <1>6, <1>7, ThreadFacts DEF Handlers
    <2>3. \A u \in Thread : at'[u] \in {"delete", "fork", "setpid"} =>
             \E g \in pidQueue' : g.pid = quit'[u]
      BY <1>2, <1>6, <1>w, <2>2 DEF Handlers
    <2>. QED
      BY <1>1, <1>6, <2>1, <2>3 DEF Handlers
  <1>. QED
    BY <1>8, <1>9, <1>10, <1>11

-----------------------------------------------------------------------------
(* The invariant *)

LEMMA CoreInit == Init => Core
  <1> SUFFICES ASSUME Init PROVE Core
    OBVIOUS
  <1>1. TypeOK
    BY SupervisorAssumption DEF Init, TypeOK
  <1>2. Order /\ Entries /\ Handlers
    BY DEF Init, Order, Entries, Handlers, Used
  <1>3. Jobs
    BY DEF Init, Jobs
  <1>4. Roles
    <2>1. IsFiniteSet({}) /\ Cardinality({}) = 0
      BY FS_EmptySet
    <2>2. created = {} /\ {Static[i] : i \in 1 .. 0} = {}
      BY DEF Init
    <2>3. pc[manager] = "idle" /\ \A t \in Thread : pc[t] = "idle"
      BY ThreadFacts DEF Init
    <2>4. \A p \in Pid : ~Used(p)
      BY DEF Init, Used
    <2>. QED
      BY <2>1, <2>2, <2>3, <2>4 DEF Roles
  <1>. QED
    BY <1>1, <1>2, <1>3, <1>4 DEF Core, Shape

LEMMA CoreStep == Core /\ [Next]_vars => Core'
  <1>1. ASSUME Core, Next PROVE TypeOK'
    BY <1>1, TypeStep DEF Core, Shape
  <1>2. ASSUME Core, Next PROVE Shape'
    <2> USE <1>2 DEF Core, TypeOK
    <2>1. CASE createTasks
      BY <2>1, TasksStep
    <2>2. CASE getEmptyProc
      BY <2>2, ThreadFacts, ThreadOnly DEF getEmptyProc, Go
    <2>3. CASE Searched
      BY <2>3, SearchedStep
    <2>4. CASE getOpsByPid \/ LookedUp
      <3>1. pc[manager] # "idle" => Cardinality(created) >= Len(Static)
        BY DEF Shape, Roles
      <3>. QED
        BY <2>4, <3>1, ThreadFacts, ThreadOnly DEF getOpsByPid, LookedUp, At, Go
    <2>5. CASE Expire
      <3>1. PICK e \in pidQueue : pidQueue' = With(e, [e EXCEPT !.recent = FALSE])
        BY <2>5 DEF Expire
      <3>2. UNCHANGED <<proc, role, threads, handlers>>
        BY <2>5 DEF Expire
      <3> DEFINE f == [e EXCEPT !.recent = FALSE]
      <3>3. f.pid = e.pid /\ f.role = e.role /\ f.running = e.running
        OBVIOUS
      <3>4. pidQueue' = With(e, f)
        BY <3>1
      <3> HIDE DEF f
      <3>. QED
        BY <3>2, <3>3, <3>4, FlagsOnly
    <2>6. ASSUME NEW t \in Thread, ThreadStep(t) PROVE Shape'
      <3>1. CASE Queued(t)
        <4>1. /\ UNCHANGED <<proc, role, pidQueue, handlers, job, new, created>>
              /\ pc' = [pc EXCEPT ![t] = IF t = main THEN "idle" ELSE "created"]
              /\ pc[t] = "queued"
          BY <3>1 DEF Queued, Go, At
        <4>2. pc'[manager] # "idle" => pc[manager] # "idle"
          BY <4>1, ThreadFacts
        <4>3. pc[manager] # "idle" => Cardinality(created) >= Len(Static)
          BY DEF Shape, Roles
        <4>4. \A u \in Thread : pc'[u] = pc[u] \/ pc'[u] \notin {"fork", "put"}
          BY <4>1
        <4>. QED
          BY <4>1, <4>2, <4>3, <4>4, ThreadOnly
      <3>. QED
        BY <2>6, <3>1, CreateStep, PutStep DEF ThreadStep
    <2>7. ASSUME NEW t \in Thread, HandlerStep(t) PROVE Shape'
      BY <2>7, DeliverStep, QuitStep, FoundStep, DeleteStep, RestartStep, RestartedStep
         DEF HandlerStep
    <2>8. ASSUME NEW q \in Pid, ChildStep(q) PROVE Shape'
      <3>1. CASE Look(q)
        BY <3>1, ChildOnly DEF Look, Alive
      <3>2. CASE Unknown(q)
        BY <3>2, ChildOnly DEF Unknown, Exit, Alive
      <3>3. CASE getRealOps(q) /\ ~Linked(q)
        BY <3>3, ChildOnly DEF getRealOps, Alive
      <3>4. CASE getRealOps(q) /\ Linked(q)
        <4>1. PICK e \in pidQueue : e.pid = q
          BY <3>4 DEF Linked
        <4>2. EntryOf(q) = e
          BY <4>1, EntryOfIs
        <4> DEFINE f == [e EXCEPT !.running = TRUE]
        <4>3. f.pid = e.pid /\ f.role = e.role /\ f.running
          OBVIOUS
        <4>4. /\ pidQueue' = With(e, f) /\ proc[q] = "looking"
              /\ proc' = [proc EXCEPT ![q] = "running"]
              /\ UNCHANGED <<role, threads, handlers>>
          BY <3>4, <4>2 DEF getRealOps
        <4> HIDE DEF f
        <4>. QED
          BY <4>1, <4>3, <4>4, FlagsOnly
      <3>. QED
        BY <2>8, <3>1, <3>2, <3>3, <3>4 DEF ChildStep
    <2>9. ASSUME NEW q \in Pid, Die(q) PROVE Shape'
      BY <2>9, ChildOnly DEF Die, Exit, Ordinary, Alive
    <2>. QED
      BY ThreadFacts, <2>1, <2>2, <2>3, <2>4, <2>5, <2>6, <2>7, <2>8, <2>9 DEF Next, ManagerStep
  <1>3. ASSUME Core, UNCHANGED vars PROVE Core'
    BY <1>3 DEF Core, Shape, TypeOK, Order, Roles, Jobs, Entries, Handlers, Used,
                vars, threads, handlers, others
  <1>. QED
    BY <1>1, <1>2, <1>3 DEF Core

\* For any processes, pids and deaths there is one process at most for each
\* that was to be created, and one that runs is the one its entry names, set
\* running there (pids.cpp:39).
THEOREM ProcessSafe == Spec => []OneProcess
  <1>1. ASSUME Core PROVE OneProcess
    <2> USE DEF Core, Shape, Used, Alive
    <2>1. ASSUME NEW p \in Pid, NEW q \in Pid, proc[p] \in Alive, proc[q] \in Alive,
                 role[p] = role[q]
          PROVE  p = q
      <3>1. p < q \/ p = q \/ q < p
        BY ThreadFacts
      <3>. QED
        BY <1>1, <2>1, <3>1 DEF Order
    <2>2. ASSUME NEW p \in Pid, proc[p] = "running"
          PROVE  Linked(p) /\ EntryOf(p).running /\ EntryOf(p).role = role[p]
      <3>1. PICK e \in pidQueue : e.pid = p /\ e.running
        BY <1>1, <2>2 DEF Entries
      <3>2. EntryOf(p) = e
        BY <1>1, <3>1, EntryOfIs
      <3>. QED
        BY <1>1, <3>1, <3>2 DEF Linked, Entries
    <2>. QED
      BY <2>1, <2>2 DEF OneProcess
  <1>. QED
    BY <1>1, CoreInit, CoreStep, PTL DEF Spec

\* The handlers of two threads work on different entries, and none is taken out
\* of the queue while a handler works on it (main.cpp:32).
THEOREM EntrySafe == Spec => []HandlerEntry
  <1>1. Core => HandlerEntry
    BY DEF Core, Shape, Handlers, HandlerEntry, Linked
  <1>. QED
    BY <1>1, CoreInit, CoreStep, PTL DEF Spec

-----------------------------------------------------------------------------
(* The semaphore *)

LEMMA LockStep ==
    ASSUME Core, LockInv, Next
    PROVE  LockInv'
  <1> USE ThreadFacts DEF LockInv
  <1>0. /\ proc \in [Pid -> Alive \cup {"unused", "zombie", "reaped"}]
        /\ pc \in [Thread -> {"idle", "search", "fork", "put", "queued", "created", "lookup"}]
        /\ mutex_pid \in Thread \cup Pid \cup {Free}
    BY DEF Core, TypeOK
  \* A process that is not about to release changes.
  <1>p. ASSUME NEW q \in Pid, NEW x \in {"starting", "zombie", "reaped"},
               UNCHANGED <<pc, mutex_pid>>, proc' = [proc EXCEPT ![q] = x],
               x = "starting" => proc[q] = "unused"
        PROVE  LockInv'
    BY <1>0, <1>p
  \* A thread takes or releases it, or has nothing to do with it.
  <1>t. ASSUME NEW t \in Thread, NEW place, pc' = [pc EXCEPT ![t] = place],
               UNCHANGED proc,
               \/ /\ mutex_pid = Free /\ mutex_pid' = t
                  /\ place \in {"search", "queued", "lookup"}
               \/ /\ pc[t] \in {"search", "queued", "lookup"} /\ mutex_pid' = Free
                  /\ place \notin {"search", "queued", "lookup"}
        PROVE  LockInv'
    BY <1>0, <1>t
  <1>1. CASE createTasks
    BY <1>0, <1>1 DEF createTasks, At, Go
  <1>2. CASE getEmptyProc
    BY <1>2, <1>t DEF getEmptyProc, Go, Acquire
  <1>3. CASE Searched
    BY <1>3, <1>t DEF Searched, At, Go
  <1>4. CASE getOpsByPid
    BY <1>4, <1>t DEF getOpsByPid, Go, Acquire
  <1>5. CASE LookedUp
    BY <1>5, <1>t DEF LookedUp, At, Go
  <1>6. CASE Expire
    BY <1>6 DEF Expire, threads
  <1>7. ASSUME NEW t \in Thread, createProcess(t) PROVE LockInv'
    <2>1. PICK q \in Pid : proc[q] = "unused" /\ proc' = [proc EXCEPT ![q] = "starting"]
      BY <1>7 DEF createProcess, Forked
    <2>2. pc[t] = "fork" /\ pc' = [pc EXCEPT ![t] = "put"] /\ UNCHANGED mutex_pid
      BY <1>7 DEF createProcess, At, Go
    <2>. QED
      BY <1>0, <2>1, <2>2
  <1>8. ASSUME NEW t \in Thread, put2PidQueue(t) PROVE LockInv'
    BY <1>8, <1>t DEF put2PidQueue, Go, Acquire
  <1>9. ASSUME NEW t \in Thread, Queued(t) PROVE LockInv'
    BY <1>9, <1>t DEF Queued, At, Go
  <1>10. ASSUME NEW t \in Thread, Deliver(t) \/ creatProcByPid(t) \/ delOpsByPid(t)
                                  \/ Restarted(t)
         PROVE  LockInv'
    BY <1>10 DEF Deliver, creatProcByPid, delOpsByPid, Restarted, threads
  <1>11. ASSUME NEW t \in Thread, main_child_quit_signal(t) PROVE LockInv'
    <2>1. PICK q \in Pid : proc[q] = "zombie" /\ proc' = [proc EXCEPT ![q] = "reaped"]
      BY <1>11 DEF main_child_quit_signal
    <2>. QED
      BY <1>11, <1>p, <2>1 DEF main_child_quit_signal, threads
  <1>12. ASSUME NEW t \in Thread, Restart(t) PROVE LockInv'
    <2>1. PICK q \in Pid : proc[q] = "unused" /\ proc' = [proc EXCEPT ![q] = "starting"]
      BY <1>12 DEF Restart, Forked
    <2>. QED
      BY <1>12, <1>p, <2>1 DEF Restart, threads
  <1>13. ASSUME NEW q \in Pid, Look(q) PROVE LockInv'
    BY <1>0, <1>13 DEF Look, Acquire, threads
  <1>14. ASSUME NEW q \in Pid, getRealOps(q) PROVE LockInv'
    <2>1. PICK x \in {"starting", "running"} : proc' = [proc EXCEPT ![q] = x]
      BY <1>14 DEF getRealOps
    <2>2. /\ proc[q] = "looking" /\ mutex_pid = q /\ mutex_pid' = Free /\ UNCHANGED pc
      BY <1>14 DEF getRealOps, threads
    <2>. QED
      BY <1>0, <2>1, <2>2
  <1>15. ASSUME NEW q \in Pid, Unknown(q) \/ Die(q) PROVE LockInv'
    BY <1>15, <1>p DEF Unknown, Die, Exit, threads
  <1>. QED
    BY <1>1, <1>2, <1>3, <1>4, <1>5, <1>6, <1>7, <1>8, <1>9, <1>10, <1>11, <1>12, <1>13, <1>14, <1>15 DEF Next, ManagerStep, ThreadStep, HandlerStep, ChildStep

LEMMA LockInit == Init => LockInv
  BY ThreadFacts DEF Init, LockInv

LEMMA LockStutter == LockInv /\ UNCHANGED vars => LockInv'
  BY DEF LockInv, vars, threads

\* No thread releases what another holds, and a child that dies with mutex_pid
\* keeps it: the semaphore has one holder, the one that is between taking and
\* releasing it (pids.cpp:289).
THEOREM LockSafe == Spec => []LockInv
  BY CoreInit, CoreStep, LockInit, LockStep, LockStutter, PTL DEF Spec

-----------------------------------------------------------------------------
(* Signals *)

LEMMA WaitsInit == Init => Waits
  <1> SUFFICES ASSUME Init PROVE Waits
    OBVIOUS
  <1>1. Zombies = {} /\ {t \in Thread : at[t] = "wait"} = {} /\ sig = FALSE
    BY DEF Init, Zombies
  <1>2. Zombies = {p \in Pid : proc[p] = "zombie"}
    BY DEF Zombies
  <1>. QED
    BY <1>1, <1>2, FS_EmptySet DEF Waits, WaitNeverBlocks

\* The threads in wait().
Waiters == {t \in Thread : at[t] = "wait"}
Pending == IF sig THEN 1 ELSE 0

LEMMA WaitsIs ==
    /\ Waits <=> /\ IsFiniteSet(Zombies)
                 /\ Cardinality(Waiters) + Pending <= Cardinality(Zombies)
    /\ Waits' <=> /\ IsFiniteSet(Zombies')
                  /\ Cardinality(Waiters') + Pending' <= Cardinality(Zombies')
  BY DEF Waits, WaitNeverBlocks, Waiters, Pending, Zombies

LEMMA WaitersFinite == IsFiniteSet(Waiters) /\ IsFiniteSet(Waiters')
  <1>1. IsFiniteSet(Thread)
    <2>1. IsFiniteSet({main} \cup {manager} \cup {message})
      BY FS_Singleton, FS_AddElement
    <2>2. Thread = {main} \cup {manager} \cup {message}
      BY DEF Thread, Creator
    <2>. QED
      BY <2>1, <2>2
  <1>. QED
    BY <1>1, FS_Subset DEF Waiters

LEMMA WaitsSame ==
    ASSUME Waits, Zombies' = Zombies, Waiters' = Waiters, sig' = sig
    PROVE  Waits'
  <1>1. Pending' = Pending
    BY DEF Pending
  <1>2. /\ IsFiniteSet(Zombies)
        /\ Cardinality(Waiters) + Pending <= Cardinality(Zombies)
    BY WaitsIs
  <1>. QED
    BY <1>1, <1>2, WaitsIs

LEMMA WaitsStep ==
    ASSUME Core, Waits, Next
    PROVE  Waits'
  <1>0. /\ proc \in [Pid -> Alive \cup {"unused", "zombie", "reaped"}]
        /\ at \in [Thread -> {"none", "wait", "find", "delete", "fork", "setpid"}]
        /\ sig \in BOOLEAN
    BY DEF Core, TypeOK
  <1>c. /\ IsFiniteSet(Zombies) /\ IsFiniteSet(Waiters)
        /\ Cardinality(Zombies) \in Nat /\ Cardinality(Waiters) \in Nat
        /\ Cardinality(Waiters) + Pending <= Cardinality(Zombies)
        /\ IsFiniteSet(Zombies') /\ Cardinality(Waiters') + Pending' <= Cardinality(Zombies')
              => Waits'
    BY WaitsIs, WaitersFinite, FS_CardinalityType
  <1>1. ASSUME Waiters' = Waiters, sig' = sig,
               \/ UNCHANGED proc
               \/ \E q \in Pid, x \in Alive :
                     proc[q] # "zombie" /\ proc' = [proc EXCEPT ![q] = x]
        PROVE  Waits'
    <2>1. Zombies' = Zombies
      BY <1>0, <1>1 DEF Zombies, Alive
    <2>. QED
      BY <1>1, <2>1, WaitsSame
  <1>2. ASSUME NEW q \in Pid, proc[q] \in Alive, Exit(q), UNCHANGED at PROVE Waits'
    <2>1. Zombies' = Zombies \cup {q} /\ q \notin Zombies
      BY <1>0, <1>2 DEF Exit, Zombies, Alive
    <2>2. Waiters' = Waiters /\ sig' = TRUE
      BY <1>2 DEF Waiters, Exit
    <2>. QED
      <3>1. /\ IsFiniteSet(Zombies \cup {q})
            /\ Cardinality(Zombies \cup {q}) = Cardinality(Zombies) + 1
        BY <1>c, <2>1, FS_AddElement
      <3>2. Pending' = 1 /\ Pending \in 0 .. 1
        BY <2>2 DEF Pending
      <3>3. IsFiniteSet(Zombies') /\ Cardinality(Zombies') = Cardinality(Zombies) + 1
        BY <2>1, <3>1
      <3>. QED
        BY <1>c, <2>2, <3>2, <3>3
  <1>3. CASE createTasks \/ getEmptyProc \/ ManagerStep \/ Expire
    <2>1. UNCHANGED <<proc, at, sig>>
      BY <1>3 DEF createTasks, getEmptyProc, ManagerStep, Searched, getOpsByPid,
                  LookedUp, Expire, handlers
    <2>. QED
      BY <1>1, <2>1 DEF Waiters
  <1>4. ASSUME NEW t \in Thread, ThreadStep(t) PROVE Waits'
    <2>1. UNCHANGED <<at, sig>>
      BY <1>4 DEF ThreadStep, createProcess, put2PidQueue, Queued, handlers
    <2>2. \/ UNCHANGED proc
          \/ \E q \in Pid : proc[q] = "unused" /\ proc' = [proc EXCEPT ![q] = "starting"]
      BY <1>4 DEF ThreadStep, createProcess, put2PidQueue, Queued, Forked
    <2>. QED
      BY <1>1, <2>1, <2>2 DEF Waiters, Alive
  <1>5. ASSUME NEW t \in Thread, Deliver(t) PROVE Waits'
    <2>1. /\ sig = TRUE /\ sig' = FALSE /\ UNCHANGED proc
          /\ at[t] = "none" /\ at' = [at EXCEPT ![t] = "wait"]
      BY <1>0, <1>5 DEF Deliver
    <2>2. Waiters' = Waiters \cup {t} /\ t \notin Waiters
      BY <1>0, <2>1 DEF Waiters
    <2>3. Zombies' = Zombies
      BY <2>1 DEF Zombies
    <2>. QED
      <3>1. Cardinality(Waiters \cup {t}) = Cardinality(Waiters) + 1
        BY <1>c, <2>2, FS_AddElement
      <3>2. Pending' = 0 /\ Pending = 1
        BY <2>1 DEF Pending
      <3>3. Cardinality(Waiters') = Cardinality(Waiters) + 1
        BY <2>2, <3>1
      <3>4. IsFiniteSet(Zombies') /\ Cardinality(Zombies') = Cardinality(Zombies)
        BY <1>c, <2>3
      <3>. QED
        BY <1>c, <3>2, <3>3, <3>4
  <1>6. ASSUME NEW t \in Thread, main_child_quit_signal(t) PROVE Waits'
    <2>1. PICK q \in Pid : proc[q] = "zombie" /\ proc' = [proc EXCEPT ![q] = "reaped"]
      BY <1>6 DEF main_child_quit_signal
    <2>2. at[t] = "wait" /\ at' = [at EXCEPT ![t] = "find"] /\ UNCHANGED sig
      BY <1>6 DEF main_child_quit_signal
    <2>3. Zombies' = Zombies \ {q} /\ q \in Zombies
      BY <1>0, <2>1 DEF Zombies
    <2>4. Waiters' = Waiters \ {t} /\ t \in Waiters
      BY <1>0, <2>2 DEF Waiters
    <2>. QED
      <3>1. /\ IsFiniteSet(Zombies \ {q})
            /\ Cardinality(Zombies \ {q}) = Cardinality(Zombies) - 1
            /\ Cardinality(Waiters \ {t}) = Cardinality(Waiters) - 1
        BY <1>c, <2>3, <2>4, FS_RemoveElement
      <3>2. Pending' = Pending /\ Pending \in 0 .. 1
        BY <2>2 DEF Pending
      <3>3. IsFiniteSet(Zombies') /\ Cardinality(Zombies') = Cardinality(Zombies) - 1
        BY <2>3, <3>1
      <3>4. Cardinality(Waiters') = Cardinality(Waiters) - 1
        BY <2>4, <3>1
      <3>. QED
        BY <1>c, <3>2, <3>3, <3>4
  <1>7. ASSUME NEW t \in Thread,
               creatProcByPid(t) \/ delOpsByPid(t) \/ Restart(t) \/ Restarted(t)
        PROVE  Waits'
    <2>1. UNCHANGED sig /\ at[t] # "wait"
      BY <1>7 DEF creatProcByPid, delOpsByPid, Restart, Restarted
    <2>2. \E x : x # "wait" /\ at' = [at EXCEPT ![t] = x]
      BY <1>7 DEF creatProcByPid, delOpsByPid, Restart, Restarted, Back
    <2>3. \/ UNCHANGED proc
          \/ \E q \in Pid : proc[q] = "unused" /\ proc' = [proc EXCEPT ![q] = "starting"]
      BY <1>7 DEF creatProcByPid, delOpsByPid, Restart, Restarted, Forked
    <2>4. Waiters' = Waiters
      BY <1>0, <2>1, <2>2 DEF Waiters
    <2>. QED
      BY <1>1, <2>1, <2>3, <2>4 DEF Alive
  <1>8. ASSUME NEW q \in Pid, Look(q) \/ getRealOps(q) PROVE Waits'
    <2>1. UNCHANGED <<at, sig>> /\ proc[q] # "zombie"
      BY <1>8 DEF Look, getRealOps, handlers
    <2>2. \E x \in Alive : proc' = [proc EXCEPT ![q] = x]
      BY <1>8 DEF Look, getRealOps, Alive
    <2>. QED
      BY <1>1, <2>1, <2>2 DEF Waiters
  <1>9. ASSUME NEW q \in Pid, Unknown(q) \/ Die(q) PROVE Waits'
    BY <1>2, <1>9 DEF Unknown, Die, Ordinary, Alive, handlers
  <1>. QED
    BY ThreadFacts, <1>3, <1>4, <1>5, <1>6, <1>7, <1>8, <1>9 DEF Next, HandlerStep, ChildStep

\* For any processes and deaths, each signal that is pending or being handled
\* has a child that nobody has waited for: wait() does not block (main.cpp:32).
THEOREM WaitSafe == Spec => []WaitNeverBlocks
  <1>1. Waits => WaitNeverBlocks
    BY DEF Waits
  <1>2. Waits /\ UNCHANGED vars => Waits'
    BY DEF Waits, WaitNeverBlocks, Zombies, vars, handlers
  <1>. QED
    BY <1>1, <1>2, CoreInit, CoreStep, WaitsInit, WaitsStep, PTL DEF Spec

-----------------------------------------------------------------------------
(* The handler and the thread it interrupts *)

LEMMA CalmStep ==
    ASSUME Core, Calm, Next
    PROVE  Calm'
  <1> USE ThreadFacts DEF Calm
  <1>0. /\ at \in [Thread -> {"none", "wait", "find", "delete", "fork", "setpid"}]
        /\ pc \in [Thread -> {"idle", "search", "fork", "put", "queued", "created", "lookup"}]
        /\ sig \in BOOLEAN /\ calm \in BOOLEAN
    BY DEF Core, TypeOK
  <1>1. Cardinality(created) \in Nat /\ Len(Static) \in Nat
    BY FS_CardinalityType, SupervisorAssumption DEF Core, Shape, Roles
  <1>2. CASE createTasks
    <2>1. /\ Cardinality(created) < Len(Static) /\ UNCHANGED <<at, sig, calm>>
      BY <1>2 DEF createTasks, handlers, others
    <2>. QED
      BY <1>0, <1>1, <2>1
  <1>3. CASE getEmptyProc \/ getOpsByPid \/ LookedUp
    BY <1>0, <1>3 DEF getEmptyProc, getOpsByPid, LookedUp, Go, handlers, others
  <1>4. CASE Searched
    <2>1. \E place : pc' = [pc EXCEPT ![manager] = place]
      BY <1>4 DEF Searched, Go
    <2>2. UNCHANGED <<at, sig, calm>>
      BY <1>4 DEF Searched, handlers, others
    <2>3. \/ created' = created
          \/ \E r : created' = created \cup {r}
      BY <1>4 DEF Searched
    <2>4. IsFiniteSet(created)
      BY DEF Core, Shape, Roles
    <2>5. ASSUME NEW r, created' = created \cup {r}
          PROVE  /\ Cardinality(created') \in Nat
                 /\ Cardinality(created') >= Cardinality(created)
      <3>1. \/ Cardinality(created \cup {r}) = Cardinality(created)
            \/ Cardinality(created \cup {r}) = Cardinality(created) + 1
        BY <2>4, FS_AddElement
      <3>2. \/ Cardinality(created') = Cardinality(created)
            \/ Cardinality(created') = Cardinality(created) + 1
        BY <2>5, <3>1
      <3>. QED
        BY <1>1, <3>2
    <2>6. Cardinality(created') \in Nat /\ Cardinality(created') >= Cardinality(created)
      <3>1. CASE created' = created
        BY <1>1, <3>1
      <3>. QED
        BY <2>3, <2>5, <3>1
    <2>7. Cardinality(created) >= Len(Static) => Cardinality(created') >= Len(Static)
      BY <1>1, <2>6
    <2>8. pc'[main] = pc[main]
      BY <1>0, <2>1
    <2>. QED
      BY <2>2, <2>7, <2>8
  <1>5. CASE Expire
    BY <1>5 DEF Expire, threads, handlers, others
  <1>6. ASSUME NEW t \in Thread, ThreadStep(t) PROVE Calm'
    <2>1. pc[t] # "idle" /\ \E place : Go(t, place)
      BY <1>6 DEF ThreadStep, createProcess, put2PidQueue, Queued, At
    <2>2. UNCHANGED <<at, sig, calm, created>>
      BY <1>6 DEF ThreadStep, createProcess, put2PidQueue, Queued, handlers, others
    <2>3. t # main => pc'[main] = pc[main]
      BY <1>0, <2>1 DEF Go
    <2>. QED
      BY <2>1, <2>2, <2>3
  <1>7. ASSUME NEW t \in Thread, Deliver(t) PROVE Calm'
    <2>1. /\ sig /\ sig' = FALSE /\ at' = [at EXCEPT ![t] = "wait"]
          /\ t # main => at[main] # "none"
          /\ UNCHANGED <<pc, created, calm>>
      BY <1>7 DEF Deliver, threads, others
    <2>. QED
      BY <1>0, <2>1
  <1>8. ASSUME NEW t \in Thread,
               \/ main_child_quit_signal(t) \/ creatProcByPid(t) \/ delOpsByPid(t)
               \/ Restart(t) \/ Restarted(t)
        PROVE  Calm'
    <2>1. at[t] # "none" /\ UNCHANGED <<pc, created, sig, calm>>
      BY <1>8 DEF main_child_quit_signal, creatProcByPid, delOpsByPid, Restart,
                  Restarted, threads, others
    <2>2. \E place : at' = [at EXCEPT ![t] = place]
      BY <1>8 DEF main_child_quit_signal, creatProcByPid, delOpsByPid, Restart,
                  Restarted, Back
    <2>. QED
      BY <1>0, <2>1, <2>2
  <1>9. ASSUME NEW q \in Pid, Look(q) \/ getRealOps(q) PROVE Calm'
    BY <1>9 DEF Look, getRealOps, threads, handlers, others
  <1>10. ASSUME NEW q \in Pid, Unknown(q) PROVE Calm'
    BY <1>10 DEF Unknown
  <1>11. ASSUME NEW q \in Pid, Die(q) PROVE Calm'
    <2>1. calm' => /\ Cardinality(created) >= Len(Static)
                   /\ \A t \in Thread : at[t] = "none" /\ pc[t] = "idle"
      BY <1>0, <1>11 DEF Die, Ordinary, Rest
    <2>2. UNCHANGED <<pc, at, created>>
      BY <1>11 DEF Die, threads, handlers
    <2>. QED
      BY <2>1, <2>2
  <1>. QED
    BY <1>2, <1>3, <1>4, <1>5, <1>6, <1>7, <1>8, <1>9, <1>10, <1>11 DEF Next, ManagerStep, HandlerStep, ChildStep

\* If every child has died as in Ordinary, the handler never waits for mutex_pid
\* in the thread that holds it, with any number of threads at work on new
\* processes (main.cpp:32, pids.cpp:289).
THEOREM HandlerSafe == Spec => []HandlerNotStuck
  <1>1. Calm /\ LockInv => HandlerNotStuck
    BY ThreadFacts DEF Calm, LockInv, HandlerNotStuck
  <1>2. Init => Calm
    BY ThreadFacts DEF Init, Calm
  <1>3. Calm /\ UNCHANGED vars => Calm'
    BY DEF Calm, vars, threads, handlers, others
  <1>. QED
    BY <1>1, <1>2, <1>3, CoreInit, CoreStep, CalmStep, LockInit, LockStep, LockStutter, PTL DEF Spec

=============================================================================
