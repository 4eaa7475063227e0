----------------------------- MODULE TaskProofs -----------------------------
(***************************************************************************)
(* Proofs about the tasks of a slave machine, for any objects, processes,  *)
(* queues, requests and crashes:                                           *)
(*   AssignedSafe  an object is given to one process at most;              *)
(*   StreamSafe    its stream runs in one process at most, which has it.   *)
(***************************************************************************)
EXTENDS ObjTask, SequenceTheorems, FiniteSetTheorems, TLAPS

-----------------------------------------------------------------------------
(* Queues without an element twice *)

LEMMA AppendOne ==
    ASSUME NEW S, NEW q \in Seq(S), NEW e \in S, IsInjective(q), ~Contains(q, e)
    PROVE  /\ Append(q, e) \in Seq(S) /\ IsInjective(Append(q, e))
           /\ Len(Append(q, e)) = Len(q) + 1
           /\ \A x : Contains(Append(q, e), x) <=> Contains(q, x) \/ x = e
  <1> DEFINE r == Append(q, e)
  <1>1. /\ r \in Seq(S) /\ Len(r) = Len(q) + 1 /\ r[Len(q) + 1] = e
        /\ \A k \in 1 .. Len(q) : r[k] = q[k]
    BY AppendProperties
  <1>2. Len(q) \in Nat /\ DOMAIN q = 1 .. Len(q) /\ DOMAIN r = 1 .. Len(r)
    BY <1>1, LenProperties
  <1> HIDE DEF r
  <1>3. IsInjective(r)
    BY <1>1, <1>2 DEF IsInjective, Contains
  <1>4. \A x : Contains(r, x) <=> Contains(q, x) \/ x = e
    BY <1>1, <1>2 DEF Contains
  <1> QED
    BY <1>1, <1>3, <1>4 DEF r

\* Taking out one element.
LEMMA RemoveAtOne ==
    ASSUME NEW S, NEW q \in Seq(S), NEW k \in 1 .. Len(q), IsInjective(q)
    PROVE  /\ RemoveAt(q, k) \in Seq(S) /\ IsInjective(RemoveAt(q, k))
           /\ Len(RemoveAt(q, k)) = Len(q) - 1
           /\ \A x : Contains(RemoveAt(q, k), x) <=> Contains(q, x) /\ x # q[k]
  <1> DEFINE a == SubSeq(q, 1, k - 1)
             b == SubSeq(q, k + 1, Len(q))
             r == a \o b
             old(m) == IF m < k THEN m ELSE m + 1
  <1>1. a \in Seq(S) /\ Len(a) = k - 1 /\ \A m \in 1 .. k - 1 : a[m] = q[m]
    OBVIOUS
  <1>2. b \in Seq(S) /\ Len(b) = Len(q) - k
        /\ \A m \in 1 .. Len(q) - k : b[m] = q[k + m]
    OBVIOUS
  <1>3. RemoveAt(q, k) = r
    BY DEF RemoveAt
  <1>4. Len(q) \in Nat /\ DOMAIN q = 1 .. Len(q)
    BY LenProperties
  <1> HIDE DEF a, b
  <1>5. /\ r \in Seq(S) /\ Len(r) = Len(a) + Len(b)
        /\ \A m \in 1 .. Len(a) + Len(b) :
              r[m] = IF m <= Len(a) THEN a[m] ELSE b[m - Len(a)]
    BY <1>1, <1>2, ConcatProperties
  <1> HIDE DEF r
  <1>6. Len(r) = Len(q) - 1 /\ DOMAIN r = 1 .. Len(q) - 1
    BY <1>1, <1>2, <1>4, <1>5, LenProperties
  <1>7. ASSUME NEW m \in 1 .. Len(q) - 1
        PROVE  old(m) \in 1 .. Len(q) /\ old(m) # k /\ r[m] = q[old(m)]
    <2>0. /\ m \in Nat /\ k \in Nat /\ m \in 1 .. Len(a) + Len(b) /\ Len(a) = k - 1
          /\ r[m] = IF m <= Len(a) THEN a[m] ELSE b[m - Len(a)]
      BY <1>1, <1>2, <1>4, <1>5
    <2>1. CASE m < k
      <3>1. m \in 1 .. k - 1 /\ m <= Len(a) /\ old(m) = m
        BY <1>1, <1>4, <2>0, <2>1
      <3>2. a[m] = q[m] /\ r[m] = a[m]
        BY <1>1, <2>0, <3>1
      <3> QED
        BY <1>4, <2>0, <2>1, <3>1, <3>2
    <2>2. CASE ~(m < k)
      <3>1. m - Len(a) \in 1 .. Len(q) - k /\ ~(m <= Len(a)) /\ old(m) = m + 1
        BY <1>1, <1>4, <2>0, <2>2
      <3>2. b[m - Len(a)] = q[k + (m - Len(a))] /\ r[m] = b[m - Len(a)]
        BY <1>2, <2>0, <3>1
      <3>3. k + (m - Len(a)) = m + 1
        BY <2>0
      <3> QED
        BY <1>4, <2>0, <2>2, <3>1, <3>2, <3>3
    <2> QED
      BY <2>1, <2>2
  <1>8. \A m \in 1 .. Len(q) : m # k => \E n \in 1 .. Len(q) - 1 : old(n) = m
    <2> TAKE m \in 1 .. Len(q)
    <2> HAVE m # k
    <2>1. CASE m < k
      <3>1. m \in 1 .. Len(q) - 1 /\ old(m) = m
        BY <1>4, <2>1
      <3> QED
        BY <3>1
    <2>2. CASE ~(m < k)
      <3>1. m - 1 \in 1 .. Len(q) - 1 /\ old(m - 1) = m
        BY <1>4, <2>2
      <3> QED
        BY <3>1
    <2> QED
      BY <2>1, <2>2
  <1>9. \A m, n \in 1 .. Len(q) - 1 : old(m) = old(n) => m = n
    BY <1>4
  <1> HIDE DEF old
  <1>10. IsInjective(r)
    BY <1>4, <1>6, <1>7, <1>9 DEF IsInjective
  <1>11. ASSUME NEW x PROVE Contains(r, x) <=> Contains(q, x) /\ x # q[k]
    <2>1. Contains(r, x) => Contains(q, x) /\ x # q[k]
      BY <1>4, <1>6, <1>7 DEF Contains, IsInjective
    <2>2. Contains(q, x) /\ x # q[k] => Contains(r, x)
      BY <1>6, <1>7, <1>8 DEF Contains
    <2> QED
      BY <2>1, <2>2
  <1> QED
    BY <1>3, <1>5, <1>6, <1>10, <1>11

LEMMA RemoveFirstOne ==
    ASSUME NEW S, NEW q \in Seq(S), NEW e, IsInjective(q)
    PROVE  /\ RemoveFirst(q, e) \in Seq(S) /\ IsInjective(RemoveFirst(q, e))
           /\ Len(RemoveFirst(q, e)) <= Len(q)
           /\ \A x : Contains(RemoveFirst(q, e), x) <=> Contains(q, x) /\ x # e
  <1>0. DOMAIN q = 1 .. Len(q) /\ Len(q) \in Nat
    BY LenProperties
  <1>1. CASE ~\E k \in 1 .. Len(q) : q[k] = e
    <2>1. RemoveFirst(q, e) = q
      BY <1>1 DEF RemoveFirst
    <2> QED
      BY <1>0, <1>1, <2>1 DEF Contains
  <1>2. CASE \E k \in 1 .. Len(q) : q[k] = e
    <2>1. PICK k \in 1 .. Len(q) : q[k] = e
      BY <1>2
    <2>2. {m \in 1 .. Len(q) : q[m] = e} = {k}
      BY <1>0, <2>1 DEF IsInjective
    <2>3. Min({k}) = k
      BY <2>1 DEF Min
    <2>4. SelectInSeq(q, LAMBDA v : v = e) = k
      BY <2>2, <2>3 DEF SelectInSeq
    <2>5. RemoveFirst(q, e) = RemoveAt(q, k)
      BY <1>2, <2>4 DEF RemoveFirst
    <2>6. /\ RemoveAt(q, k) \in Seq(S) /\ IsInjective(RemoveAt(q, k))
          /\ Len(RemoveAt(q, k)) = Len(q) - 1
          /\ \A x : Contains(RemoveAt(q, k), x) <=> Contains(q, x) /\ x # q[k]
      BY RemoveAtOne
    <2> QED
      BY <1>0, <2>1, <2>5, <2>6
  <1> QED
    BY <1>1, <1>2

-----------------------------------------------------------------------------
(* The shape of a state *)

\* Processes are created in order and work with their queue only when they are up.
Shape ==
    /\ TypeOK
    /\ \A p \in Proc : state[p] # "none" => life[p] \in 1 .. 2
    /\ \A p \in Proc : state[p] = "none" => que[p] = <<>>
    /\ \A p, q \in Proc : state[q] # "none" /\ p < q => state[p] # "none"
    /\ \A p \in Proc : beat[p] # Idle => /\ state[p] = "ready" /\ ~leaked[p]
                                        /\ beat[p].obj \in Object /\ Has(p, beat[p].obj)
    /\ mpc \in {"search", "put"} => mo \in Object /\ mp \in 1 .. ProcMax + 1
    /\ mpc = "search" => \A p \in Proc : p < mp => state[p] # "none"
    /\ mpc = "put" => mp \in Created

LEMMA HasObject ==
    ASSUME Shape, NEW p \in Proc, NEW o, Has(p, o)
    PROVE  o \in Object
  <1>1. que[p] \in Seq(Object)
    BY DEF Shape, TypeOK
  <1> QED
    BY <1>1 DEF Has, Contains

\* The manager's moves that end a search.
LEMMA BeatenTypes ==
    ASSUME Shape, mpc \in {"search", "put"}, Beaten
    PROVE  /\ late' \in [Object -> BOOLEAN] /\ mpc' = "round"
           /\ mo' \in Object \cup {NoObj} /\ mp' \in 0 .. ProcMax + 1
  <1>1. late \in [Object -> BOOLEAN] /\ mo \in Object /\ 0 \in 0 .. ProcMax + 1
    BY ObjTaskAssumption DEF Shape, TypeOK
  <1> QED
    BY <1>1 DEF Beaten

\* A process that dies is up, and leaves its queue and its life.
LEMMA DiesShape ==
    ASSUME Shape, NEW p \in Proc, state[p] = "ready", Dies(p),
           UNCHANGED <<objQueue, on, late, tbeat, args, que, inited, life, manager>>
    PROVE  Shape'
  <1>0. /\ state \in [Proc -> {"none", "init", "ready", "dead"}]
        /\ leaked \in [Proc -> BOOLEAN] /\ playing \in [Object -> SUBSET Lives]
        /\ beat \in [Proc -> [op : {"none", "start", "restart", "stop"},
                              obj : Object \cup {NoObj}]]
    BY DEF Shape, TypeOK
  <1>1. state' = [state EXCEPT ![p] = "dead"] /\ beat' = [beat EXCEPT ![p] = Idle]
    BY DEF Dies, BeatEnd
  <1>2. leaked' \in [Proc -> BOOLEAN]
    BY <1>0 DEF Dies
  <1>3. playing' \in [Object -> SUBSET Lives]
    BY <1>0 DEF Dies
  <1>4. beat' \in [Proc -> [op : {"none", "start", "restart", "stop"},
                            obj : Object \cup {NoObj}]]
    BY <1>0, <1>1 DEF Idle
  <1>5. state' \in [Proc -> {"none", "init", "ready", "dead"}]
    BY <1>0, <1>1
  <1>6. TypeOK'
    BY <1>2, <1>3, <1>4, <1>5 DEF Shape, TypeOK, manager
  <1>7. \A q \in Proc : q # p => /\ leaked'[q] = leaked[q] /\ beat'[q] = beat[q]
                                 /\ state'[q] = state[q]
    BY <1>0, <1>1 DEF Dies
  <1>8. /\ \A q \in Proc : state'[q] = "none" <=> state[q] = "none"
        /\ beat'[p] = Idle
    BY <1>0, <1>1
  <1>9. \A q \in Proc : beat'[q] # Idle => /\ state'[q] = "ready" /\ ~leaked'[q]
                                          /\ beat'[q].obj \in Object /\ Has(q, beat[q].obj)'
    BY <1>7, <1>8 DEF Shape, Has
  <1>10. Created' = Created
    BY <1>8 DEF Created
  <1> QED
    BY <1>6, <1>8, <1>9, <1>10 DEF Shape, manager

LEMMA ShapeInit == Init => Shape
  <1> SUFFICES ASSUME Init PROVE Shape
    OBVIOUS
  <1>1. TypeOK
    BY ObjTaskAssumption DEF Init, TypeOK, NULL, Idle, NoObj, Lives
  <1> QED
    BY <1>1 DEF Init, Shape, Created

LEMMA RequestShape ==
    ASSUME Shape, NEW o \in Object,
           \/ request_stream_start(o) \/ request_stream_stop(o) \/ delObj(o)
           \/ BeatLate(o) \/ TaskLate(o)
    PROVE  Shape'
  <1>1. TypeOK'
    BY DEF request_stream_start, request_stream_stop, delObj, BeatLate, TaskLate, Shape, TypeOK,
           procs, manager, tasks
  <1>2. UNCHANGED <<procs, manager>>
    BY DEF request_stream_start, request_stream_stop, delObj, BeatLate, TaskLate
  <1> QED
    BY <1>1, <1>2 DEF Shape, procs, manager, Has, Created

\* The first process with room, if there is one.
LEMMA ChosenIs ==
    ASSUME \E p \in Created : ~Full(p)
    PROVE  Chosen \in Created /\ ~Full(Chosen)
  <1> DEFINE I == {p \in Created : ~Full(p)}
  <1>1. I \in SUBSET Nat /\ I # {}
    BY ObjTaskAssumption DEF Created, Proc
  <1>2. PICK m \in I : \A k \in I : m <= k
    <2>1. OpToRel(<, Nat) = {ss \in Nat \X Nat : ss[1] < ss[2]}
      BY Zenon DEF OpToRel
    <2>2. PICK m \in I : \A k \in I : ~(<<k, m>> \in {ss \in Nat \X Nat : ss[1] < ss[2]})
      <3> HIDE DEF I
      <3> QED
        BY <1>1, <2>1, NatLessThanWellFounded, WFMin, Zenon
    <2>3. ASSUME NEW k \in I PROVE m <= k
      <3>1. k \in Nat /\ m \in Nat
        BY <1>1
      <3>2. k < m => <<k, m>> \in {ss \in Nat \X Nat : ss[1] < ss[2]}
        BY <3>1, SMT
      <3>3. ~(k < m)
        BY <2>2, <3>2
      <3> QED
        BY <3>1, <3>3
    <2> QED
      BY <2>3
  <1>3. \A q \in Created : q < m => Full(q)
    BY <1>1, <1>2 DEF Created, Proc
  <1> QED
    BY <1>2, <1>3 DEF Chosen

LEMMA ManagerShape ==
    ASSUME Shape, ManagerStep \/ WaitProcInitFailed
    PROVE  Shape'
  <1>1. CASE ManagerLock \/ ManagerUnlock \/ objManager
    <2>1. TypeOK'
      BY <1>1, ObjTaskAssumption DEF ManagerLock, ManagerUnlock, objManager, Shape, TypeOK,
         tasks, procs
    <2>2. UNCHANGED procs /\ (mpc' \in {"search", "put"} => mpc' = "search" /\ mo' \in Object /\ mp' = 1)
      BY <1>1 DEF ManagerLock, ManagerUnlock, objManager, Shape, TypeOK
    <2> QED
      BY <2>1, <2>2, ObjTaskAssumption DEF Shape, procs, Has, Created, Proc
  <1>2. CASE conditionByPidOps
    <2>1. UNCHANGED procs /\ UNCHANGED <<objQueue, on, tbeat, args, playing, todo>>
      BY <1>2 DEF conditionByPidOps
    <2>2. /\ late' \in [Object -> BOOLEAN] /\ mpc' \in {"round", "search"}
          /\ mo' \in Object \cup {NoObj} /\ mp' \in 0 .. ProcMax + 1
          /\ mpc' = "search" => /\ mo' \in Object /\ mp' \in 1 .. ProcMax + 1
                                /\ \A p \in Proc : p < mp' => state[p] # "none"
      <3>1. CASE Beaten
        BY <1>2, <3>1, BeatenTypes DEF conditionByPidOps
      <3>2. CASE mp' = mp + 1 /\ UNCHANGED <<late, mpc, mo>>
        BY <1>2, <3>2, ObjTaskAssumption DEF conditionByPidOps, Shape, TypeOK, Created, Proc
      <3> QED
        BY <1>2, <3>1, <3>2 DEF conditionByPidOps
    <2>3. TypeOK'
      BY <2>1, <2>2 DEF Shape, TypeOK, procs
    <2> QED
      BY <2>1, <2>2, <2>3 DEF Shape, procs, Has, Created
  <1>3. CASE conditionByPidOps2
    <2>1. UNCHANGED <<tasks, procs, todo, mo>> /\ mpc' = "put" /\ mpc = "search"
      BY <1>3 DEF conditionByPidOps2, Searched
    <2>2. mp' \in Created
      BY <1>3, ChosenIs DEF conditionByPidOps2
    <2>3. TypeOK'
      BY <2>1, <2>2, ObjTaskAssumption DEF Shape, TypeOK, tasks, procs, Created, Proc
    <2> QED
      BY <2>1, <2>2, <2>3, ObjTaskAssumption DEF Shape, procs, Has, Created, Proc
  <1>4. CASE createProcess
    <2>1. /\ UNCHANGED <<tasks, que, inited, beat, leaked, todo, mo, mp>>
          /\ mpc = "search" /\ mpc' = "put" /\ mp \in Proc /\ state[mp] = "none"
          /\ state' = [state EXCEPT ![mp] = "init"] /\ life' = [life EXCEPT ![mp] = 1]
      BY <1>4 DEF createProcess, Searched, Created
    <2>2. TypeOK'
      BY <2>1 DEF Shape, TypeOK, tasks
    <2>3. \A p \in Proc : /\ p < mp => state[p] # "none"
                          /\ p # mp => state'[p] = state[p] /\ life'[p] = life[p]
      BY <2>1 DEF Shape, TypeOK
    <2>4. \A p, q \in Proc : state'[q] # "none" /\ p < q => state'[p] # "none"
      BY <2>1, <2>3 DEF Shape, TypeOK
    <2> QED
      BY <2>1, <2>2, <2>3, <2>4 DEF Shape, TypeOK, Has, Created
  <1>5. CASE NoProcess \/ WaitProcInitFailed
    <2>1. /\ UNCHANGED procs /\ UNCHANGED <<objQueue, on, tbeat, args, playing, todo>>
          /\ Beaten /\ mpc \in {"search", "put"}
      BY <1>5 DEF NoProcess, WaitProcInitFailed, Searched
    <2>2. TypeOK' /\ mpc' = "round"
      BY <2>1, BeatenTypes DEF Shape, TypeOK, procs
    <2> QED
      BY <2>1, <2>2 DEF Shape, procs, Has, Created
  <1>6. CASE putObj2pidQue
    <2>1. /\ UNCHANGED <<state, inited, life, beat, leaked>>
          /\ UNCHANGED <<objQueue, on, tbeat, args, playing, todo>>
          /\ Beaten /\ mpc = "put" /\ mp \in Proc /\ state[mp] # "none" /\ beat[mp] = Idle
          /\ que' = IF Full(mp) THEN que ELSE [que EXCEPT ![mp] = Append(@, mo)]
      BY <1>6 DEF putObj2pidQue, Unlocked, Shape, Created
    <2>2. que' \in [Proc -> Seq(Object)] /\ \A p \in Proc : p # mp => que'[p] = que[p]
      <3>1. que \in [Proc -> Seq(Object)] /\ mo \in Object
        BY <2>1 DEF Shape, TypeOK
      <3>2. que[mp] \in Seq(Object)
        BY <2>1, <3>1
      <3>3. Append(que[mp], mo) \in Seq(Object)
        BY <3>1, <3>2, AppendProperties
      <3> QED
        BY <2>1, <3>1, <3>3
    <2>3. TypeOK' /\ mpc' = "round"
      BY <2>1, <2>2, BeatenTypes DEF Shape, TypeOK
    <2>4. \A p \in Proc : beat'[p] # Idle => /\ state'[p] = "ready" /\ ~leaked'[p]
                                            /\ beat'[p].obj \in Object /\ Has(p, beat[p].obj)'
      BY <2>1, <2>2 DEF Shape, Has
    <2> QED
      BY <2>1, <2>2, <2>3, <2>4 DEF Shape, Created
  <1> QED
    BY <1>1, <1>2, <1>3, <1>4, <1>5, <1>6 DEF ManagerStep

LEMMA ProcShape ==
    ASSUME Shape, NEW p \in Proc,
           \/ rtspInit(p) \/ Restart(p) \/ RestartMeanwhile(p)
           \/ rtsp_start(p, TRUE) \/ rtsp_start(p, FALSE) \/ rtsp_stop(p)
           \/ DanglingArgs(p) \/ Crash(p)
    PROVE  Shape'
  <1>1. CASE rtspInit(p)
    <2>1. /\ UNCHANGED <<tasks, que, life, beat, leaked, manager>> /\ state[p] = "init"
          /\ state' = [state EXCEPT ![p] = "ready"] /\ inited' = [inited EXCEPT ![p] = TRUE]
      BY <1>1 DEF rtspInit
    <2>2. TypeOK'
      BY <2>1 DEF Shape, TypeOK, tasks, manager
    <2> QED
      BY <2>1, <2>2 DEF Shape, TypeOK, Has, Created, manager
  <1>2. CASE Restart(p) \/ RestartMeanwhile(p)
    <2>1. /\ UNCHANGED <<objQueue, on, tbeat, args, playing, que, inited, beat, leaked, todo>>
          /\ state[p] = "dead" /\ life[p] = 1 /\ mpc # "search"
          /\ state' = [state EXCEPT ![p] = "init"] /\ life' = [life EXCEPT ![p] = @ + 1]
      BY <1>2 DEF Restart, RestartMeanwhile, Restarted, MayRestart
    <2>2. \/ UNCHANGED <<late, mpc, mo, mp>>
          \/ /\ late' \in [Object -> BOOLEAN] /\ mpc' = "round"
             /\ mo' \in Object \cup {NoObj} /\ mp' \in 0 .. ProcMax + 1
      BY <1>2, BeatenTypes DEF Restart, RestartMeanwhile
    <2>3. state' \in [Proc -> {"none", "init", "ready", "dead"}] /\ life' \in [Proc -> 0 .. 2]
          /\ life'[p] = 2
      BY <2>1 DEF Shape, TypeOK
    <2>4. TypeOK'
      BY <2>1, <2>2, <2>3 DEF Shape, TypeOK
    <2>5. \A q \in Proc : /\ state'[q] = "none" <=> state[q] = "none"
                          /\ q # p => state'[q] = state[q] /\ life'[q] = life[q]
      BY <2>1 DEF Shape, TypeOK
    <2>6. Created' = Created
      BY <2>5 DEF Created
    <2> QED
      BY <2>1, <2>2, <2>3, <2>4, <2>5, <2>6 DEF Shape, Has
  <1>3. CASE rtsp_start(p, TRUE) \/ rtsp_start(p, FALSE) \/ rtsp_stop(p)
    <2>1. /\ UNCHANGED <<objQueue, on, late, state, que, inited, life, leaked, manager>>
          /\ beat' = [beat EXCEPT ![p] = Idle] /\ beat[p] # Idle
      BY <1>3 DEF rtsp_start, rtsp_stop, BeatEnd, Idle
    <2>2. This(p) \in Lives /\ beat[p].obj \in Object
      BY <2>1 DEF Shape, This, Lives
    <2>3. /\ args' \in [Object -> Lives \cup {NULL}] /\ playing' \in [Object -> SUBSET Lives]
          /\ tbeat' \in [Object -> {"zero", "fresh", "late"}]
      <3> DEFINE o == beat[p].obj
                 l == This(p)
      <3>1. /\ args' = [args EXCEPT ![o] = l] \/ args' = [args EXCEPT ![o] = NULL]
            /\ \/ playing' = [playing EXCEPT ![o] = @ \cup {l}]
               \/ playing' = [playing EXCEPT ![o] = @ \ {l}]
            /\ \/ tbeat' = [tbeat EXCEPT ![o] = "fresh"]
               \/ tbeat' = [tbeat EXCEPT ![o] = "zero"]
        BY <1>3 DEF rtsp_start, rtsp_stop
      <3>2. /\ args \in [Object -> Lives \cup {NULL}] /\ playing \in [Object -> SUBSET Lives]
            /\ tbeat \in [Object -> {"zero", "fresh", "late"}]
        BY DEF Shape, TypeOK
      <3>3. o \in Object /\ l \in Lives
        BY <2>2
      <3> HIDE DEF o, l
      <3>4. args' \in [Object -> Lives \cup {NULL}]
        BY <3>1, <3>2, <3>3
      <3>5. playing' \in [Object -> SUBSET Lives]
        BY <3>1, <3>2, <3>3
      <3> QED
        BY <3>1, <3>2, <3>4, <3>5
    <2>4. beat' \in [Proc -> [op : {"none", "start", "restart", "stop"},
                              obj : Object \cup {NoObj}]]
      BY <2>1 DEF Shape, TypeOK, Idle
    <2>5. TypeOK'
      BY <2>1, <2>3, <2>4 DEF Shape, TypeOK, manager
    <2>6. \A q \in Proc : beat'[q] # Idle => beat'[q] = beat[q]
      BY <2>1 DEF Shape, TypeOK
    <2> QED
      BY <2>1, <2>5, <2>6 DEF Shape, Has, Created, manager
  <1>4. CASE DanglingArgs(p)
    BY <1>4, DiesShape DEF DanglingArgs, Shape
  <1>5. CASE Crash(p)
    BY <1>5, DiesShape DEF Crash
  <1> QED
    BY <1>1, <1>2, <1>3, <1>4, <1>5

\* The lists of a state, in which no element is twice.
Lists == \A p \in Proc : IsInjective(que[p]) /\ Len(que[p]) <= TaskMax

\* What the two beat threads of a process do to the queues.
LEMMA ProcBeatQueues ==
    ASSUME Shape, Lists, NEW p \in Proc, NEW o \in Object, rtspProcBeat(p, o)
    PROVE  /\ que' \in [Proc -> Seq(Object)] /\ Lists'
           /\ \A q \in Proc : q # p => que'[q] = que[q]
           /\ \A x \in Object : x # o => (Has(p, x)' <=> Has(p, x))
           /\ \/ que' = que /\ late' = [late EXCEPT ![o] = FALSE]
              \/ /\ Stopped(o) /\ late' = [late EXCEPT ![o] = TRUE]
                 /\ ~Has(p, o)' /\ Len(que'[p]) <= Len(que[p])
  <1>1. que \in [Proc -> Seq(Object)] /\ que[p] \in Seq(Object) /\ IsInjective(que[p])
    BY DEF Shape, TypeOK, Lists
  <1>2. CASE on[o] /\ late' = [late EXCEPT ![o] = FALSE] /\ UNCHANGED que
    BY <1>1, <1>2 DEF Lists, Has
  <1>3. CASE /\ Stopped(o) /\ que' = [que EXCEPT ![p] = RemoveFirst(@, o)]
             /\ late' = [late EXCEPT ![o] = TRUE]
    <2> DEFINE r == RemoveFirst(que[p], o)
    <2>1. /\ r \in Seq(Object) /\ IsInjective(r) /\ Len(r) <= Len(que[p])
          /\ \A x : Contains(r, x) <=> Contains(que[p], x) /\ x # o
      BY <1>1, RemoveFirstOne
    <2> HIDE DEF r
    <2>2. que' = [que EXCEPT ![p] = r]
      BY <1>3 DEF r
    <2>3. que' \in [Proc -> Seq(Object)] /\ que'[p] = r /\ \A q \in Proc : q # p => que'[q] = que[q]
      BY <1>1, <2>1, <2>2
    <2>4. Len(r) \in Nat /\ Len(que[p]) \in Nat
      BY <1>1, <2>1, LenProperties
    <2>5. Lists'
      BY <2>1, <2>3, <2>4, ObjTaskAssumption DEF Lists
    <2> QED
      BY <1>3, <2>1, <2>3, <2>5 DEF Has
  <1> QED
    BY <1>2, <1>3 DEF rtspProcBeat

LEMMA BeatShape ==
    ASSUME Shape, Lists, NEW p \in Proc, NEW o \in Object, BeatStep(p, o)
    PROVE  Shape'
  <1>1. CASE rtspProcBeat(p, o)
    <2>1. /\ UNCHANGED <<objQueue, on, tbeat, args, playing, state, inited, life, beat, leaked, manager>>
          /\ beat[p] = Idle /\ state[p] = "ready"
      BY <1>1 DEF rtspProcBeat, Unlocked
    <2>2. que' \in [Proc -> Seq(Object)] /\ late' \in [Object -> BOOLEAN]
          /\ \A q \in Proc : q # p => que'[q] = que[q]
      BY <1>1, ProcBeatQueues DEF Shape, TypeOK
    <2>3. TypeOK'
      BY <2>1, <2>2 DEF Shape, TypeOK, manager
    <2> QED
      BY <2>1, <2>2, <2>3 DEF Shape, Has, Created, manager
  <1>2. CASE rtspTaskBeat(p, o)
    <2>1. /\ UNCHANGED <<objQueue, on, late, args, playing, state, que, inited, life, leaked, manager>>
          /\ state[p] = "ready" /\ ~leaked[p] /\ Has(p, o)
          /\ tbeat' \in [Object -> {"zero", "fresh", "late"}]
          /\ beat' = beat \/ \E op \in {"start", "restart", "stop"} :
                               beat' = [beat EXCEPT ![p] = [op |-> op, obj |-> o]]
      BY <1>2 DEF rtspTaskBeat, TaskOp, Unlocked, Shape, TypeOK
    <2>2. /\ beat' \in [Proc -> [op : {"none", "start", "restart", "stop"},
                                 obj : Object \cup {NoObj}]]
          /\ \A q \in Proc : beat'[q] # beat[q] => q = p /\ beat'[q].obj = o
      <3>1. beat \in [Proc -> [op : {"none", "start", "restart", "stop"},
                               obj : Object \cup {NoObj}]]
        BY DEF Shape, TypeOK
      <3>2. CASE beat' = beat
        BY <3>1, <3>2
      <3>3. ASSUME NEW op \in {"start", "restart", "stop"},
                   beat' = [beat EXCEPT ![p] = [op |-> op, obj |-> o]]
            PROVE  <2>2!:
        BY <3>1, <3>3
      <3> QED
        BY <2>1, <3>2, <3>3
    <2>3. TypeOK'
      BY <2>1, <2>2 DEF Shape, TypeOK, manager
    <2> QED
      BY <2>1, <2>2, <2>3 DEF Shape, Has, Created, manager
  <1> QED
    BY <1>1, <1>2 DEF BeatStep

-----------------------------------------------------------------------------
(* An object is given to one process at most.  A process that died holding     *)
(* mutex_pobj, or for the second time, is Gone: it never serves its queue      *)
(* again, and only its objects become late.                                    *)

Gone(p) == leaked[p] \/ (state[p] = "dead" /\ life[p] > 1)

\* No two processes that are not gone have the same object,
Owners == \A p, q \in Proc, o \in Object :
              Has(p, o) /\ Has(q, o) /\ ~Gone(p) /\ ~Gone(q) => p = q

\* ... an object such a process has is not late,
Timely == \A p \in Proc, o \in Object : Has(p, o) /\ ~Gone(p) => ~late[o]

\* ... so the object in the manager's hand is with nobody else.  A dead process that
\* has it was full when the manager looked, and stays so; one that died holding the
\* mutex is never given anything.
Search ==
    /\ mpc \in {"search", "put"} => \A p \in Proc : Has(p, mo) => Gone(p)
    /\ mpc = "search" => \A p \in Proc : p < mp /\ Has(p, mo) => leaked[p] \/ Full(p)
    /\ mpc = "put" => (Has(mp, mo) => leaked[mp])

Assigned == Shape /\ Lists /\ Owners /\ Timely /\ Search

\* Who is gone stays gone, whoever dies or is started again.
LEMMA GoneStays ==
    ASSUME Shape, [Next]_vars, NEW p \in Proc
    PROVE  Gone(p) => Gone(p)' /\ (leaked[p] => leaked'[p])
  <1>0. /\ state \in [Proc -> {"none", "init", "ready", "dead"}] /\ life \in [Proc -> 0 .. 2]
        /\ leaked \in [Proc -> BOOLEAN]
        /\ \A q \in Proc : beat[q] # Idle => state[q] = "ready"
    BY DEF Shape, TypeOK
  <1>1. CASE UNCHANGED <<state, life, leaked>>
    BY <1>1 DEF Gone
  <1>2. ASSUME NEW q \in Proc, Dies(q), state[q] = "ready", life' = life
        PROVE  Gone(p) => Gone(p)' /\ (leaked[p] => leaked'[p])
    BY <1>0, <1>2 DEF Dies, Gone
  <1>3. ASSUME NEW q \in Proc, Restarted(q)
        PROVE  Gone(p) => Gone(p)' /\ (leaked[p] => leaked'[p])
    BY <1>0, <1>3 DEF Restarted, MayRestart, Gone
  <1>4. CASE createProcess
    BY <1>0, <1>4 DEF createProcess, Searched, Created, Gone
  <1>5. ASSUME NEW q \in Proc, rtspInit(q)
        PROVE  Gone(p) => Gone(p)' /\ (leaked[p] => leaked'[p])
    BY <1>0, <1>5 DEF rtspInit, Gone
  <1>6. CASE \E q \in Proc : DanglingArgs(q) \/ Crash(q)
    BY <1>0, <1>2, <1>6 DEF DanglingArgs, Crash
  <1>7. CASE \E q \in Proc : Restart(q) \/ RestartMeanwhile(q)
    BY <1>3, <1>7 DEF Restart, RestartMeanwhile
  <1>8. CASE \/ \E o \in Object : \/ request_stream_start(o) \/ request_stream_stop(o)
                                  \/ delObj(o) \/ BeatLate(o) \/ TaskLate(o)
             \/ ManagerLock \/ ManagerUnlock \/ objManager \/ conditionByPidOps
             \/ conditionByPidOps2 \/ NoProcess \/ putObj2pidQue \/ WaitProcInitFailed
             \/ \E q \in Proc : \/ rtsp_start(q, FALSE) \/ rtsp_start(q, TRUE) \/ rtsp_stop(q)
                                \/ \E o \in Object : BeatStep(q, o)
             \/ UNCHANGED vars
    <2>1. UNCHANGED <<state, life, leaked>>
      BY <1>8 DEF request_stream_start, request_stream_stop, delObj, BeatLate, TaskLate,
         ManagerLock, ManagerUnlock, objManager, conditionByPidOps, conditionByPidOps2,
         NoProcess, putObj2pidQue, WaitProcInitFailed, rtsp_start, rtsp_stop, BeatStep,
         rtspProcBeat, rtspTaskBeat, procs, vars
    <2> QED
      BY <1>1, <2>1
  <1> QED
    BY <1>4, <1>5, <1>6, <1>7, <1>8 DEF Next, ManagerStep, ProcStep

\* A step that gives no object to a process, and makes nothing late that one has.
LEMMA HandsOff ==
    ASSUME Assigned, [Next]_vars, que' = que,
           \A p \in Proc, o \in Object : Has(p, o) /\ ~Gone(p) /\ late'[o] => late[o]
    PROVE  Lists' /\ Owners' /\ Timely'
  <1>1. \A p \in Proc : Gone(p) => Gone(p)'
    BY GoneStays DEF Assigned
  <1>2. \A p \in Proc : \A o : Has(p, o)' <=> Has(p, o)
    BY DEF Has
  <1> QED
    BY <1>1, <1>2 DEF Assigned, Lists, Owners, Timely

\* A step that leaves the manager and the queues alone.
LEMMA SearchStays ==
    ASSUME Assigned, [Next]_vars, UNCHANGED <<que, mpc, mo, mp>>
    PROVE  Search'
  <1>1. \A p \in Proc : Gone(p) => Gone(p)' /\ (leaked[p] => leaked'[p])
    BY GoneStays DEF Assigned
  <1>2. /\ \A p \in Proc : Full(p)' <=> Full(p)
        /\ \A p \in Proc : Has(p, mo)' <=> Has(p, mo)
        /\ mpc = "put" => mp \in Proc /\ (Has(mp, mo)' <=> Has(mp, mo))
    BY DEF Full, Has, Assigned, Shape, Created
  <1>3. \A p \in Proc : leaked[p] => leaked'[p]
    BY <1>1 DEF Gone
  <1> QED
    BY <1>1, <1>2, <1>3 DEF Assigned, Search

\* Until 20 s without a beat have made an object late, a process has it that is not
\* gone; requests, time, processes and crashes do not change who has what.
LEMMA OthersAssigned ==
    ASSUME Assigned, ~Slow, [Next]_vars, ~ManagerStep, ~WaitProcInitFailed,
           \A p \in Proc, o \in Object : ~rtspProcBeat(p, o)
    PROVE  Lists' /\ Owners' /\ Timely' /\ Search'
  <1>1. CASE \E o \in Object : BeatLate(o)
    <2>1. PICK o \in Object : BeatLate(o)
      BY <1>1
    <2>2. \A p \in Proc : Has(p, o) => Gone(p)
      BY <2>1 DEF BeatLate, Silent, Gone
    <2>3. UNCHANGED <<que, mpc, mo, mp>> /\ late' = [late EXCEPT ![o] = TRUE]
      BY <2>1 DEF BeatLate, procs, manager
    <2>4. \A p \in Proc, x \in Object : Has(p, x) /\ ~Gone(p) /\ late'[x] => late[x]
      BY <2>2, <2>3 DEF Assigned, Shape, TypeOK
    <2> QED
      BY <2>3, <2>4, HandsOff, SearchStays
  <1>2. CASE \E p \in Proc : RestartMeanwhile(p)
    <2>1. que' = que /\ mpc' = "round" /\ late' = [late EXCEPT ![mo] = FALSE]
      BY <1>2 DEF RestartMeanwhile, Restarted, Beaten
    <2>2. \A p \in Proc, x \in Object : late'[x] => late[x]
      BY <2>1 DEF Assigned, Shape, TypeOK
    <2> QED
      BY <2>1, <2>2, HandsOff DEF Search
  <1>3. CASE \/ \E o \in Object : \/ request_stream_start(o) \/ request_stream_stop(o)
                                  \/ delObj(o) \/ TaskLate(o)
             \/ \E p \in Proc : \/ rtspInit(p) \/ Restart(p)
                                \/ rtsp_start(p, FALSE) \/ rtsp_start(p, TRUE) \/ rtsp_stop(p)
                                \/ DanglingArgs(p) \/ Crash(p)
                                \/ \E o \in Object : rtspTaskBeat(p, o)
             \/ UNCHANGED vars
    <2>1. UNCHANGED <<que, late, mpc, mo, mp>>
      BY <1>3 DEF request_stream_start, request_stream_stop, delObj, TaskLate, rtspInit,
         Restart, Restarted, rtsp_start, rtsp_stop, DanglingArgs, Crash, rtspTaskBeat,
         tasks, procs, manager, vars
    <2> QED
      BY <2>1, HandsOff, SearchStays
  <1> QED
    BY <1>1, <1>2, <1>3 DEF Next, ProcStep, BeatStep

LEMMA ProcBeatAssigned ==
    ASSUME Assigned, [Next]_vars, NEW p \in Proc, NEW o \in Object, rtspProcBeat(p, o)
    PROVE  Lists' /\ Owners' /\ Timely' /\ Search'
  <1>1. Shape /\ Lists /\ ~Gone(p) /\ Has(p, o) /\ ~leaked[p]
    BY DEF rtspProcBeat, Unlocked, Gone, Assigned
  <1>2. UNCHANGED <<state, life, leaked, mpc, mo, mp>>
    BY DEF rtspProcBeat, manager
  <1>3. /\ Lists' /\ \A q \in Proc : q # p => que'[q] = que[q]
        /\ \A x \in Object : x # o => (Has(p, x)' <=> Has(p, x))
        /\ \/ que' = que /\ late' = [late EXCEPT ![o] = FALSE]
           \/ Stopped(o) /\ late' = [late EXCEPT ![o] = TRUE] /\ ~Has(p, o)'
    BY <1>1, ProcBeatQueues
  <1>4. \A q \in Proc, x \in Object : Has(q, x)' => Has(q, x)
    BY <1>1, <1>3 DEF Has
  <1>5. \A q \in Proc : Gone(q)' <=> Gone(q)
    BY <1>2 DEF Gone
  <1>6. Owners'
    BY <1>4, <1>5 DEF Owners, Assigned
  <1>7. Timely'
    <2> SUFFICES ASSUME NEW q \in Proc, NEW x \in Object, Has(q, x)', ~Gone(q)
                 PROVE  ~late'[x]
      BY <1>5 DEF Timely
    <2>1. Has(q, x) /\ ~late[x]
      BY <1>4 DEF Assigned, Timely
    <2>2. CASE x = o
      <3>1. q = p
        BY <1>1, <2>1, <2>2 DEF Assigned, Owners
      <3> QED
        BY <1>3, <2>2, <3>1 DEF Assigned, Shape, TypeOK
    <2>3. CASE x # o
      BY <1>3, <2>1, <2>3 DEF Assigned, Shape, TypeOK
    <2> QED
      BY <2>2, <2>3
  <1>8. Search'
    <2>1. \A q \in Proc : Gone(q) => que'[q] = que[q]
      BY <1>1, <1>3
    <2>2. \A q \in Proc : Gone(q) => (Full(q)' <=> Full(q))
      BY <2>1 DEF Full
    <2>3. mpc \in {"search", "put"} => mo \in Object /\ mp \in Nat
      BY DEF Assigned, Shape
    <2>4. mpc \in {"search", "put"} => \A q \in Proc : Has(q, mo)' => Has(q, mo) /\ Gone(q)
      <3>1. mpc \in {"search", "put"} => \A q \in Proc : Has(q, mo) => Gone(q)
        BY DEF Assigned, Search
      <3>2. \A q \in Proc : Has(q, mo)' <=> Contains(que'[q], mo)
        BY <1>2 DEF Has
      <3>3. \A q \in Proc, x \in Object : Contains(que'[q], x) => Has(q, x)
        BY <1>4 DEF Has
      <3> QED
        BY <2>3, <3>1, <3>2, <3>3
    <2>5. mpc = "put" => mp \in Proc
      BY DEF Assigned, Shape, Created
    <2> QED
      BY <1>2, <1>5, <2>2, <2>4, <2>5 DEF Assigned, Search
  <1> QED
    BY <1>3, <1>6, <1>7, <1>8

\* The manager goes on to the next process past one that is full or has not the
\* object, and waits for one that died with the mutex.
LEMMA ManagerAssigned ==
    ASSUME Assigned, [Next]_vars, ManagerStep \/ WaitProcInitFailed
    PROVE  Lists' /\ Owners' /\ Timely' /\ Search'
  <1>0. Shape /\ Lists /\ Search /\ late \in [Object -> BOOLEAN]
    BY DEF Assigned, Shape, TypeOK
  <1>1. CASE ManagerLock \/ ManagerUnlock
    <2>1. que' = que /\ late' = late /\ mpc' \in {"idle", "round"}
      BY <1>1 DEF ManagerLock, ManagerUnlock, tasks, procs
    <2> QED
      BY <2>1, HandsOff DEF Search
  <1>2. CASE objManager
    <2>1. UNCHANGED <<tasks, procs>>
      BY <1>2 DEF objManager
    <2>2. \/ mpc' = "round"
          \/ \E o \in Object : late[o] /\ mpc' = "search" /\ mo' = o /\ mp' = 1
      BY <1>0, <1>2 DEF objManager, Shape, TypeOK
    <2>3. ASSUME NEW o \in Object, late[o], mpc' = "search", mo' = o, mp' = 1
          PROVE  Search'
      <3>1. \A p \in Proc : Has(p, o) => Gone(p)
        BY <2>3 DEF Assigned, Timely
      <3>2. \A p \in Proc : (Has(p, mo)' <=> Has(p, o)) /\ (Gone(p)' <=> Gone(p)) /\ ~(p < 1)
        BY <2>1, <2>3, ObjTaskAssumption DEF Has, Gone, procs, Proc
      <3> QED
        BY <2>3, <3>1, <3>2 DEF Search
    <2>4. mpc' = "round" => Search'
      BY DEF Search
    <2>5. Search'
      BY <2>2, <2>3, <2>4
    <2> QED
      BY <2>1, <2>5, HandsOff DEF tasks, procs
  <1>3. CASE (conditionByPidOps \/ NoProcess \/ WaitProcInitFailed) /\ Beaten
    <2>1. que' = que /\ mpc' = "round" /\ late' = [late EXCEPT ![mo] = FALSE]
      BY <1>3 DEF conditionByPidOps, NoProcess, WaitProcInitFailed, procs, Beaten
    <2>2. \A o \in Object : late'[o] => late[o]
      BY <1>0, <2>1
    <2> QED
      BY <2>1, <2>2, HandsOff DEF Search
  <1>4. CASE conditionByPidOps /\ ~Beaten
    <2>1. /\ UNCHANGED <<procs, late, mpc, mo>> /\ mpc = "search" /\ mp' = mp + 1
          /\ mp \in Proc /\ (Full(mp) \/ ~Has(mp, mo))
      BY <1>4 DEF conditionByPidOps, Created
    <2>2. \A p \in Proc : /\ (Full(p)' <=> Full(p)) /\ leaked'[p] = leaked[p]
                          /\ Has(p, mo)' <=> Has(p, mo)
                          /\ Gone(p)' <=> Gone(p)
      BY <2>1 DEF Full, Has, Gone, procs
    <2>3. \A p \in Proc : p < mp + 1 => p < mp \/ p = mp
      BY <2>1, ObjTaskAssumption DEF Proc
    <2>4. Search'
      BY <1>0, <2>1, <2>2, <2>3 DEF Search
    <2> QED
      BY <2>1, <2>4, HandsOff DEF procs
  <1>5. CASE conditionByPidOps2
    <2>1. /\ UNCHANGED <<tasks, procs, mo>> /\ mpc = "search" /\ mpc' = "put"
          /\ mp \notin Created /\ mp' \in Created /\ ~Full(mp')
      BY <1>5, ChosenIs DEF conditionByPidOps2, Searched
    <2>2. mp' < mp
      <3>1. mp \in 1 .. ProcMax + 1 /\ mp' \in Proc /\ state[mp'] # "none"
        BY <1>0, <2>1 DEF Shape, Created
      <3>2. CASE mp \in Proc
        <4>1. state[mp] = "none"
          BY <2>1, <3>2 DEF Created
        <4>2. ~(mp < mp') /\ mp # mp'
          BY <1>0, <2>1, <3>1, <3>2, <4>1 DEF Shape
        <4> QED
          BY <3>1, <3>2, <4>2, ObjTaskAssumption DEF Proc
      <3>3. CASE mp \notin Proc
        BY <3>1, <3>3, ObjTaskAssumption DEF Proc
      <3> QED
        BY <3>2, <3>3
    <2>3. mp' \in Proc /\ (Has(mp', mo) => leaked[mp'])
      BY <1>0, <2>1, <2>2 DEF Search, Created
    <2>4. Search'
      BY <1>0, <2>1, <2>3 DEF Search, Has, Gone, procs
    <2> QED
      BY <2>1, <2>4, HandsOff DEF tasks, procs
  <1>6. CASE createProcess
    <2>1. /\ UNCHANGED <<tasks, que, leaked, mo, mp>> /\ mpc = "search" /\ mpc' = "put"
          /\ mp \in Proc /\ state[mp] = "none"
      BY <1>6 DEF createProcess, Searched, Created
    <2>2. ~Has(mp, mo)
      BY <1>0, <2>1 DEF Shape, Has, Contains
    <2>3. \A p \in Proc : Has(p, mo) => Gone(p)'
      BY <1>0, <2>1, GoneStays DEF Search
    <2>4. Search'
      BY <2>1, <2>2, <2>3 DEF Search, Has
    <2> QED
      BY <2>1, <2>4, HandsOff DEF tasks
  <1>7. CASE putObj2pidQue
    <2>1. /\ mpc = "put" /\ mp \in Proc /\ ~leaked[mp] /\ mo \in Object /\ ~Has(mp, mo)
          /\ que' = IF Full(mp) THEN que ELSE [que EXCEPT ![mp] = Append(@, mo)]
          /\ UNCHANGED <<state, life, leaked>>
          /\ mpc' = "round" /\ late' = [late EXCEPT ![mo] = FALSE]
      BY <1>0, <1>7 DEF putObj2pidQue, Unlocked, Beaten, Shape, Search, Created
    <2>2. Search'
      BY <2>1 DEF Search
    <2>3. CASE Full(mp)
      <3>1. \A o \in Object : late'[o] => late[o]
        BY <1>0, <2>1
      <3> QED
        BY <2>1, <2>2, <2>3, <3>1, HandsOff
    <2>4. CASE ~Full(mp)
      <3> DEFINE r == Append(que[mp], mo)
      <3>1. que \in [Proc -> Seq(Object)] /\ que[mp] \in Seq(Object) /\ IsInjective(que[mp])
            /\ Len(que[mp]) \in Nat
        BY <1>0, <2>1, LenProperties DEF Shape, TypeOK, Lists
      <3>2. /\ r \in Seq(Object) /\ IsInjective(r) /\ Len(r) = Len(que[mp]) + 1
            /\ \A x : Contains(r, x) <=> Contains(que[mp], x) \/ x = mo
        BY <2>1, <3>1, AppendOne DEF Has
      <3> HIDE DEF r
      <3>3. que' = [que EXCEPT ![mp] = r]
        BY <2>1, <2>4 DEF r
      <3>4. que'[mp] = r /\ \A p \in Proc : p # mp => que'[p] = que[p]
        BY <2>1, <3>1, <3>3
      <3>5. Lists'
        BY <1>0, <2>4, <3>1, <3>2, <3>4, ObjTaskAssumption DEF Lists, Full
      <3>6. \A p \in Proc, x \in Object : Has(p, x)' <=> (Has(p, x) \/ (p = mp /\ x = mo))
        BY <3>2, <3>4 DEF Has
      <3>7. \A p \in Proc : (Gone(p)' <=> Gone(p)) /\ (Has(p, mo) => Gone(p))
        BY <1>0, <2>1 DEF Gone, Search
      <3>8. Owners'
        BY <3>6, <3>7 DEF Assigned, Owners
      <3>9. Timely'
        BY <1>0, <2>1, <3>6, <3>7 DEF Assigned, Timely
      <3> QED
        BY <2>2, <3>5, <3>8, <3>9
    <2> QED
      BY <2>3, <2>4
  <1>8. CASE NoProcess \/ WaitProcInitFailed
    BY <1>3, <1>8 DEF NoProcess, WaitProcInitFailed
  <1> QED
    BY <1>1, <1>2, <1>3, <1>4, <1>5, <1>6, <1>7, <1>8 DEF ManagerStep

LEMMA StepAssigned == ~Slow => (Assigned /\ [Next]_vars => Assigned')
  <1> SUFFICES ASSUME ~Slow, Assigned, [Next]_vars PROVE Assigned'
    OBVIOUS
  <1>1. Shape'
    <2>1. CASE UNCHANGED vars
      BY <2>1 DEF vars, tasks, procs, manager, Assigned, Shape, TypeOK, Has, Created
    <2>2. CASE Next
      BY <2>2, RequestShape, ManagerShape, ProcShape, BeatShape
         DEF Next, ProcStep, Assigned
    <2> QED
      BY <2>1, <2>2
  <1>2. Lists' /\ Owners' /\ Timely' /\ Search'
    BY OthersAssigned, ProcBeatAssigned, ManagerAssigned
  <1> QED
    BY <1>1, <1>2 DEF Assigned

LEMMA InitAssigned == Init => Assigned
  <1> SUFFICES ASSUME Init PROVE Assigned
    OBVIOUS
  <1>1. \A p \in Proc : que[p] = <<>>
    BY DEF Init
  <1>2. \A p \in Proc : \A o : ~Has(p, o)
    BY <1>1 DEF Has, Contains
  <1>3. Lists
    BY <1>1, ObjTaskAssumption DEF Lists, IsInjective
  <1> QED
    BY <1>2, <1>3, ShapeInit DEF Init, Assigned, Owners, Timely, Search

\* An object is in the queue of one process that serves it at most, and there once,
\* for any number of objects and processes, however they die and are started again:
\* objManager goes by the beat alone, and a late beat means that every process that
\* has the object is gone.  It takes that starting and stopping a stream is faster
\* than the beat.
THEOREM AssignedSafe ==
    ASSUME ~Slow
    PROVE  Spec => []AssignedOnce
  <1>1. Assigned /\ [][Next]_vars => []Assigned
    BY StepAssigned, PTL
  <1>2. Assigned => AssignedOnce
    <2> SUFFICES ASSUME Assigned PROVE AssignedOnce
      OBVIOUS
    <2>1. \A p \in Proc : Serves(p) => ~Gone(p)
      BY DEF Serves, Gone
    <2> QED
      BY <2>1 DEF Assigned, Lists, Owners, AssignedOnce
  <1> QED
    BY InitAssigned, <1>1, <1>2, PTL DEF Spec

-----------------------------------------------------------------------------
(* A stream runs in one process.  Where it runs, the process is up, has the    *)
(* object and has allocated the parameters itself; so it is the only owner.    *)

Plays(l, o) == /\ l = This(l[1]) /\ l[1] \in Proc /\ args[o] = l /\ tbeat[o] # "zero"
               /\ state[l[1]] = "ready" /\ ~leaked[l[1]] /\ Has(l[1], o)

Streams == \A o \in Object : \A l \in playing[o] : Plays(l, o)

\* A process that starts or stops the stream of an object is the only one in which it runs.
LEMMA OnlyHere ==
    ASSUME Assigned, Streams, NEW p \in Proc, beat[p] # Idle
    PROVE  playing[beat[p].obj] \subseteq {This(p)}
  <1>1. /\ beat[p].obj \in Object /\ Has(p, beat[p].obj) /\ ~Gone(p)
        /\ state[p] = "ready" /\ ~leaked[p]
    BY DEF Assigned, Shape, Gone
  <1>2. ASSUME NEW l \in playing[beat[p].obj] PROVE l = This(p)
    <2>1. Plays(l, beat[p].obj)
      BY <1>1 DEF Streams
    <2>2. ~Gone(l[1]) /\ l[1] \in Proc /\ Has(l[1], beat[p].obj) /\ l = This(l[1])
      BY <2>1 DEF Plays, Gone
    <2>3. l[1] = p
      BY <1>1, <2>2 DEF Assigned, Owners
    <2> QED
      BY <2>2, <2>3
  <1> QED
    BY <1>2

\* A step that starts no stream, and under which what runs goes on.
LEMMA PlayOn ==
    ASSUME Shape, Streams, UNCHANGED <<args, playing>>,
           \A o \in Object : tbeat'[o] = "zero" => tbeat[o] = "zero",
           \A p \in Proc : state[p] = "ready" =>
               /\ state'[p] = "ready" /\ life'[p] = life[p] /\ leaked'[p] = leaked[p]
               /\ \A o \in Object : playing[o] # {} /\ Has(p, o) => Has(p, o)'
    PROVE  Streams'
  <1> SUFFICES ASSUME NEW o \in Object, NEW l \in playing[o] PROVE Plays(l, o)'
    BY DEF Streams
  <1>1. Plays(l, o)
    BY DEF Streams
  <1>2. l[1] \in Proc /\ state[l[1]] = "ready" /\ Has(l[1], o) /\ l = This(l[1])
    BY <1>1 DEF Plays
  <1>3. /\ state'[l[1]] = "ready" /\ life'[l[1]] = life[l[1]] /\ leaked'[l[1]] = leaked[l[1]]
        /\ Has(l[1], o)'
    BY <1>2
  <1>4. This(l[1])' = This(l[1])
    BY <1>3 DEF This
  <1> QED
    BY <1>1, <1>2, <1>3, <1>4 DEF Plays

\* The streams of a process end with it, and those of others go on.
LEMMA DiesStreams ==
    ASSUME Shape, Streams, NEW p \in Proc, Dies(p), UNCHANGED <<tbeat, args, que, life>>
    PROVE  Streams'
  <1> SUFFICES ASSUME NEW o \in Object, NEW l \in playing'[o] PROVE Plays(l, o)'
    BY DEF Streams
  <1>1. l \in playing[o] /\ l # This(p)
    BY DEF Dies
  <1>2. Plays(l, o) /\ l[1] # p
    BY <1>1 DEF Streams, Plays
  <1>3. state'[l[1]] = state[l[1]] /\ leaked'[l[1]] = leaked[l[1]] /\ l[1] \in Proc
    BY <1>2 DEF Dies, Plays, Shape, TypeOK
  <1> QED
    BY <1>2, <1>3 DEF Plays, This, Has

\* rtsp_start and rtsp_stop.
LEMMA StartStopStreams ==
    ASSUME Assigned, Streams, NEW p \in Proc,
           rtsp_start(p, TRUE) \/ rtsp_start(p, FALSE) \/ rtsp_stop(p)
    PROVE  Streams'
  <1> DEFINE o == beat[p].obj
  <1>1. beat[p] # Idle /\ UNCHANGED <<state, life, leaked, que>>
    BY DEF rtsp_start, rtsp_stop, Idle
  <1>2. /\ o \in Object /\ Has(p, o) /\ state[p] = "ready" /\ ~leaked[p]
        /\ playing[o] \subseteq {This(p)} /\ This(p)[1] = p
    BY <1>1, OnlyHere DEF Assigned, Shape, This
  <1>3. /\ args \in [Object -> Lives \cup {NULL}] /\ playing \in [Object -> SUBSET Lives]
        /\ tbeat \in [Object -> {"zero", "fresh", "late"}]
    BY DEF Assigned, Shape, TypeOK
  <1>4. \/ /\ args' = [args EXCEPT ![o] = This(p)] /\ tbeat' = [tbeat EXCEPT ![o] = "fresh"]
           /\ \/ playing' = [playing EXCEPT ![o] = @ \cup {This(p)}]
              \/ playing' = [playing EXCEPT ![o] = @ \ {This(p)}]
        \/ /\ args' = [args EXCEPT ![o] = NULL] /\ tbeat' = [tbeat EXCEPT ![o] = "zero"]
           /\ playing' = [playing EXCEPT ![o] = @ \ {This(p)}]
    BY DEF rtsp_start, rtsp_stop
  <1> HIDE DEF o
  <1>5. /\ \A x \in Object : x # o => /\ args'[x] = args[x] /\ tbeat'[x] = tbeat[x]
                                      /\ playing'[x] = playing[x]
        /\ playing'[o] \subseteq {This(p)}
        /\ playing'[o] # {} => args'[o] = This(p) /\ tbeat'[o] # "zero"
    BY <1>2, <1>3, <1>4
  <1>6. ASSUME NEW x \in Object, NEW l \in playing'[x] PROVE Plays(l, x)'
    <2>1. CASE x = o
      BY <1>1, <1>2, <1>5, <1>6, <2>1 DEF Plays, This, Has
    <2>2. CASE x # o
      <3>1. Plays(l, x)
        BY <1>5, <1>6, <2>2 DEF Streams
      <3> QED
        BY <1>1, <1>5, <2>2, <3>1 DEF Plays, This, Has
    <2> QED
      BY <2>1, <2>2
  <1> QED
    BY <1>6 DEF Streams

LEMMA ManagerStreams ==
    ASSUME Assigned, Streams, [Next]_vars, ManagerStep \/ WaitProcInitFailed
    PROVE  Streams'
  <1>0. Shape /\ UNCHANGED <<args, playing, tbeat>>
    BY DEF Assigned, ManagerStep, ManagerLock, ManagerUnlock, objManager, conditionByPidOps,
       conditionByPidOps2, createProcess, NoProcess, putObj2pidQue, WaitProcInitFailed, tasks
  <1>1. CASE createProcess
    <2>1. UNCHANGED <<que, leaked>> /\ state[mp] = "none" /\ mp \in Proc
          /\ state' = [state EXCEPT ![mp] = "init"] /\ life' = [life EXCEPT ![mp] = 1]
      BY <1>1 DEF createProcess, Searched, Created
    <2>2. \A p \in Proc : state[p] = "ready" => state'[p] = "ready" /\ life'[p] = life[p]
      BY <1>0, <2>1 DEF Shape, TypeOK
    <2> QED
      BY <1>0, <2>1, <2>2, PlayOn DEF Has
  <1>2. CASE putObj2pidQue
    <2>1. /\ UNCHANGED <<state, life, leaked>> /\ mp \in Proc /\ mo \in Object
          /\ que' = IF Full(mp) THEN que ELSE [que EXCEPT ![mp] = Append(@, mo)]
          /\ IsInjective(que[mp]) /\ que[mp] \in Seq(Object) /\ (Has(mp, mo) => leaked[mp])
          /\ ~leaked[mp] /\ que \in [Proc -> Seq(Object)]
      BY <1>2 DEF putObj2pidQue, Unlocked, Assigned, Shape, TypeOK, Created, Lists, Search
    <2>2. \A x : Contains(Append(que[mp], mo), x) <=> Contains(que[mp], x) \/ x = mo
      BY <2>1, AppendOne DEF Has
    <2>3. \A p \in Proc, o \in Object : Has(p, o) => Has(p, o)'
      BY <2>1, <2>2 DEF Has
    <2> QED
      BY <1>0, <2>1, <2>3, PlayOn
  <1>3. CASE ~createProcess /\ ~putObj2pidQue
    <2>1. UNCHANGED procs
      BY <1>3 DEF ManagerStep, ManagerLock, ManagerUnlock, objManager, conditionByPidOps,
         conditionByPidOps2, NoProcess, WaitProcInitFailed
    <2> QED
      BY <1>0, <2>1, PlayOn DEF procs, Has
  <1> QED
    BY <1>1, <1>2, <1>3

LEMMA StepStreams == Assigned /\ Streams /\ [Next]_vars => Streams'
  <1> SUFFICES ASSUME Assigned, Streams, [Next]_vars PROVE Streams'
    OBVIOUS
  <1>0. Shape /\ Lists /\ tbeat \in [Object -> {"zero", "fresh", "late"}]
    BY DEF Assigned, Shape, TypeOK
  <1>1. CASE ManagerStep \/ WaitProcInitFailed
    BY <1>1, ManagerStreams
  <1>2. CASE \E p \in Proc : rtsp_start(p, TRUE) \/ rtsp_start(p, FALSE) \/ rtsp_stop(p)
    BY <1>2, StartStopStreams
  <1>3. CASE \E p \in Proc : DanglingArgs(p) \/ Crash(p)
    BY <1>0, <1>3, DiesStreams DEF DanglingArgs, Crash
  <1>4. CASE \E p \in Proc, o \in Object : rtspProcBeat(p, o)
    <2>1. PICK p \in Proc, o \in Object : rtspProcBeat(p, o)
      BY <1>4
    <2>2. UNCHANGED <<tbeat, args, playing, state, life, leaked>>
      BY <2>1 DEF rtspProcBeat
    <2>3. /\ \A q \in Proc : q # p => que'[q] = que[q]
          /\ \A x \in Object : x # o => (Has(p, x)' <=> Has(p, x))
          /\ que' = que \/ Stopped(o)
      BY <1>0, <2>1, ProcBeatQueues
    <2>4. Stopped(o) => playing[o] = {}
      BY DEF Stopped, Streams, Plays
    <2>5. \A q \in Proc, x \in Object : playing[x] # {} /\ Has(q, x) => Has(q, x)'
      BY <2>3, <2>4 DEF Has
    <2> QED
      BY <1>0, <2>2, <2>5, PlayOn
  <1>5. CASE \E p \in Proc : rtspInit(p) \/ Restart(p) \/ RestartMeanwhile(p)
    <2>1. PICK p \in Proc : rtspInit(p) \/ Restart(p) \/ RestartMeanwhile(p)
      BY <1>5
    <2>2. UNCHANGED <<tbeat, args, playing, que, leaked>> /\ state[p] # "ready"
          /\ \/ state' = [state EXCEPT ![p] = "ready"] /\ life' = life
             \/ state' = [state EXCEPT ![p] = "init"] /\ life' = [life EXCEPT ![p] = @ + 1]
      BY <2>1 DEF rtspInit, Restart, RestartMeanwhile, Restarted, MayRestart, tasks
    <2>3. \A q \in Proc : state[q] = "ready" => state'[q] = "ready" /\ life'[q] = life[q]
      BY <1>0, <2>2 DEF Shape, TypeOK
    <2> QED
      BY <1>0, <2>2, <2>3, PlayOn DEF Has
  <1>6. CASE \/ \E o \in Object : \/ request_stream_start(o) \/ request_stream_stop(o)
                                  \/ delObj(o) \/ BeatLate(o) \/ TaskLate(o)
             \/ \E p \in Proc, o \in Object : rtspTaskBeat(p, o)
             \/ UNCHANGED vars
    <2>1. UNCHANGED <<args, playing, state, life, leaked, que>>
      BY <1>6 DEF request_stream_start, request_stream_stop, delObj, BeatLate, TaskLate,
         rtspTaskBeat, tasks, procs, vars
    <2>2. tbeat' = tbeat \/ \E o \in Object, b \in {"fresh", "late"} :
                              tbeat' = [tbeat EXCEPT ![o] = b]
      BY <1>6 DEF request_stream_start, request_stream_stop, delObj, BeatLate, TaskLate,
         rtspTaskBeat, tasks, vars
    <2>3. \A o \in Object : tbeat'[o] = "zero" => tbeat[o] = "zero"
      BY <1>0, <2>2
    <2> QED
      BY <1>0, <2>1, <2>3, PlayOn DEF Has
  <1> QED
    BY <1>1, <1>2, <1>3, <1>4, <1>5, <1>6 DEF Next, ProcStep, BeatStep

\* The stream of an object runs in one process at most, which has the object in its
\* queue and will stop it, with parameters it allocated itself, for any number of
\* objects and processes, requests, crashes and restarts: rtsp_stop comes before the
\* object is let go, and a crash ends the streams of the process.  It takes that
\* starting and stopping a stream is faster than the beat.
THEOREM StreamSafe ==
    ASSUME ~Slow
    PROVE  Spec => []OneStream
  <1>1. Init => Assigned /\ Streams
    <2>1. Init => Streams
      BY DEF Init, Streams
    <2> QED
      BY <2>1, InitAssigned
  <1>2. Assigned /\ Streams /\ [Next]_vars => Assigned' /\ Streams'
    BY StepAssigned, StepStreams
  <1>3. Streams => OneStream
    <2> SUFFICES ASSUME Streams, NEW o \in Object
                 PROVE  /\ Cardinality(playing[o]) <= 1
                        /\ \A l \in playing[o] : /\ l = This(l[1]) /\ args[o] = l
                                                /\ Has(l[1], o) /\ tbeat[o] # "zero"
      BY DEF OneStream
    <2>1. \A l \in playing[o] : Plays(l, o)
      BY DEF Streams
    <2>2. playing[o] \subseteq {args[o]}
      BY <2>1 DEF Plays
    <2>3. Cardinality({args[o]}) = 1 /\ IsFiniteSet({args[o]})
      BY FS_Singleton
    <2>4. Cardinality(playing[o]) <= 1
      BY <2>2, <2>3, FS_Subset
    <2> QED
      BY <2>1, <2>4 DEF Plays
  <1> QED
    BY <1>1, <1>2, <1>3, PTL DEF Spec
=============================================================================
