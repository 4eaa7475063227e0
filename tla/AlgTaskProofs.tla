--------------------------- MODULE AlgTaskProofs ---------------------------
(***************************************************************************)
(* How far the three lists of an object may differ, for any objects,       *)
(* algorithms, requests and faults of every kind.  The queue changes at    *)
(* one step of a request, the slave at a second and the row at a third,    *)
(* and a crash may come between any two: the invariant counts what the     *)
(* request under way has done to one list and not yet to the other.        *)
(***************************************************************************)
EXTENDS AlgTask, SequenceTheorems, TLAPS

Requests == [op : {"start", "stop"}, o : Obj, a : Alg,
             at : {"begin", "post", "row"}, got : BOOLEAN]

Types ==
    /\ rowAlgs \in [Obj -> SUBSET Alg] /\ nodes \in [Obj -> Seq(BOOLEAN)]
    /\ algQueue \in Lists /\ unwritten \in Lists
    /\ req \in {NoReq} \cup Requests
    /\ req.at = "begin" => ~req.got

One(b) == IF b THEN 1 ELSE 0

\* The request under way has changed the list of o.
Took(op, o, a) == req.op = op /\ req.got /\ req.o = o /\ req.a = a

\* The queue is what the row stands for and what was never written there.
CountOf(o, a) ==
    algQueue[o][a] + One(Took("stop", o, a))
      = unwritten[o][a] + One(Live(o, a)) + One(Took("start", o, a) /\ ~Live(o, a))

Counted == \A o \in Obj, a \in Alg : CountOf(o, a)

\* A stop that found nothing has nothing to account for.
Missing == req.op = "stop" /\ req.at \in {"post", "row"} /\ ~req.got
              => ~Live(req.o, req.a)

CountInv == Types /\ Counted /\ Missing

-----------------------------------------------------------------------------
\* One entry more, one less.
LEMMA IncAt ==
    ASSUME NEW q \in Lists, NEW o \in Obj, NEW a \in Alg
    PROVE  /\ Inc(q, o, a) \in Lists
           /\ \A p \in Obj, b \in Alg :
                Inc(q, o, a)[p][b] = q[p][b] + One(p = o /\ b = a)
  <1> DEFINE r == [q[o] EXCEPT ![a] = @ + 1]
  <1>1. /\ r \in [Alg -> Nat]
        /\ \A b \in Alg : r[b] = q[o][b] + One(b = a)
    BY DEF Lists, One
  <1>2. Inc(q, o, a) = [q EXCEPT ![o] = r]
    BY DEF Inc
  <1> HIDE DEF r
  <1>3. \A p \in Obj : Inc(q, o, a)[p] = IF p = o THEN r ELSE q[p]
    BY <1>2 DEF Lists
  <1>4. Inc(q, o, a) \in Lists
    BY <1>1, <1>2 DEF Lists
  <1>5. ASSUME NEW p \in Obj, NEW b \in Alg
        PROVE  Inc(q, o, a)[p][b] = q[p][b] + One(p = o /\ b = a)
    <2>1. q[p][b] \in Nat
      BY DEF Lists
    <2>2. CASE p = o
      BY <1>1, <1>3, <2>2 DEF One
    <2>3. CASE p # o
      BY <1>3, <2>1, <2>3 DEF One
    <2>4. QED
      BY <2>2, <2>3
  <1>6. QED
    BY <1>4, <1>5

LEMMA DecAt ==
    ASSUME NEW q \in Lists, NEW o \in Obj, NEW a \in Alg, q[o][a] > 0
    PROVE  /\ Dec(q, o, a) \in Lists
           /\ \A p \in Obj, b \in Alg :
                Dec(q, o, a)[p][b] = q[p][b] - One(p = o /\ b = a)
  <1> DEFINE r == [q[o] EXCEPT ![a] = @ - 1]
  <1>1. /\ r \in [Alg -> Nat]
        /\ \A b \in Alg : r[b] = q[o][b] - One(b = a)
    BY DEF Lists, One
  <1>2. Dec(q, o, a) = [q EXCEPT ![o] = r]
    BY DEF Dec
  <1> HIDE DEF r
  <1>3. \A p \in Obj : Dec(q, o, a)[p] = IF p = o THEN r ELSE q[p]
    BY <1>2 DEF Lists
  <1>4. Dec(q, o, a) \in Lists
    BY <1>1, <1>2 DEF Lists
  <1>5. ASSUME NEW p \in Obj, NEW b \in Alg
        PROVE  Dec(q, o, a)[p][b] = q[p][b] - One(p = o /\ b = a)
    <2>1. q[p][b] \in Nat
      BY DEF Lists
    <2>2. CASE p = o
      BY <1>1, <1>3, <2>2 DEF One
    <2>3. CASE p # o
      BY <1>3, <2>1, <2>3 DEF One
    <2>4. QED
      BY <2>2, <2>3
  <1>6. QED
    BY <1>4, <1>5

LEMMA Ends ==
    ASSUME NEW s \in Seq(BOOLEAN)
    PROVE  /\ Append(s, FALSE) # <<>>
           /\ DOMAIN s = {} => s = <<>>
  <1>1. Len(Append(s, FALSE)) = Len(s) + 1 /\ Len(s) \in Nat /\ DOMAIN s = 1..Len(s)
    OBVIOUS
  <1>2. Append(s, FALSE) # <<>>
    BY AppendProperties, FALSE \in BOOLEAN
  <1>3. ASSUME DOMAIN s = {}
        PROVE  s = <<>>
    <2>1. Len(s) = 0
      <3>1. Len(s) > 0 => 1 \in DOMAIN s
        BY <1>1
      <3>2. QED
        BY <1>1, <1>3, <3>1
    <2>2. QED
      BY <2>1
  <1>4. QED
    BY <1>2, <1>3

LEMMA ZeroAt == Zero \in Lists /\ \A o \in Obj, a \in Alg : Zero[o][a] = 0
  BY DEF Zero, Lists

\* Where a request is.
LEMMA Pending ==
    ASSUME CountInv, req.op \in {"start", "stop"}
    PROVE  /\ req \in Requests /\ req # NoReq
           /\ req.o \in Obj /\ req.a \in Alg /\ req.got \in BOOLEAN
           /\ req.at \in {"begin", "post", "row"}
  BY DEF CountInv, Types, Requests, NoReq

LEMMA NothingTaken ==
    ASSUME req = NoReq \/ ~req.got
    PROVE  \A op, o, a : ~Took(op, o, a)
  BY DEF Took, NoReq

-----------------------------------------------------------------------------
LEMMA InitCount == Init => CountInv
  <1> SUFFICES ASSUME Init PROVE CountInv
    OBVIOUS
  <1>1. Types
    BY ZeroAt DEF Init, Types, NoReq
  <1>2. \A o \in Obj, a \in Alg : ~Live(o, a)
    BY DEF Init, Live
  <1>3. \A o \in Obj, a \in Alg : algQueue[o][a] = 0 /\ unwritten[o][a] = 0
    BY ZeroAt DEF Init
  <1>4. Counted
    BY <1>2, <1>3, NothingTaken DEF Init, Counted, CountOf, One
  <1>5. Missing
    BY DEF Init, Missing, NoReq
  <1>6. QED
    BY <1>1, <1>4, <1>5 DEF CountInv

\* A step that leaves the lists and rows alone and does not take or give.
LEMMA CountKept ==
    ASSUME CountInv, UNCHANGED <<rowAlgs, algQueue, unwritten, lapsed>>,
           nodes' \in [Obj -> Seq(BOOLEAN)],
           \/ req' = req
           \/ req = NoReq /\ req' \in Requests /\ req'.at = "begin" /\ ~req'.got
           \/ req' = NoReq /\ req.at = "begin"
           \/ req \in Requests /\ req.at = "post" /\ req' = [req EXCEPT !.at = "row"]
    PROVE  CountInv'
  <1>1. /\ req' \in {NoReq} \cup Requests /\ (req'.at = "begin" => ~req'.got)
        /\ \A op, o, a : Took(op, o, a)' <=> Took(op, o, a)
        /\ req'.op = "stop" /\ req'.at \in {"post", "row"} /\ ~req'.got
              => /\ req.op = "stop" /\ req.at \in {"post", "row"} /\ ~req.got
                 /\ req'.o = req.o /\ req'.a = req.a
    <2>1. CASE req' = req
      BY <2>1 DEF CountInv, Types, Took
    <2>2. CASE req = NoReq /\ req' \in Requests /\ req'.at = "begin" /\ ~req'.got
      BY <2>2 DEF Took, NoReq
    <2>3. CASE req' = NoReq /\ req.at = "begin"
      BY <2>3 DEF CountInv, Types, Took, NoReq
    <2>4. CASE req \in Requests /\ req.at = "post" /\ req' = [req EXCEPT !.at = "row"]
      <3>1. /\ req' \in Requests /\ req'.at = "row" /\ req'.got = req.got
            /\ req'.op = req.op /\ req'.o = req.o /\ req'.a = req.a
        BY <2>4 DEF Requests
      <3>2. QED
        BY <2>4, <3>1 DEF Took
    <2>5. QED
      BY <2>1, <2>2, <2>3, <2>4
  <1>2. \A o, a : Live(o, a)' <=> Live(o, a)
    BY DEF Live
  <1>3. Types'
    BY <1>1 DEF CountInv, Types
  <1>4. Counted'
    BY <1>1, <1>2 DEF CountInv, Counted, CountOf, One
  <1>5. Missing'
    BY <1>1 DEF CountInv, Missing, Live
  <1>6. QED
    BY <1>3, <1>4, <1>5 DEF CountInv

\* A start puts the algorithm if there is room, with or without its row.
LEMMA AddKept ==
    ASSUME CountInv, StartNew \/ StartAgain
    PROVE  CountInv'
  <1> DEFINE o == req.o
             a == req.a
             got == nodes[req.o] # <<>> /\ ~Full(algQueue[req.o])
  <1>1. /\ req \in Requests /\ o \in Obj /\ a \in Alg
        /\ req.op = "start" /\ req.at = "begin" /\ ~req.got
    BY Pending DEF StartNew, StartAgain, At, CountInv, Types
  <1>2. /\ algQueue' = IF got THEN Inc(algQueue, o, a) ELSE algQueue
        /\ UNCHANGED <<rowAlgs, nodes, lapsed>>
        /\ Listed(got)
    BY DEF StartNew, StartAgain, addAlg
  <1>3. got \in BOOLEAN
    BY DEF Full
  <1> HIDE DEF got
  <1>4. /\ req' \in Requests /\ req'.op = "start" /\ req'.at \in {"post", "row"}
        /\ req'.o = o /\ req'.a = a /\ req'.got = got
    BY <1>1, <1>2, <1>3 DEF Listed, Requests
  <1>5. unwritten' = IF got /\ (\E p \in Obj : a \in rowAlgs[p]) /\ Live(o, a)
                     THEN Inc(unwritten, o, a) ELSE unwritten
    <2>1. CASE StartNew
      BY <2>1 DEF StartNew, dbExsit
    <2>2. CASE StartAgain
      BY <1>4, <2>2 DEF StartAgain, dbExsit
    <2>3. QED
      BY <2>1, <2>2
  <1>6. unwritten' = IF got /\ Live(o, a) THEN Inc(unwritten, o, a) ELSE unwritten
    BY <1>1, <1>5 DEF Live
  <1>7. \A p, b : Live(p, b)' <=> Live(p, b)
    BY <1>2 DEF Live
  <1>8. \A op, p, b : ~Took(op, p, b)
    BY <1>1, NothingTaken
  <1>9. \A p, b : /\ ~Took("stop", p, b)'
                  /\ Took("start", p, b)' <=> (got /\ p = o /\ b = a)
    BY <1>3, <1>4 DEF Took
  <1>10. algQueue \in Lists /\ unwritten \in Lists
    BY DEF CountInv, Types
  <1>11. Types'
    BY <1>1, <1>2, <1>4, <1>6, <1>10, IncAt DEF CountInv, Types
  <1>12. ASSUME NEW p \in Obj, NEW b \in Alg
         PROVE  CountOf(p, b)'
    <2>1. /\ algQueue[p][b] \in Nat /\ unwritten[p][b] \in Nat
          /\ algQueue[p][b] = unwritten[p][b] + One(Live(p, b))
      BY <1>8, <1>10 DEF CountInv, Counted, CountOf, Lists, One
    <2>2. algQueue'[p][b] = algQueue[p][b] + One(got /\ p = o /\ b = a)
      BY <1>1, <1>2, <1>10, <2>1, IncAt DEF One
    <2>3. unwritten'[p][b] = unwritten[p][b] + One(got /\ Live(o, a) /\ p = o /\ b = a)
      BY <1>1, <1>6, <1>10, <2>1, IncAt DEF One
    <2>4. CASE p = o /\ b = a
      BY <1>7, <1>9, <2>1, <2>2, <2>3, <2>4 DEF CountOf, One
    <2>5. CASE ~(p = o /\ b = a)
      BY <1>7, <1>9, <2>1, <2>2, <2>3, <2>5 DEF CountOf, One
    <2>6. QED
      BY <2>4, <2>5
  <1>13. Missing'
    BY <1>4 DEF Missing
  <1>14. QED
    BY <1>11, <1>12, <1>13 DEF CountInv, Counted

LEMMA DelKept ==
    ASSUME CountInv, delAlg
    PROVE  CountInv'
  <1> DEFINE o == req.o
             a == req.a
             got == algQueue[req.o][req.a] > 0
  <1>1. /\ req \in Requests /\ o \in Obj /\ a \in Alg
        /\ req.op = "stop" /\ req.at = "begin" /\ ~req.got
    BY Pending DEF delAlg, At, CountInv, Types
  <1>2. /\ algQueue' = IF got THEN Dec(algQueue, o, a) ELSE algQueue
        /\ UNCHANGED <<rowAlgs, nodes, unwritten, lapsed>>
        /\ Listed(got)
    BY DEF delAlg, Del, history
  <1>3. algQueue \in Lists /\ unwritten \in Lists /\ got \in BOOLEAN
    BY <1>1 DEF CountInv, Types, Lists
  <1>4. /\ req' \in Requests /\ req'.op = "stop" /\ req'.at \in {"post", "row"}
        /\ req'.o = o /\ req'.a = a /\ req'.got = got
    <2> HIDE DEF got
    <2>1. QED
      BY <1>1, <1>2, <1>3 DEF Listed, Requests
  <1>5. \A p, b : Live(p, b)' <=> Live(p, b)
    BY <1>2 DEF Live
  <1>6. \A op, p, b : ~Took(op, p, b)
    BY <1>1, NothingTaken
  <1>7. \A p, b : /\ ~Took("start", p, b)'
                  /\ Took("stop", p, b)' <=> (got /\ p = o /\ b = a)
    <2> HIDE DEF got
    <2>1. QED
      BY <1>3, <1>4 DEF Took
  <1>8. Types'
    BY <1>1, <1>2, <1>3, <1>4, DecAt DEF CountInv, Types
  <1>9. ASSUME NEW p \in Obj, NEW b \in Alg
        PROVE  /\ CountOf(p, b)'
               /\ ~got /\ p = o /\ b = a => ~Live(p, b)
    <2>1. /\ algQueue[p][b] \in Nat /\ unwritten[p][b] \in Nat
          /\ algQueue[p][b] = unwritten[p][b] + One(Live(p, b))
      BY <1>3, <1>6 DEF CountInv, Counted, CountOf, Lists, One
    <2>2. algQueue'[p][b] = algQueue[p][b] - One(got /\ p = o /\ b = a)
      BY <1>1, <1>2, <1>3, <2>1, DecAt DEF One
    <2>3. unwritten'[p][b] = unwritten[p][b]
      BY <1>2
    <2>4. CountOf(p, b)'
      <3> HIDE DEF got
      <3>1. CASE p = o /\ b = a
        BY <1>5, <1>7, <2>1, <2>2, <2>3, <3>1 DEF CountOf, One
      <3>2. CASE ~(p = o /\ b = a)
        BY <1>5, <1>7, <2>1, <2>2, <2>3, <3>2 DEF CountOf, One
      <3>3. QED
        BY <3>1, <3>2
    <2>5. QED
      BY <2>1, <2>4 DEF One
  <1>10. Missing'
    BY <1>1, <1>4, <1>5, <1>9 DEF Missing
  <1>11. QED
    BY <1>8, <1>9, <1>10 DEF CountInv, Counted

\* The row follows.
LEMMA PushKept ==
    ASSUME CountInv, dbPush
    PROVE  CountInv'
  <1> DEFINE o == req.o
             a == req.a
  <1>1. /\ req \in Requests /\ o \in Obj /\ a \in Alg /\ req.got \in BOOLEAN
        /\ req.op = "start" /\ req.at = "row" /\ req' = NoReq
    BY Pending DEF dbPush, At
  <1>2. /\ rowAlgs' = [rowAlgs EXCEPT ![o] = @ \cup {a}]
        /\ UNCHANGED <<nodes, algQueue, unwritten>>
    BY DEF dbPush
  <1>3. lapsed' = IF req.got THEN lapsed \ {<<o, a>>}
                  ELSE IF a \in rowAlgs[o] THEN lapsed ELSE lapsed \cup {<<o, a>>}
    BY <1>1 DEF dbPush
  <1>4. Types'
    BY <1>1, <1>2 DEF CountInv, Types, NoReq
  <1>5. \A p \in Obj, b \in Alg :
           Live(p, b)' <=> (Live(p, b) \/ (req.got /\ p = o /\ b = a))
    <2> TAKE p \in Obj, b \in Alg
    <2>1. rowAlgs'[p] = IF p = o THEN rowAlgs[o] \cup {a} ELSE rowAlgs[p]
      BY <1>1, <1>2 DEF CountInv, Types
    <2>2. CASE p = o /\ b = a
      BY <1>1, <1>3, <2>1, <2>2 DEF Live
    <2>3. CASE ~(p = o /\ b = a)
      <3>1. <<p, b>> # <<o, a>>
        BY <2>3
      <3>2. b \in rowAlgs'[p] <=> b \in rowAlgs[p]
        BY <2>1, <2>3
      <3>3. <<p, b>> \in lapsed' <=> <<p, b>> \in lapsed
        BY <1>3, <3>1, Zenon
      <3>4. QED
        BY <2>3, <3>2, <3>3 DEF Live
    <2>4. QED
      BY <2>2, <2>3
  <1>6. \A p, b : /\ ~Took("stop", p, b)
                  /\ Took("start", p, b) <=> (req.got /\ p = o /\ b = a)
    BY <1>1 DEF Took
  <1>7. \A op, p, b : ~Took(op, p, b)'
    BY <1>1, NothingTaken DEF Took, NoReq
  <1>8. ASSUME NEW p \in Obj, NEW b \in Alg
        PROVE  CountOf(p, b)'
    <2>1. algQueue[p][b] \in Nat /\ unwritten[p][b] \in Nat /\ CountOf(p, b)
      BY DEF CountInv, Types, Lists, Counted
    <2>2. CASE Live(p, b)
      BY <1>2, <1>5, <1>6, <1>7, <2>1, <2>2 DEF CountOf, One
    <2>3. CASE ~Live(p, b)
      BY <1>2, <1>5, <1>6, <1>7, <2>1, <2>3 DEF CountOf, One
    <2>4. QED
      BY <2>2, <2>3
  <1>9. Missing'
    BY <1>1 DEF Missing, NoReq
  <1>10. QED
    BY <1>4, <1>8, <1>9 DEF CountInv, Counted

LEMMA PullKept ==
    ASSUME CountInv, dbPull
    PROVE  CountInv'
  <1> DEFINE o == req.o
             a == req.a
             spare == req.got /\ ~Live(o, a)
  <1>1. /\ req \in Requests /\ o \in Obj /\ a \in Alg /\ req.got \in BOOLEAN
        /\ req.op = "stop" /\ req.at = "row" /\ req' = NoReq
    BY Pending DEF dbPull, At
  <1>2. /\ rowAlgs' = [rowAlgs EXCEPT ![o] = @ \ {a}]
        /\ unwritten' = IF spare THEN Dec(unwritten, o, a) ELSE unwritten
        /\ lapsed' = lapsed \ {<<o, a>>}
        /\ UNCHANGED <<nodes, algQueue>>
    BY DEF dbPull, Pulled
  <1>3. \A p, b : /\ ~Took("start", p, b)
                  /\ Took("stop", p, b) <=> (req.got /\ p = o /\ b = a)
    BY <1>1 DEF Took
  <1>4. \A op, p, b : ~Took(op, p, b)'
    BY <1>1, NothingTaken DEF Took, NoReq
  <1>5. ~req.got => ~Live(o, a)
    BY <1>1 DEF CountInv, Missing
  <1>6. \A p \in Obj, b \in Alg : Live(p, b)' <=> (Live(p, b) /\ ~(p = o /\ b = a))
    <2> TAKE p \in Obj, b \in Alg
    <2>1. rowAlgs'[p] = IF p = o THEN rowAlgs[o] \ {a} ELSE rowAlgs[p]
      BY <1>1, <1>2 DEF CountInv, Types
    <2>2. CASE p = o /\ b = a
      BY <2>1, <2>2 DEF Live
    <2>3. CASE ~(p = o /\ b = a)
      <3>1. <<p, b>> # <<o, a>>
        BY <2>3
      <3>2. QED
        BY <1>2, <2>1, <2>3, <3>1 DEF Live
    <2>4. QED
      BY <2>2, <2>3
  <1>7. algQueue \in Lists /\ unwritten \in Lists
    BY DEF CountInv, Types
  <1>8. spare => unwritten[o][a] > 0
    <2>1. algQueue[o][a] \in Nat /\ unwritten[o][a] \in Nat /\ CountOf(o, a)
      BY <1>1, <1>7 DEF CountInv, Lists, Counted
    <2>2. QED
      BY <1>1, <1>3, <2>1 DEF CountOf, One
  <1>9. Types'
    BY <1>1, <1>2, <1>7, <1>8, DecAt DEF CountInv, Types, NoReq
  <1>10. ASSUME NEW p \in Obj, NEW b \in Alg
         PROVE  CountOf(p, b)'
    <2>1. algQueue[p][b] \in Nat /\ unwritten[p][b] \in Nat /\ CountOf(p, b)
      BY <1>7 DEF CountInv, Lists, Counted
    <2>2. unwritten'[p][b] = unwritten[p][b] - One(spare /\ p = o /\ b = a)
      BY <1>1, <1>2, <1>7, <1>8, <2>1, DecAt DEF One
    <2>3. algQueue'[p][b] = algQueue[p][b]
      BY <1>2
    <2>4. CASE p = o /\ b = a
      BY <1>1, <1>3, <1>4, <1>5, <1>6, <2>1, <2>2, <2>3, <2>4 DEF CountOf, One
    <2>5. CASE ~(p = o /\ b = a)
      BY <1>3, <1>4, <1>6, <2>1, <2>2, <2>3, <2>5 DEF CountOf, One
    <2>6. QED
      BY <2>4, <2>5
  <1>11. Missing'
    BY <1>1 DEF Missing, NoReq
  <1>12. QED
    BY <1>9, <1>10, <1>11 DEF CountInv, Counted

\* A request that a crash or the database cuts off, and a request that is not there.
LEMMA CutKept ==
    ASSUME CountInv, Cut, UNCHANGED <<rowAlgs, algQueue>>,
           nodes' \in [Obj -> Seq(BOOLEAN)]
    PROVE  CountInv'
  <1>1. req' = NoReq
    BY DEF Cut
  <1>2. \A op, p, b : ~Took(op, p, b)'
    BY <1>1, NothingTaken DEF Took, NoReq
  <1>3. Missing'
    BY <1>1 DEF Missing, NoReq
  <1>4. algQueue \in Lists /\ unwritten \in Lists
    BY DEF CountInv, Types
  <1>5. CASE ~(req.op \in {"start", "stop"} /\ req.got)
    <2>1. unwritten' = unwritten /\ lapsed' = lapsed
      BY <1>5 DEF Cut
    <2>2. \A op, p, b : op \in {"start", "stop"} => ~Took(op, p, b)
      BY <1>5 DEF Took
    <2>3. \A p, b : Live(p, b)' <=> Live(p, b)
      BY <2>1 DEF Live
    <2>4. Counted'
      BY <1>2, <2>1, <2>2, <2>3 DEF CountInv, Counted, CountOf, One
    <2>5. QED
      BY <1>1, <1>3, <1>4, <2>1, <2>4 DEF CountInv, Types, NoReq
  <1>6. CASE req.op \in {"start", "stop"} /\ req.got
    <2> DEFINE o == req.o
               a == req.a
    <2>1. req \in Requests /\ o \in Obj /\ a \in Alg /\ CountOf(o, a)
      BY <1>6, Pending DEF CountInv, Counted
    <2>2. algQueue[o][a] \in Nat /\ unwritten[o][a] \in Nat
      BY <1>4, <2>1 DEF Lists
    <2>3. CASE req.op = "start"
      <3>1. /\ unwritten' = IF Live(o, a) THEN unwritten ELSE Inc(unwritten, o, a)
            /\ lapsed' = lapsed
        BY <1>6, <2>3 DEF Cut
      <3>2. \A p, b : /\ ~Took("stop", p, b)
                      /\ Took("start", p, b) <=> (p = o /\ b = a)
        BY <1>6, <2>3 DEF Took
      <3>3. \A p, b : Live(p, b)' <=> Live(p, b)
        BY <3>1 DEF Live
      <3>4. unwritten' \in Lists
        BY <1>4, <2>1, <3>1, IncAt
      <3>5. ASSUME NEW p \in Obj, NEW b \in Alg
            PROVE  CountOf(p, b)'
        <4>1. /\ algQueue[p][b] \in Nat /\ unwritten[p][b] \in Nat /\ CountOf(p, b)
              /\ algQueue'[p][b] = algQueue[p][b]
          BY <1>4 DEF CountInv, Lists, Counted
        <4>2. unwritten'[p][b] = unwritten[p][b] + One(~Live(o, a) /\ p = o /\ b = a)
          BY <1>4, <2>1, <3>1, <4>1, IncAt DEF One
        <4>3. CASE p = o /\ b = a
          BY <1>2, <3>2, <3>3, <4>1, <4>2, <4>3 DEF CountOf, One
        <4>4. CASE ~(p = o /\ b = a)
          BY <1>2, <3>2, <3>3, <4>1, <4>2, <4>4 DEF CountOf, One
        <4>5. QED
          BY <4>3, <4>4
      <3>6. QED
        BY <1>1, <1>3, <3>4, <3>5 DEF CountInv, Types, Counted, NoReq
    <2>4. CASE req.op = "stop"
      <3>1. /\ unwritten' = IF Live(o, a) THEN unwritten ELSE Dec(unwritten, o, a)
            /\ lapsed' = IF Live(o, a) THEN lapsed \cup {<<o, a>>} ELSE lapsed
        BY <1>6, <2>4 DEF Cut
      <3>2. \A p, b : /\ ~Took("start", p, b)
                      /\ Took("stop", p, b) <=> (p = o /\ b = a)
        BY <1>6, <2>4 DEF Took
      <3>3. \A p \in Obj, b \in Alg : Live(p, b)' <=> (Live(p, b) /\ ~(p = o /\ b = a))
        <4> TAKE p \in Obj, b \in Alg
        <4>1. CASE p = o /\ b = a
          BY <3>1, <4>1 DEF Live
        <4>2. CASE ~(p = o /\ b = a)
          <5>1. <<p, b>> # <<o, a>>
            BY <4>2
          <5>2. <<p, b>> \in lapsed' <=> <<p, b>> \in lapsed
            BY <3>1, <5>1, Zenon
          <5>3. QED
            BY <4>2, <5>2 DEF Live
        <4>3. QED
          BY <4>1, <4>2
      <3>4. ~Live(o, a) => unwritten[o][a] > 0
        BY <2>1, <2>2, <3>2 DEF CountOf, One
      <3>5. unwritten' \in Lists
        BY <1>4, <2>1, <3>1, <3>4, DecAt
      <3>6. ASSUME NEW p \in Obj, NEW b \in Alg
            PROVE  CountOf(p, b)'
        <4>1. /\ algQueue[p][b] \in Nat /\ unwritten[p][b] \in Nat /\ CountOf(p, b)
              /\ algQueue'[p][b] = algQueue[p][b]
          BY <1>4 DEF CountInv, Lists, Counted
        <4>2. unwritten'[p][b] = unwritten[p][b] - One(~Live(o, a) /\ p = o /\ b = a)
          BY <1>4, <2>1, <3>1, <3>4, <4>1, DecAt DEF One
        <4>3. CASE p = o /\ b = a
          BY <1>2, <3>2, <3>3, <4>1, <4>2, <4>3 DEF CountOf, One
        <4>4. CASE ~(p = o /\ b = a)
          BY <1>2, <3>2, <3>3, <4>1, <4>2, <4>4 DEF CountOf, One
        <4>5. QED
          BY <4>3, <4>4
      <3>7. QED
        BY <1>1, <1>3, <3>5, <3>6 DEF CountInv, Types, Counted, NoReq
    <2>5. QED
      BY <1>6, <2>3, <2>4
  <1>7. QED
    BY <1>5, <1>6

-----------------------------------------------------------------------------
(* Objects, the slave and the master *)

LEMMA ObjAddKept ==
    ASSUME CountInv, NEW o \in Obj, objAdd(o)
    PROVE  CountInv'
  <1> DEFINE u == [a \in Alg |-> unwritten[o][a] + (IF Live(o, a) THEN 1 ELSE 0)]
  <1>1. /\ req = NoReq /\ req' = NoReq /\ algQueue' = algQueue
        /\ nodes' = [nodes EXCEPT ![o] = Append(@, FALSE)]
        /\ rowAlgs' = [rowAlgs EXCEPT ![o] = {}]
        /\ lapsed' = {p \in lapsed : p[1] # o}
    BY DEF objAdd, Idle
  <1>2. unwritten' = [unwritten EXCEPT ![o] = u]
    BY DEF objAdd
  <1>3. algQueue \in Lists /\ unwritten \in Lists
    BY DEF CountInv, Types
  <1>4. u \in [Alg -> Nat] /\ \A b \in Alg : u[b] = unwritten[o][b] + One(Live(o, b))
    BY <1>3 DEF Lists, One
  <1> HIDE DEF u
  <1>5. Types'
    <2>1. unwritten' \in Lists
      BY <1>2, <1>3, <1>4 DEF Lists
    <2>2. rowAlgs' \in [Obj -> SUBSET Alg] /\ nodes' \in [Obj -> Seq(BOOLEAN)]
      BY <1>1 DEF CountInv, Types
    <2>3. QED
      BY <1>1, <1>3, <2>1, <2>2 DEF Types, NoReq
  <1>6. \A p \in Obj, b \in Alg : Live(p, b)' <=> (Live(p, b) /\ p # o)
    <2> TAKE p \in Obj, b \in Alg
    <2>1. rowAlgs'[p] = IF p = o THEN {} ELSE rowAlgs[p]
      BY <1>1 DEF CountInv, Types
    <2>2. <<p, b>> \in lapsed' <=> <<p, b>> \in lapsed /\ p # o
      BY <1>1
    <2>3. QED
      BY <2>1, <2>2 DEF Live
  <1>7. \A op, p, b : ~Took(op, p, b) /\ ~Took(op, p, b)'
    BY <1>1, NothingTaken DEF Took, NoReq
  <1>8. ASSUME NEW p \in Obj, NEW b \in Alg
        PROVE  CountOf(p, b)'
    <2>1. /\ algQueue[p][b] \in Nat /\ unwritten[p][b] \in Nat
          /\ algQueue[p][b] = unwritten[p][b] + One(Live(p, b))
      BY <1>3, <1>7 DEF CountInv, Lists, Counted, CountOf, One
    <2>2. unwritten'[p] = IF p = o THEN u ELSE unwritten[p]
      BY <1>2, <1>3 DEF Lists
    <2>3. CASE p = o
      BY <1>1, <1>4, <1>6, <1>7, <2>1, <2>2, <2>3 DEF CountOf, One
    <2>4. CASE p # o
      BY <1>1, <1>6, <1>7, <2>1, <2>2, <2>4 DEF CountOf, One
    <2>5. QED
      BY <2>3, <2>4
  <1>9. QED
    BY <1>1, <1>5, <1>8 DEF CountInv, Counted, Missing, NoReq

LEMMA ObjDelKept ==
    ASSUME CountInv, NEW o \in Obj, objDel(o)
    PROVE  CountInv'
  <1>1. /\ req = NoReq /\ req' = NoReq /\ rowAlgs' = rowAlgs /\ nodes[o] # <<>>
        /\ nodes' = [nodes EXCEPT ![o] = Tail(@)]
        /\ algQueue' = [algQueue EXCEPT ![o] = Zero[o]]
        /\ unwritten' = [unwritten EXCEPT ![o] = Zero[o]]
        /\ lapsed' = lapsed \cup ({o} \X rowAlgs[o])
    BY DEF objDel, Idle
  <1>2. algQueue \in Lists /\ unwritten \in Lists
    BY DEF CountInv, Types
  <1>3. Zero[o] \in [Alg -> Nat]
    BY ZeroAt DEF Lists
  <1>4. Types'
    <2>1. algQueue' \in Lists /\ unwritten' \in Lists
      BY <1>1, <1>2, <1>3 DEF Lists
    <2>2. nodes[o] \in Seq(BOOLEAN) /\ Tail(nodes[o]) \in Seq(BOOLEAN)
      BY <1>1 DEF CountInv, Types
    <2>3. nodes' \in [Obj -> Seq(BOOLEAN)]
      BY <1>1, <2>2 DEF CountInv, Types
    <2>4. QED
      BY <1>1, <2>1, <2>3 DEF CountInv, Types, NoReq
  <1>5. \A p \in Obj, b \in Alg : Live(p, b)' <=> (Live(p, b) /\ p # o)
    <2> TAKE p \in Obj, b \in Alg
    <2>1. <<p, b>> \in lapsed' <=> (<<p, b>> \in lapsed \/ (p = o /\ b \in rowAlgs[o]))
      BY <1>1
    <2>2. QED
      BY <1>1, <2>1 DEF Live
  <1>6. \A op, p, b : ~Took(op, p, b) /\ ~Took(op, p, b)'
    BY <1>1, NothingTaken DEF Took, NoReq
  <1>7. ASSUME NEW p \in Obj, NEW b \in Alg
        PROVE  CountOf(p, b)'
    <2>1. /\ algQueue[p][b] \in Nat /\ unwritten[p][b] \in Nat
          /\ algQueue[p][b] = unwritten[p][b] + One(Live(p, b))
      BY <1>2, <1>6 DEF CountInv, Lists, Counted, CountOf, One
    <2>2. /\ algQueue'[p] = IF p = o THEN Zero[o] ELSE algQueue[p]
          /\ unwritten'[p] = IF p = o THEN Zero[o] ELSE unwritten[p]
      BY <1>1, <1>2 DEF Lists
    <2>3. CASE p = o
      BY <1>5, <1>6, <2>2, <2>3, ZeroAt DEF CountOf, One
    <2>4. CASE p # o
      BY <1>5, <1>6, <2>1, <2>2, <2>4 DEF CountOf, One
    <2>5. QED
      BY <2>3, <2>4
  <1>8. QED
    BY <1>1, <1>4, <1>7 DEF CountInv, Counted, Missing, NoReq

LEMMA RebootKept ==
    ASSUME CountInv, Reboot
    PROVE  CountInv'
  <1>1. /\ req' = NoReq /\ rowAlgs' = rowAlgs /\ algQueue' = Zero /\ unwritten' = Zero
        /\ nodes' = [o \in Obj |-> <<FALSE>>]
        /\ lapsed' = UNION {{o} \X rowAlgs[o] : o \in Obj}
    BY DEF Reboot
  <1>2. Types'
    BY <1>1, ZeroAt DEF CountInv, Types, NoReq
  <1>3. \A p \in Obj, b \in Alg : ~Live(p, b)'
    BY <1>1 DEF Live
  <1>4. \A op, p, b : ~Took(op, p, b)'
    BY <1>1, NothingTaken DEF Took, NoReq
  <1>5. Counted'
    BY <1>1, <1>3, <1>4, ZeroAt DEF Counted, CountOf, One
  <1>6. QED
    BY <1>1, <1>2, <1>5 DEF CountInv, Missing, NoReq

\* What a crash adds and what a lost slave resets are lists of flags.
LEMMA Flags ==
    ASSUME CountInv
    PROVE  /\ [o \in Obj |-> Append(nodes[o], FALSE)] \in [Obj -> Seq(BOOLEAN)]
           /\ Detached \in [Obj -> Seq(BOOLEAN)]
           /\ \A o \in Obj : \A i \in DOMAIN nodes[o] :
                 [nodes EXCEPT ![o] = [@ EXCEPT ![i] = TRUE]] \in [Obj -> Seq(BOOLEAN)]
  <1>1. \A o \in Obj : nodes[o] \in Seq(BOOLEAN)
    BY DEF CountInv, Types
  <1>2. \A o \in Obj : Append(nodes[o], FALSE) \in Seq(BOOLEAN)
    BY <1>1
  <1>3. \A o \in Obj : [i \in DOMAIN nodes[o] |-> FALSE] \in Seq(BOOLEAN)
    <2> TAKE o \in Obj
    <2>1. DOMAIN nodes[o] = 1..Len(nodes[o]) /\ Len(nodes[o]) \in Nat
      BY <1>1
    <2>2. QED
      BY <2>1
  <1>4. \A o \in Obj : \A i \in DOMAIN nodes[o] :
           [nodes[o] EXCEPT ![i] = TRUE] \in Seq(BOOLEAN)
    BY <1>1
  <1>5. QED
    BY <1>2, <1>3, <1>4 DEF CountInv, Types, Detached

LEMMA NextCount == CountInv /\ [Next]_vars => CountInv'
  <1> SUFFICES ASSUME CountInv, [Next]_vars PROVE CountInv'
    OBVIOUS
  <1>0. nodes \in [Obj -> Seq(BOOLEAN)]
    BY DEF CountInv, Types
  <1>1. CASE Arrive
    <2>1. /\ UNCHANGED <<rowAlgs, algQueue, nodes, unwritten, lapsed>> /\ req = NoReq
          /\ req' \in Requests /\ req'.at = "begin" /\ ~req'.got
      BY <1>1 DEF Arrive, Idle, history, Requests
    <2>2. QED
      BY <1>0, <2>1, CountKept
  <1>2. CASE StartIgnored
    BY <1>0, <1>2, CountKept DEF StartIgnored, At, history
  <1>3. CASE StartNew \/ StartAgain \/ delAlg \/ dbPush \/ dbPull
    BY <1>3, AddKept, DelKept, PushKept, PullKept
  <1>4. CASE httpPost \/ httpPostTimeout
    <2>1. /\ UNCHANGED <<rowAlgs, algQueue, nodes, unwritten, lapsed>>
          /\ req.at = "post" /\ req' = [req EXCEPT !.at = "row"]
      BY <1>4 DEF httpPost, httpPostTimeout
    <2>2. req \in Requests
      BY <2>1 DEF CountInv, Types, NoReq
    <2>3. QED
      BY <1>0, <2>1, <2>2, CountKept
  <1>5. CASE dbUpdateFailed
    BY <1>0, <1>5, CutKept DEF dbUpdateFailed
  <1>6. CASE Object
    BY <1>6, ObjAddKept, ObjDelKept DEF Object
  <1>7. CASE mobjManager
    <2>1. /\ UNCHANGED <<rowAlgs, algQueue, unwritten, lapsed, req>>
          /\ nodes' \in [Obj -> Seq(BOOLEAN)]
      BY <1>7, Flags DEF mobjManager, history
    <2>2. QED
      BY <2>1, CountKept
  <1>8. CASE Slave
    <2>1. /\ UNCHANGED <<rowAlgs, algQueue, unwritten, lapsed, req>>
          /\ nodes' \in [Obj -> Seq(BOOLEAN)]
      BY <1>0, <1>8, Flags DEF Slave, SlaveDown, SlaveOffline, SlaveBoot, Glitch,
                               SlaveLate, history
    <2>2. QED
      BY <2>1, CountKept
  <1>9. CASE CrashMaster
    <2>1. nodes' \in [Obj -> Seq(BOOLEAN)] /\ Cut /\ UNCHANGED <<rowAlgs, algQueue>>
      BY <1>0, <1>9, Flags DEF CrashMaster
    <2>2. QED
      BY <2>1, CutKept
  <1>10. CASE Reboot
    BY <1>10, RebootKept
  <1>11. CASE UNCHANGED vars
    BY <1>0, <1>11, CountKept DEF vars, history
  <1>12. QED
    BY <1>1, <1>2, <1>3, <1>4, <1>5, <1>6, <1>7, <1>8, <1>9, <1>10, <1>11
       DEF Next, Start, Stop, Failure

LEMMA CountSafe == Spec => []CountInv
  BY InitCount, NextCount, PTL DEF Spec

\* Between two requests the master has an algorithm no oftener than its row says,
\* plus once for every start that was cut off before its $push or let in by a query
\* that failed, for any number of objects, requests, crashes and reboots
\* (master.cpp:500, 510).
THEOREM QueueInRowSafe == Spec => []QueueInRow
  <1>1. CountInv => QueueInRow
    <2> SUFFICES ASSUME CountInv, req = NoReq, NEW o \in Obj, NEW a \in Alg
                 PROVE  algQueue[o][a] <= unwritten[o][a]
                                          + (IF a \in rowAlgs[o] THEN 1 ELSE 0)
      BY DEF QueueInRow
    <2>1. CountOf(o, a) /\ algQueue[o][a] \in Nat /\ unwritten[o][a] \in Nat
      BY DEF CountInv, Counted, Types, Lists
    <2>2. Live(o, a) => a \in rowAlgs[o]
      BY DEF Live
    <2>3. QED
      BY <2>1, <2>2, NothingTaken DEF CountOf, One
  <1>2. QED
    BY <1>1, CountSafe, PTL

\* ... and all of the row but what a named event took from the queue
\* (master.cpp:538).
THEOREM RowsMatchSafe == Spec => []RowsMatch
  <1>1. CountInv => RowsMatch
    <2> SUFFICES ASSUME CountInv, req = NoReq, NEW o \in Obj, NEW a \in rowAlgs[o],
                        <<o, a>> \notin lapsed
                 PROVE  algQueue[o][a] > 0
      BY DEF RowsMatch
    <2>1. a \in Alg
      BY DEF CountInv, Types
    <2>2. CountOf(o, a) /\ algQueue[o][a] \in Nat /\ unwritten[o][a] \in Nat
      BY <2>1 DEF CountInv, Counted, Types, Lists
    <2>3. QED
      BY <2>2, NothingTaken DEF CountOf, One, Live
  <1>2. QED
    BY <1>1, CountSafe, PTL

-----------------------------------------------------------------------------
(* The slave *)

SlaveTypes ==
    /\ slaveAlgs \in Lists /\ ahead \in Lists
    /\ slaveObjs \subseteq Obj /\ slaveUp \in BOOLEAN
    /\ late \subseteq {"start", "stop"} \X Obj \X Alg

\* A slave that is down has nothing, and an object it does not have has no
\* algorithms there.
OnSlave ==
    /\ ~slaveUp => slaveObjs = {}
    /\ \A o \in Obj, a \in Alg : o \notin slaveObjs => Due(o, a) = 0

Posting(op, o, a) == Took(op, o, a) /\ req.at = "post"

\* A start has come to the queue before the slave, and a stop too.
WithinOf(o, a) ==
    Due(o, a) + One(Posting("start", o, a))
      <= algQueue[o][a] + ahead[o][a] + One(Posting("stop", o, a))

Within == \A o \in Obj, a \in Alg : WithinOf(o, a)

\* An object without a node has no list.
Listless == \A o \in Obj, a \in Alg : nodes[o] = <<>> => algQueue[o][a] = 0

SlaveInv == CountInv /\ SlaveTypes /\ OnSlave /\ Within /\ Listless

LEMMA DueNat ==
    ASSUME SlaveInv, NEW o \in Obj, NEW a \in Alg
    PROVE  /\ Due(o, a) \in Nat /\ slaveAlgs[o][a] \in Nat
           /\ algQueue[o][a] \in Nat /\ ahead[o][a] \in Nat
           /\ Due(o, a) = slaveAlgs[o][a] + One(<<"start", o, a>> \in late)
           /\ WithinOf(o, a)
  BY DEF SlaveInv, SlaveTypes, CountInv, Types, Lists, Due, One, Within

\* The slave's list after a start and after a stop.
LEMMA HandledAt ==
    ASSUME SlaveTypes, NEW o \in Obj, NEW a \in Alg, NEW op \in {"start", "stop"},
           Handled(op, o, a)
    PROVE  /\ slaveAlgs' \in Lists
           /\ \A p \in Obj, b \in Alg :
                IF p = o /\ b = a
                THEN IF op = "start"
                     THEN slaveAlgs'[p][b] \in {slaveAlgs[p][b], slaveAlgs[p][b] + 1}
                     ELSE slaveAlgs'[p][b] =
                            IF slaveAlgs[p][b] > 0 THEN slaveAlgs[p][b] - 1 ELSE 0
                ELSE slaveAlgs'[p][b] = slaveAlgs[p][b]
  <1>0. slaveAlgs \in Lists
    BY DEF SlaveTypes
  <1>1. \A p \in Obj, b \in Alg : slaveAlgs[p][b] \in Nat
    BY <1>0 DEF Lists
  <1>2. CASE op = "start"
    <2>1. slaveAlgs' = slaveAlgs \/ slaveAlgs' = Inc(slaveAlgs, o, a)
      BY <1>2, Zenon DEF Handled, Put
    <2>2. slaveAlgs' \in Lists
      BY <1>0, <2>1, IncAt
    <2>3. ASSUME NEW p \in Obj, NEW b \in Alg
          PROVE  \/ slaveAlgs'[p][b] = slaveAlgs[p][b]
                 \/ p = o /\ b = a /\ slaveAlgs'[p][b] = slaveAlgs[p][b] + 1
      BY <1>0, <1>1, <2>1, IncAt DEF One
    <2>4. QED
      BY <1>2, <2>2, <2>3
  <1>3. CASE op = "stop"
    <2>1. slaveAlgs' = IF slaveAlgs[o][a] > 0 THEN Dec(slaveAlgs, o, a) ELSE slaveAlgs
      BY <1>3 DEF Handled, Del
    <2>2. slaveAlgs' \in Lists
      BY <1>0, <2>1, DecAt
    <2>3. ASSUME NEW p \in Obj, NEW b \in Alg
          PROVE  slaveAlgs'[p][b] =
                   slaveAlgs[p][b] - One(slaveAlgs[o][a] > 0 /\ p = o /\ b = a)
      BY <1>0, <1>1, <2>1, DecAt DEF One
    <2>4. QED
      BY <1>1, <1>3, <2>2, <2>3 DEF One
  <1>4. QED
    BY <1>2, <1>3

LEMMA InitSlave == Init => SlaveInv
  <1> SUFFICES ASSUME Init PROVE SlaveInv
    OBVIOUS
  <1>1. \A o \in Obj, a \in Alg : /\ Due(o, a) = 0 /\ algQueue[o][a] = 0
                                  /\ ahead[o][a] = 0
    BY ZeroAt DEF Init, Due
  <1>2. Within
    BY <1>1, NothingTaken DEF Init, Within, WithinOf, Posting, One
  <1>3. QED
    BY <1>1, <1>2, InitCount, ZeroAt DEF Init, SlaveInv, SlaveTypes, OnSlave, Listless

-----------------------------------------------------------------------------
\* A start or stop comes to the queue and is about to be posted.
LEMMA SlaveListed ==
    ASSUME SlaveInv, CountInv', StartNew \/ StartAgain \/ delAlg
    PROVE  SlaveInv'
  <1> DEFINE o == req.o
             a == req.a
  <1>1. /\ req \in Requests /\ o \in Obj /\ a \in Alg
        /\ req.at = "begin" /\ ~req.got
    BY Pending DEF StartNew, StartAgain, delAlg, At, SlaveInv, CountInv, Types
  <1>2. UNCHANGED <<slaveAlgs, slaveObjs, slaveUp, late, ahead, nodes>>
    BY DEF StartNew, StartAgain, addAlg, delAlg, slave, history
  <1>3. SlaveTypes' /\ OnSlave' /\ \A p, b : Due(p, b)' = Due(p, b)
    BY <1>2 DEF SlaveInv, SlaveTypes, OnSlave, Due
  <1>4. \A op, p, b : ~Took(op, p, b)
    BY <1>1, NothingTaken
  <1>5. algQueue \in Lists
    BY DEF SlaveInv, CountInv, Types
  <1>6. CASE StartNew \/ StartAgain
    <2> DEFINE got == nodes[o] # <<>> /\ ~Full(algQueue[o])
    <2>1. /\ req.op = "start" /\ Listed(got)
          /\ algQueue' = IF got THEN Inc(algQueue, o, a) ELSE algQueue
      BY <1>6 DEF StartNew, StartAgain, addAlg, At
    <2>2. got \in BOOLEAN
      BY DEF Full
    <2> HIDE DEF got
    <2>3. /\ req'.op = "start" /\ req'.o = o /\ req'.a = a /\ req'.got = got
      BY <1>1, <2>1, <2>2 DEF Listed, Requests
    <2>4. ASSUME NEW p \in Obj, NEW b \in Alg
          PROVE  WithinOf(p, b)'
      <3>1. /\ Due(p, b) \in Nat /\ algQueue[p][b] \in Nat /\ ahead[p][b] \in Nat
            /\ WithinOf(p, b)
        BY DueNat
      <3>2. algQueue'[p][b] = algQueue[p][b] + One(got /\ p = o /\ b = a)
        BY <1>1, <1>5, <2>1, <3>1, IncAt DEF One
      <3>3. ~Posting("stop", p, b)' /\ (Posting("start", p, b)' => got /\ p = o /\ b = a)
        BY <2>3 DEF Posting, Took
      <3>4. ahead'[p][b] = ahead[p][b] /\ Due(p, b)' = Due(p, b)
        BY <1>2, <1>3
      <3>5. Due(p, b) <= algQueue[p][b] + ahead[p][b]
        BY <1>4, <3>1 DEF WithinOf, Posting, One
      <3>6. QED
        BY <3>1, <3>2, <3>3, <3>4, <3>5 DEF WithinOf, One
    <2>5. Listless'
      <3> SUFFICES ASSUME NEW p \in Obj, NEW b \in Alg, nodes[p] = <<>>
                   PROVE  algQueue'[p][b] = 0
        BY <1>2 DEF Listless
      <3>1. algQueue[p][b] = 0
        BY DEF SlaveInv, Listless
      <3>2. got => p # o
        BY DEF got
      <3>3. CASE got
        <4>1. algQueue' = Inc(algQueue, o, a)
          BY <2>1, <3>3
        <4>2. Inc(algQueue, o, a)[p][b] = algQueue[p][b] + One(p = o /\ b = a)
          BY <1>1, <1>5, IncAt
        <4>3. QED
          BY <3>1, <3>2, <3>3, <4>1, <4>2 DEF One
      <3>4. CASE ~got
        BY <2>1, <3>1, <3>4
      <3>5. QED
        BY <3>3, <3>4
    <2>6. QED
      BY <1>3, <2>4, <2>5 DEF SlaveInv, Within
  <1>7. CASE delAlg
    <2> DEFINE got == algQueue[o][a] > 0
    <2>1. /\ req.op = "stop" /\ Listed(got)
          /\ algQueue' = IF got THEN Dec(algQueue, o, a) ELSE algQueue
      BY <1>7 DEF delAlg, Del, At
    <2>2. got \in BOOLEAN
      BY <1>1, <1>5 DEF Lists
    <2>3. /\ req'.op = "stop" /\ req'.o = o /\ req'.a = a /\ req'.got = got
          /\ req'.at = IF nodes[o] = <<>> THEN "row" ELSE "post"
      <3> HIDE DEF got
      <3>1. QED
        BY <1>1, <2>1, <2>2 DEF Listed, Requests
    <2>4. algQueue[o][a] \in Nat
      BY <1>1, DueNat
    <2>5. ASSUME NEW p \in Obj, NEW b \in Alg
          PROVE  WithinOf(p, b)'
      <3>1. /\ Due(p, b) \in Nat /\ algQueue[p][b] \in Nat /\ ahead[p][b] \in Nat
            /\ WithinOf(p, b)
        BY DueNat
      <3>2. algQueue'[p][b] = algQueue[p][b] - One(got /\ p = o /\ b = a)
        BY <1>1, <1>5, <2>1, <2>4, <3>1, DecAt DEF One
      <3>3. ~Posting("start", p, b)'
            /\ (Posting("stop", p, b)' <=> got /\ p = o /\ b = a /\ nodes[o] # <<>>)
        <4> HIDE DEF got
        <4>1. QED
          BY <2>2, <2>3 DEF Posting, Took
      <3>4. ahead'[p][b] = ahead[p][b] /\ Due(p, b)' = Due(p, b)
        BY <1>2, <1>3
      <3>5. Due(p, b) <= algQueue[p][b] + ahead[p][b]
        BY <1>4, <3>1 DEF WithinOf, Posting, One
      <3>6. got => nodes[o] # <<>>
        BY <1>1 DEF SlaveInv, Listless
      <3>7. QED
        <4> HIDE DEF got
        <4>1. QED
          BY <3>1, <3>2, <3>3, <3>4, <3>5, <3>6 DEF WithinOf, One
    <2>6. Listless'
      <3> SUFFICES ASSUME NEW p \in Obj, NEW b \in Alg, nodes[p] = <<>>
                   PROVE  algQueue'[p][b] = 0
        BY <1>2 DEF Listless
      <3>1. algQueue[p][b] = 0
        BY DEF SlaveInv, Listless
      <3>2. QED
        BY <1>1, <1>5, <2>1, <2>4, <3>1, DecAt DEF One
    <2>7. QED
      BY <1>3, <2>5, <2>6 DEF SlaveInv, Within
  <1>8. QED
    BY <1>6, <1>7

\* A start reaches the slave, is lost with its list, or was not for it; a stop
\* may be left over at a slave that the master does not post to.
LEMMA SlavePosted ==
    ASSUME SlaveInv, CountInv', httpPost \/ httpPostTimeout
    PROVE  SlaveInv'
  <1> DEFINE o == req.o
             a == req.a
             s0 == slaveAlgs[o][a]
             l0 == <<"start", o, a>> \in late
  <1>1. /\ req \in Requests /\ o \in Obj /\ a \in Alg /\ req.at = "post"
        /\ req.op \in {"start", "stop"} /\ req.got \in BOOLEAN
    BY DEF httpPost, httpPostTimeout, SlaveInv, CountInv, Types, Requests, NoReq
  <1>2. UNCHANGED <<algQueue, nodes, slaveObjs, slaveUp>> /\ req'.at = "row"
    BY <1>1 DEF httpPost, httpPostTimeout, Requests
  <1>3. slaveAlgs \in Lists /\ ahead \in Lists
    BY DEF SlaveInv, SlaveTypes
  <1>4. Listless'
    BY <1>2 DEF SlaveInv, Listless
  <1>5. \A op, p, b : ~Posting(op, p, b)'
    BY <1>2 DEF Posting
  <1>6. \A op, p, b : Posting(op, p, b) <=> (req.op = op /\ req.got /\ p = o /\ b = a)
    BY <1>1 DEF Posting, Took
  <1>7. ~Posted(o) /\ (Attached(o) \/ o \notin slaveObjs) => \A b \in Alg : Due(o, b) = 0
    BY <1>1 DEF Posted, SlaveInv, OnSlave
  <1>8. CASE httpPost
    <2>1. /\ IF Posted(o) THEN Handled(req.op, o, a) ELSE slaveAlgs' = slaveAlgs
          /\ ahead' = IF OneAhead THEN Inc(ahead, o, a) ELSE ahead
          /\ late' = late
      BY <1>8 DEF httpPost
    <2>2. slaveAlgs' \in Lists
      BY <1>1, <1>3, <2>1, HandledAt DEF SlaveInv
    <2>3. ahead' \in Lists
      BY <1>1, <1>3, <2>1, IncAt
    <2>4. SlaveTypes'
      BY <1>2, <2>1, <2>2, <2>3 DEF SlaveInv, SlaveTypes
    <2>5. OneAhead <=>
             \/ req.op = "start" /\ ~req.got
             \/ req.op = "stop" /\ req.got /\ ~Attached(o) /\ o \in slaveObjs
             \/ req.op = "stop" /\ req.got /\ l0
      BY DEF OneAhead
    <2>6. ASSUME NEW p \in Obj, NEW b \in Alg
          PROVE  WithinOf(p, b)' /\ (p \notin slaveObjs => Due(p, b)' = 0)
      <3>1. /\ Due(p, b) \in Nat /\ slaveAlgs[p][b] \in Nat
            /\ algQueue[p][b] \in Nat /\ ahead[p][b] \in Nat
            /\ Due(p, b) = slaveAlgs[p][b] + One(<<"start", p, b>> \in late)
            /\ WithinOf(p, b)
            /\ p \notin slaveObjs => Due(p, b) = 0
        BY DueNat DEF SlaveInv, OnSlave
      <3>2. Due(p, b)' = slaveAlgs'[p][b] + One(<<"start", p, b>> \in late)
        BY <2>1 DEF Due, One
      <3>3. ahead'[p][b] = ahead[p][b] + One(OneAhead /\ p = o /\ b = a)
        BY <1>1, <1>3, <2>1, <3>1, IncAt DEF One
      <3>4. algQueue'[p][b] = algQueue[p][b]
        BY <1>2
      <3>5. CASE ~(p = o /\ b = a)
        <4>1. slaveAlgs'[p][b] = slaveAlgs[p][b]
          BY <1>1, <2>1, <3>5, HandledAt DEF SlaveInv
        <4>2. QED
          BY <1>5, <1>6, <3>1, <3>2, <3>3, <3>4, <3>5, <4>1 DEF WithinOf, One
      <3>6. CASE p = o /\ b = a /\ req.op = "start"
        <4>1. slaveAlgs'[p][b] \in {slaveAlgs[p][b], slaveAlgs[p][b] + 1}
              /\ (p \notin slaveObjs => slaveAlgs'[p][b] = slaveAlgs[p][b])
          BY <1>1, <2>1, <3>6, HandledAt DEF SlaveInv, Posted
        <4>2. req.got \/ OneAhead
          BY <1>1, <2>5, <3>6
        <4>3. WithinOf(p, b)'
          BY <1>1, <1>5, <1>6, <3>1, <3>2, <3>3, <3>4, <3>6, <4>1, <4>2 DEF WithinOf, One
        <4>4. QED
          BY <3>1, <3>2, <4>1, <4>3
      <3>7. CASE p = o /\ b = a /\ req.op = "stop"
        <4>1. IF Posted(o)
              THEN slaveAlgs'[p][b] = IF s0 > 0 THEN s0 - 1 ELSE 0
              ELSE slaveAlgs'[p][b] = s0
          BY <1>1, <2>1, <3>7, HandledAt DEF SlaveInv
        <4>2. Due(p, b)' <= Due(p, b) /\ Due(p, b)' \in Nat
          BY <3>1, <3>2, <3>7, <4>1 DEF One
        <4>3. CASE ~req.got \/ OneAhead
          BY <1>5, <1>6, <3>1, <3>3, <3>4, <3>7, <4>2, <4>3 DEF WithinOf, One
        <4>4. CASE req.got /\ ~OneAhead
          <5>1. ~l0 /\ (Attached(o) \/ o \notin slaveObjs)
            BY <2>5, <3>7, <4>4
          <5>2. Due(p, b)' = 0 \/ Due(p, b)' + 1 <= Due(p, b)
            <6>1. CASE Posted(o)
              BY <3>1, <3>2, <3>7, <4>1, <5>1, <6>1 DEF One
            <6>2. CASE ~Posted(o)
              BY <1>1, <1>7, <3>1, <3>7, <4>2, <5>1, <6>2
            <6>3. QED
              BY <6>1, <6>2
          <5>3. QED
            BY <1>5, <1>6, <3>1, <3>3, <3>4, <3>7, <4>2, <4>4, <5>2 DEF WithinOf, One
        <4>5. WithinOf(p, b)'
          BY <4>3, <4>4
        <4>6. QED
          BY <3>1, <4>2, <4>5
      <3>8. QED
        BY <1>1, <3>5, <3>6, <3>7
    <2>7. OnSlave'
      BY <1>2, <2>6 DEF SlaveInv, OnSlave
    <2>8. QED
      BY <1>4, <2>4, <2>6, <2>7 DEF SlaveInv, Within
  <1>9. CASE httpPostTimeout
    <2>1. /\ o \in slaveObjs /\ slaveAlgs' = slaveAlgs
          /\ late' = late \cup {<<req.op, o, a>>}
          /\ ahead' = IF req.got <=> req.op = "stop" THEN Inc(ahead, o, a) ELSE ahead
      BY <1>9 DEF httpPostTimeout, Posted
    <2>2. SlaveTypes'
      BY <1>1, <1>2, <1>3, <2>1, IncAt DEF SlaveInv, SlaveTypes
    <2>3. ASSUME NEW p \in Obj, NEW b \in Alg
          PROVE  WithinOf(p, b)' /\ (p \notin slaveObjs => Due(p, b)' = 0)
      <3>1. /\ Due(p, b) \in Nat /\ slaveAlgs[p][b] \in Nat
            /\ algQueue[p][b] \in Nat /\ ahead[p][b] \in Nat
            /\ Due(p, b) = slaveAlgs[p][b] + One(<<"start", p, b>> \in late)
            /\ WithinOf(p, b)
            /\ p \notin slaveObjs => Due(p, b) = 0
        BY DueNat DEF SlaveInv, OnSlave
      <3>2. Due(p, b)' = slaveAlgs[p][b] + One(<<"start", p, b>> \in late')
        BY <2>1 DEF Due, One
      <3>3. ahead'[p][b] = ahead[p][b] +
               One((req.got <=> req.op = "stop") /\ p = o /\ b = a)
        BY <1>1, <1>3, <2>1, <3>1, IncAt DEF One
      <3>4. algQueue'[p][b] = algQueue[p][b]
        BY <1>2
      <3>5. CASE p = o /\ b = a
        <4>1. CASE req.op = "start"
          <5>1. Due(p, b)' \in Nat /\ Due(p, b)' <= Due(p, b) + 1
            BY <3>1, <3>2 DEF One
          <5>2. QED
            BY <1>1, <1>5, <1>6, <2>1, <3>1, <3>3, <3>4, <3>5, <4>1, <5>1
               DEF WithinOf, One
        <4>2. CASE req.op = "stop"
          <5>1. <<"start", p, b>> \in late' <=> <<"start", p, b>> \in late
            BY <2>1, <4>2
          <5>2. Due(p, b)' = Due(p, b)
            BY <3>1, <3>2, <5>1 DEF One
          <5>3. QED
            BY <1>1, <1>5, <1>6, <2>1, <3>1, <3>3, <3>4, <3>5, <4>2, <5>2
               DEF WithinOf, One
        <4>3. QED
          BY <1>1, <4>1, <4>2
      <3>6. CASE ~(p = o /\ b = a)
        <4>1. <<"start", p, b>> \in late' <=> <<"start", p, b>> \in late
          <5>1. <<"start", p, b>> # <<req.op, o, a>>
            BY <3>6
          <5>2. QED
            BY <2>1, <5>1, Zenon
        <4>2. Due(p, b)' = Due(p, b)
          BY <3>1, <3>2, <4>1 DEF One
        <4>3. QED
          BY <1>5, <1>6, <3>1, <3>3, <3>4, <3>6, <4>2 DEF WithinOf, One
      <3>7. QED
        BY <3>5, <3>6
    <2>4. OnSlave'
      BY <1>2, <2>3 DEF SlaveInv, OnSlave
    <2>5. QED
      BY <1>4, <2>2, <2>3, <2>4 DEF SlaveInv, Within
  <1>10. QED
    BY <1>8, <1>9

\* A step of a request that leaves the queue and the slave alone.
LEMMA SlaveUntouched ==
    ASSUME SlaveInv, CountInv',
           UNCHANGED <<algQueue, slaveAlgs, slaveObjs, slaveUp, late>>,
           ahead' \in Lists,
           \A o \in Obj, a \in Alg : ahead'[o][a] >= ahead[o][a],
           \A o \in Obj : nodes'[o] = <<>> => nodes[o] = <<>>,
           \A o \in Obj, a \in Alg :
              /\ ~Posting("start", o, a)' \/ Posting("start", o, a)
              /\ Posting("stop", o, a) =>
                    Posting("stop", o, a)' \/ ahead'[o][a] >= ahead[o][a] + 1
    PROVE  SlaveInv'
  <1>1. \A p, b : Due(p, b)' = Due(p, b)
    BY DEF Due
  <1>2. SlaveTypes' /\ OnSlave' /\ Listless'
    BY <1>1 DEF SlaveInv, SlaveTypes, OnSlave, Listless
  <1>3. ASSUME NEW p \in Obj, NEW b \in Alg
        PROVE  WithinOf(p, b)'
    <2>1. /\ Due(p, b) \in Nat /\ algQueue[p][b] \in Nat /\ ahead[p][b] \in Nat
          /\ WithinOf(p, b) /\ ahead'[p][b] \in Nat
      BY DueNat DEF Lists
    <2>2. /\ Due(p, b)' = Due(p, b) /\ algQueue'[p][b] = algQueue[p][b]
          /\ ahead'[p][b] >= ahead[p][b]
          /\ ~Posting("start", p, b)' \/ Posting("start", p, b)
          /\ Posting("stop", p, b) =>
                Posting("stop", p, b)' \/ ahead'[p][b] >= ahead[p][b] + 1
      BY <1>1
    <2> DEFINE d == Due(p, b)
               q == algQueue[p][b]
               h == ahead[p][b]
               h2 == ahead'[p][b]
               s == One(Posting("start", p, b))
               s2 == One(Posting("start", p, b)')
               t == One(Posting("stop", p, b))
               t2 == One(Posting("stop", p, b)')
    <2>3. s2 <= s /\ s \in Nat /\ s2 \in Nat
      BY <2>2 DEF One
    <2>4. h + t <= h2 + t2 /\ t \in Nat /\ t2 \in Nat
      BY <2>1, <2>2 DEF One
    <2>5. d + s <= q + h + t
      BY <2>1 DEF WithinOf
    <2>6. d \in Nat /\ q \in Nat /\ h \in Nat /\ h2 \in Nat
      BY <2>1
    <2>7. WithinOf(p, b)' <=> d + s2 <= q + h2 + t2
      BY <2>2 DEF WithinOf, One
    <2> HIDE DEF d, q, h, h2, s, s2, t, t2
    <2>8. QED
      BY <2>3, <2>4, <2>5, <2>6, <2>7
  <1>4. QED
    BY <1>2, <1>3 DEF SlaveInv, Within

\* A request that is cut off leaves its stop unposted.
LEMMA SlaveCrash ==
    ASSUME SlaveInv, CountInv', CrashMaster
    PROVE  SlaveInv'
  <1> DEFINE left == req.at = "post" /\ req.op = "stop" /\ req.got
  <1>1. /\ UNCHANGED <<algQueue, slaveAlgs, slaveObjs, slaveUp, late>>
        /\ req' = NoReq
        /\ ahead' = IF left THEN Inc(ahead, req.o, req.a) ELSE ahead
        /\ nodes' \in {nodes, [o \in Obj |-> Append(nodes[o], FALSE)]}
    BY DEF CrashMaster, Cut, slave
  <1>2. ahead \in Lists
    BY DEF SlaveInv, SlaveTypes
  <1>3. \A op, p, b : ~Posting(op, p, b)'
    BY <1>1 DEF Posting, NoReq
  <1>4. ASSUME NEW p \in Obj, nodes'[p] = <<>>
        PROVE  nodes[p] = <<>>
    <2>1. nodes[p] \in Seq(BOOLEAN)
      BY DEF SlaveInv, CountInv, Types
    <2>2. Append(nodes[p], FALSE) # <<>>
      BY <2>1, Ends
    <2>3. QED
      BY <1>1, <1>4, <2>2
  <1>5. left => req.o \in Obj /\ req.a \in Alg
    BY Pending DEF SlaveInv
  <1>6. ahead' \in Lists
    BY <1>1, <1>2, <1>5, IncAt
  <1>7. ASSUME NEW p \in Obj, NEW b \in Alg
        PROVE  /\ ahead'[p][b] >= ahead[p][b]
               /\ Posting("stop", p, b) => ahead'[p][b] >= ahead[p][b] + 1
    <2>1. ahead[p][b] \in Nat
      BY DueNat
    <2>2. CASE left
      <3>1. ahead'[p][b] = ahead[p][b] + One(p = req.o /\ b = req.a)
        BY <1>1, <1>2, <1>5, <2>2, IncAt
      <3>2. Posting("stop", p, b) => p = req.o /\ b = req.a
        BY DEF Posting, Took
      <3>3. QED
        BY <2>1, <3>1, <3>2 DEF One
    <2>3. CASE ~left
      <3>1. ~Posting("stop", p, b)
        BY <2>3 DEF Posting, Took
      <3>2. QED
        BY <1>1, <2>1, <2>3, <3>1
    <2>4. QED
      BY <2>2, <2>3
  <1>8. QED
    BY <1>1, <1>3, <1>4, <1>6, <1>7, SlaveUntouched

\* What the master forgets the slave may keep.
LEMMA SlaveForgotten ==
    ASSUME SlaveInv, CountInv', Reboot \/ \E o \in Obj : objDel(o)
    PROVE  SlaveInv'
  <1>1. PICK S \in SUBSET Obj :
           /\ \A o \in S : \A a \in Alg : /\ algQueue'[o][a] = 0
                                          /\ ahead'[o][a] = Due(o, a)
           /\ \A o \in Obj \ S : /\ algQueue'[o] = algQueue[o]
                                 /\ ahead'[o] = ahead[o]
                                 /\ nodes'[o] = nodes[o]
           /\ ahead' \in Lists
           /\ UNCHANGED <<slaveAlgs, slaveObjs, slaveUp, late>>
           /\ req' = NoReq /\ (S # Obj => req = NoReq)
    <2>1. \A o \in Obj : AllDue(o) \in [Alg -> Nat]
      BY DueNat DEF AllDue
    <2>2. ahead \in Lists /\ algQueue \in Lists /\ nodes \in [Obj -> Seq(BOOLEAN)]
      BY DEF SlaveInv, SlaveTypes, CountInv, Types
    <2>3. CASE Reboot
      <3>1. /\ algQueue' = Zero /\ ahead' = [o \in Obj |-> AllDue(o)] /\ req' = NoReq
            /\ UNCHANGED <<slaveAlgs, slaveObjs, slaveUp, late>>
        BY <2>3 DEF Reboot, slave
      <3>2. ahead' \in Lists
        BY <2>1, <3>1 DEF Lists
      <3>3. \A o \in Obj : \A a \in Alg : algQueue'[o][a] = 0 /\ ahead'[o][a] = Due(o, a)
        BY <3>1, ZeroAt DEF AllDue
      <3>4. QED
        BY <3>1, <3>2, <3>3
    <2>4. CASE \E o \in Obj : objDel(o)
      <3>1. PICK o \in Obj : objDel(o)
        BY <2>4
      <3>2. /\ algQueue' = [algQueue EXCEPT ![o] = Zero[o]]
            /\ ahead' = [ahead EXCEPT ![o] = AllDue(o)]
            /\ nodes' = [nodes EXCEPT ![o] = Tail(@)]
            /\ req = NoReq /\ req' = NoReq
            /\ UNCHANGED <<slaveAlgs, slaveObjs, slaveUp, late>>
        BY <3>1 DEF objDel, Idle, slave
      <3>3. ahead' \in Lists
        BY <2>1, <2>2, <3>2 DEF Lists
      <3>4. \A q \in {o} : \A a \in Alg : algQueue'[q][a] = 0 /\ ahead'[q][a] = Due(q, a)
        BY <2>2, <3>2, ZeroAt DEF AllDue, Lists
      <3>5. \A p \in Obj \ {o} : /\ algQueue'[p] = algQueue[p] /\ ahead'[p] = ahead[p]
                                 /\ nodes'[p] = nodes[p]
        BY <2>2, <3>2 DEF Lists
      <3>6. {o} \in SUBSET Obj
        OBVIOUS
      <3>7. QED
        BY <3>2, <3>3, <3>4, <3>5, <3>6, Zenon
    <2>5. QED
      BY <2>3, <2>4
  <1>2. \A p, b : Due(p, b)' = Due(p, b)
    BY <1>1 DEF Due
  <1>3. SlaveTypes' /\ OnSlave'
    BY <1>1, <1>2 DEF SlaveInv, SlaveTypes, OnSlave
  <1>4. Listless'
    BY <1>1 DEF SlaveInv, Listless
  <1>5. \A op, p, b : ~Posting(op, p, b)'
    BY <1>1 DEF Posting, NoReq
  <1>6. ASSUME NEW p \in Obj, NEW b \in Alg
        PROVE  WithinOf(p, b)'
    <2>1. Due(p, b) \in Nat /\ algQueue[p][b] \in Nat /\ ahead[p][b] \in Nat
          /\ WithinOf(p, b)
      BY DueNat
    <2>2. CASE p \in S
      BY <1>1, <1>2, <1>5, <2>1, <2>2 DEF WithinOf, One
    <2>3. CASE p \notin S
      <3>1. req = NoReq
        BY <1>1, <2>3
      <3>2. \A op : ~Posting(op, p, b)
        BY <3>1 DEF Posting, NoReq
      <3>3. QED
        BY <1>1, <1>2, <1>5, <2>1, <2>3, <3>2 DEF WithinOf, One
    <2>4. QED
      BY <2>2, <2>3
  <1>7. QED
    BY <1>3, <1>4, <1>6 DEF SlaveInv, Within

\* The slave reads a POST that the master has given up.
LEMMA SlaveReads ==
    ASSUME SlaveInv, CountInv', SlaveLate
    PROVE  SlaveInv'
  <1>1. PICK q \in late : late' = late \ {q} /\ Handled(q[1], q[2], q[3])
    BY DEF SlaveLate
  <1>2. PICK op \in {"start", "stop"}, o \in Obj, a \in Alg : q = <<op, o, a>>
    BY <1>1 DEF SlaveInv, SlaveTypes
  <1>3. /\ late' = late \ {<<op, o, a>>} /\ Handled(op, o, a)
        /\ UNCHANGED <<algQueue, nodes, slaveObjs, slaveUp, req, ahead>>
    BY <1>1, <1>2 DEF SlaveLate, history
  <1>4. /\ slaveAlgs' \in Lists
        /\ \A p \in Obj, b \in Alg :
             IF p = o /\ b = a
             THEN IF op = "start"
                  THEN slaveAlgs'[p][b] \in {slaveAlgs[p][b], slaveAlgs[p][b] + 1}
                  ELSE slaveAlgs'[p][b] =
                         IF slaveAlgs[p][b] > 0 THEN slaveAlgs[p][b] - 1 ELSE 0
             ELSE slaveAlgs'[p][b] = slaveAlgs[p][b]
    BY <1>3, HandledAt DEF SlaveInv
  <1>5. SlaveTypes' /\ Listless'
    BY <1>3, <1>4 DEF SlaveInv, SlaveTypes, Listless
  <1>6. ASSUME NEW p \in Obj, NEW b \in Alg
        PROVE  Due(p, b)' \in Nat /\ Due(p, b)' <= Due(p, b)
    <2>1. /\ slaveAlgs[p][b] \in Nat
          /\ Due(p, b) = slaveAlgs[p][b] + One(<<"start", p, b>> \in late)
      BY DueNat
    <2>2. Due(p, b)' = slaveAlgs'[p][b] + One(<<"start", p, b>> \in late')
      BY DEF Due, One
    <2>3. CASE p = o /\ b = a /\ op = "start"
      <3>1. <<"start", p, b>> \in late /\ <<"start", p, b>> \notin late'
        BY <1>1, <1>2, <1>3, <2>3
      <3>2. slaveAlgs'[p][b] \in {slaveAlgs[p][b], slaveAlgs[p][b] + 1}
        BY <1>4, <2>3
      <3>3. QED
        BY <2>1, <2>2, <3>1, <3>2 DEF One
    <2>4. CASE ~(p = o /\ b = a /\ op = "start")
      <3>1. <<"start", p, b>> \in late' <=> <<"start", p, b>> \in late
        <4>1. <<"start", p, b>> # <<op, o, a>>
          BY <2>4
        <4>2. QED
          BY <1>3, <4>1, Zenon
      <3>2. slaveAlgs'[p][b] \in Nat /\ slaveAlgs'[p][b] <= slaveAlgs[p][b]
        BY <1>4, <2>1, <2>4
      <3>3. QED
        BY <2>1, <2>2, <3>1, <3>2 DEF One
    <2>5. QED
      BY <2>3, <2>4
  <1>7. OnSlave'
    <2>1. \A p \in Obj, b \in Alg : p \notin slaveObjs => Due(p, b)' = 0
      <3> TAKE p \in Obj, b \in Alg
      <3>1. p \notin slaveObjs => Due(p, b) = 0
        BY DEF SlaveInv, OnSlave
      <3>2. QED
        BY <1>6, <3>1
    <2>2. QED
      BY <1>3, <2>1 DEF SlaveInv, OnSlave
  <1>8. ASSUME NEW p \in Obj, NEW b \in Alg
        PROVE  WithinOf(p, b)'
    <2>1. Due(p, b) \in Nat /\ algQueue[p][b] \in Nat /\ ahead[p][b] \in Nat
          /\ WithinOf(p, b) /\ Due(p, b)' \in Nat /\ Due(p, b)' <= Due(p, b)
      BY <1>6, DueNat
    <2>2. \A x : Posting(x, p, b)' <=> Posting(x, p, b)
      BY <1>3 DEF Posting, Took
    <2>3. algQueue'[p][b] = algQueue[p][b] /\ ahead'[p][b] = ahead[p][b]
      BY <1>3
    <2>4. QED
      BY <2>1, <2>2, <2>3 DEF WithinOf, One
  <1>9. QED
    BY <1>5, <1>7, <1>8 DEF SlaveInv, Within

LEMMA SlaveDies ==
    ASSUME SlaveInv, CountInv', SlaveDown
    PROVE  SlaveInv'
  <1>1. /\ slaveUp' = FALSE /\ slaveObjs' = {} /\ slaveAlgs' = Zero /\ late' = {}
        /\ ahead' = Zero /\ UNCHANGED <<nodes, algQueue, req>>
    BY DEF SlaveDown
  <1>2. \A p \in Obj, b \in Alg : Due(p, b)' = 0
    BY <1>1, ZeroAt DEF Due
  <1>3. SlaveTypes' /\ OnSlave' /\ Listless'
    BY <1>1, <1>2, ZeroAt DEF SlaveInv, SlaveTypes, OnSlave, Listless
  <1>4. ASSUME NEW p \in Obj, NEW b \in Alg
        PROVE  WithinOf(p, b)'
    <2>1. Due(p, b) \in Nat /\ algQueue[p][b] \in Nat /\ ahead[p][b] \in Nat
          /\ WithinOf(p, b)
      BY DueNat
    <2>2. algQueue'[p][b] = algQueue[p][b] /\ ahead'[p][b] = 0
      BY <1>1, ZeroAt
    <2>3. /\ Posting("start", p, b)' => Posting("start", p, b)
          /\ Posting("start", p, b) => algQueue[p][b] > 0
      <3>1. Posting("start", p, b)' => Posting("start", p, b)
        BY <1>1 DEF Posting, Took
      <3>2. ASSUME Took("start", p, b)
            PROVE  algQueue[p][b] > 0
        <4>1. ~Took("stop", p, b) /\ CountOf(p, b) /\ unwritten[p][b] \in Nat
          BY <3>2 DEF Took, SlaveInv, CountInv, Counted, Types, Lists
        <4>2. QED
          BY <2>1, <3>2, <4>1 DEF CountOf, One
      <3>3. QED
        BY <3>1, <3>2 DEF Posting
    <2>4. QED
      BY <1>2, <2>1, <2>2, <2>3 DEF WithinOf, One
  <1>5. QED
    BY <1>3, <1>4 DEF SlaveInv, Within

LEMMA NextSlave == SlaveInv /\ [Next]_vars => SlaveInv'
  <1> SUFFICES ASSUME SlaveInv, [Next]_vars PROVE SlaveInv'
    OBVIOUS
  <1>0. CountInv'
    BY NextCount DEF SlaveInv
  <1>1. ahead \in Lists /\ \A p \in Obj, b \in Alg : ahead[p][b] >= ahead[p][b]
    <2>1. \A p \in Obj, b \in Alg : ahead[p][b] \in Nat
      BY DueNat
    <2>2. QED
      BY <2>1 DEF SlaveInv, SlaveTypes
  <1>2. ASSUME UNCHANGED <<algQueue, slaveAlgs, slaveObjs, slaveUp, late, ahead>>,
               \A o \in Obj : nodes'[o] = <<>> => nodes[o] = <<>>,
               req' = req \/ (req.at # "post" /\ req'.at # "post")
        PROVE  SlaveInv'
    <2>1. ahead' \in Lists /\ \A p \in Obj, b \in Alg : ahead'[p][b] >= ahead[p][b]
      BY <1>1, <1>2 DEF SlaveInv, SlaveTypes
    <2>2. \A op, p, b : Posting(op, p, b)' <=> Posting(op, p, b)
      BY <1>2 DEF Posting, Took
    <2>3. QED
      BY <1>0, <1>2, <2>1, <2>2, SlaveUntouched
  <1>3. CASE Arrive \/ StartIgnored \/ dbPush \/ dbPull \/ dbUpdateFailed
    <2>1. /\ UNCHANGED <<algQueue, slaveAlgs, slaveObjs, slaveUp, late, ahead, nodes>>
          /\ req.at # "post" /\ req'.at # "post"
      BY <1>3 DEF Arrive, StartIgnored, dbPush, dbPull, dbUpdateFailed, Cut, Idle, At,
                  slave, history, NoReq
    <2>2. QED
      BY <1>2, <2>1
  <1>4. CASE StartNew \/ StartAgain \/ delAlg
    BY <1>0, <1>4, SlaveListed
  <1>5. CASE httpPost \/ httpPostTimeout
    BY <1>0, <1>5, SlavePosted
  <1>6. CASE Object
    <2>1. PICK o \in Obj : objAdd(o) \/ objDel(o)
      BY <1>6 DEF Object
    <2>2. CASE objAdd(o)
      <3>1. /\ UNCHANGED <<algQueue, slaveAlgs, slaveObjs, slaveUp, late, ahead, req>>
            /\ nodes' = [nodes EXCEPT ![o] = Append(@, FALSE)]
        BY <2>2 DEF objAdd, slave
      <3>2. nodes \in [Obj -> Seq(BOOLEAN)]
        BY DEF SlaveInv, CountInv, Types
      <3>3. Append(nodes[o], FALSE) # <<>>
        BY <3>2, Ends
      <3>4. QED
        BY <1>2, <3>1, <3>2, <3>3
    <2>3. CASE objDel(o)
      BY <1>0, <2>3, SlaveForgotten
    <2>4. QED
      BY <2>1, <2>2, <2>3
  <1>7. CASE mobjManager
    <2>0. PICK o \in Obj : \E i \in DOMAIN nodes[o] :
             /\ nodes' = [nodes EXCEPT ![o] = [@ EXCEPT ![i] = TRUE]]
             /\ slaveObjs' \in {slaveObjs, slaveObjs \cup {o}}
      BY <1>7 DEF mobjManager
    <2>1. PICK i \in DOMAIN nodes[o] :
             /\ nodes' = [nodes EXCEPT ![o] = [@ EXCEPT ![i] = TRUE]]
             /\ slaveObjs' \in {slaveObjs, slaveObjs \cup {o}}
      BY <2>0
    <2>2. /\ UNCHANGED <<algQueue, slaveAlgs, late, ahead, req, slaveUp>>
          /\ slaveUp
      BY <1>7 DEF mobjManager, history
    <2>3. nodes \in [Obj -> Seq(BOOLEAN)]
      BY DEF SlaveInv, CountInv, Types
    <2>4. \A p \in Obj : nodes'[p] = <<>> => nodes[p] = <<>>
      <3>1. DOMAIN [nodes[o] EXCEPT ![i] = TRUE] = DOMAIN nodes[o] /\ i \in DOMAIN nodes[o]
        OBVIOUS
      <3>2. [nodes[o] EXCEPT ![i] = TRUE] # <<>>
        BY <3>1
      <3>3. QED
        BY <2>1, <2>3, <3>2
    <2>5. \A p, b : Due(p, b)' = Due(p, b)
      BY <2>2 DEF Due
    <2>6. SlaveTypes' /\ OnSlave' /\ Listless'
      BY <2>1, <2>2, <2>4, <2>5 DEF SlaveInv, SlaveTypes, OnSlave, Listless
    <2>7. Within'
      BY <2>2, <2>5 DEF SlaveInv, Within, WithinOf, Posting, Took
    <2>8. QED
      BY <1>0, <2>6, <2>7 DEF SlaveInv
  <1>8. CASE SlaveDown
    BY <1>0, <1>8, SlaveDies
  <1>9. CASE SlaveOffline \/ Glitch
    <2>1. /\ UNCHANGED <<algQueue, slaveAlgs, slaveObjs, slaveUp, late, ahead, req>>
          /\ nodes' = Detached
      BY <1>9 DEF SlaveOffline, Glitch, slave, history
    <2>2. \A p \in Obj : nodes'[p] = <<>> => nodes[p] = <<>>
      <3> TAKE p \in Obj
      <3>1. nodes[p] \in Seq(BOOLEAN)
        BY DEF SlaveInv, CountInv, Types
      <3>2. nodes'[p] = [i \in DOMAIN nodes[p] |-> FALSE]
        BY <2>1 DEF Detached
      <3>3. nodes'[p] = <<>> => DOMAIN nodes[p] = {}
        BY <3>2
      <3>4. QED
        BY <3>1, <3>3, Ends
    <2>3. QED
      BY <1>2, <2>1, <2>2
  <1>10. CASE SlaveBoot
    <2>1. /\ UNCHANGED <<algQueue, slaveAlgs, slaveObjs, late, ahead, req, nodes>>
          /\ slaveUp' = TRUE
      BY <1>10 DEF SlaveBoot, history
    <2>2. QED
      BY <1>0, <2>1 DEF SlaveInv, SlaveTypes, OnSlave, Due, Within, WithinOf, Posting,
                        Took, Listless
  <1>11. CASE SlaveLate
    BY <1>0, <1>11, SlaveReads
  <1>12. CASE CrashMaster
    BY <1>0, <1>12, SlaveCrash
  <1>13. CASE Reboot
    BY <1>0, <1>13, SlaveForgotten
  <1>14. CASE UNCHANGED vars
    BY <1>2, <1>14 DEF vars, slave, history
  <1>15. QED
    BY <1>3, <1>4, <1>5, <1>6, <1>7, <1>8, <1>9, <1>10, <1>11, <1>12, <1>13, <1>14
       DEF Next, Start, Stop, Slave, Failure

\* The slave has no more of an algorithm than the master but for one entry more for
\* every stop that timed out, was cut off or was not for it, and what the master
\* forgot in a reboot, for any objects, requests and faults (misc.cpp:348).
THEOREM SlaveSubsetSafe == Spec => []SlaveSubset
  <1>1. SlaveInv => SlaveSubset
    <2> SUFFICES ASSUME SlaveInv, req.at # "post", NEW o \in Obj, NEW a \in Alg
                 PROVE  slaveAlgs[o][a] <= algQueue[o][a] + ahead[o][a]
      BY DEF SlaveSubset
    <2>1. \A op : ~Posting(op, o, a)
      BY DEF Posting
    <2>2. /\ Due(o, a) \in Nat /\ slaveAlgs[o][a] \in Nat
          /\ algQueue[o][a] \in Nat /\ ahead[o][a] \in Nat
          /\ Due(o, a) = slaveAlgs[o][a] + One(<<"start", o, a>> \in late)
          /\ WithinOf(o, a)
      BY DueNat
    <2>3. QED
      BY <2>1, <2>2 DEF WithinOf, One
  <1>2. QED
    BY InitSlave, NextSlave, <1>1, PTL DEF Spec
=============================================================================
