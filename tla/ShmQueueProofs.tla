--------------------------- MODULE ShmQueueProofs ---------------------------
(***************************************************************************)
(* The pointers of ShmQueue are one chain whatever calls are made, no node *)
(* is leaked or used after it was freed, and the queue they form is a      *)
(* bounded first-in first-out queue (Fifo).                                *)
(***************************************************************************)
EXTENDS ShmQueue, SequenceTheorems, TLAPS

-----------------------------------------------------------------------------
(* Sequences *)

LEMMA RemoveAtSeq ==
    ASSUME NEW S, NEW s \in Seq(S), NEW i \in 1 .. Len(s)
    PROVE  /\ RemoveAt(s, i) \in Seq(S)
           /\ Len(RemoveAt(s, i)) = Len(s) - 1
           /\ \A j \in 1 .. Len(s) - 1 :
                 RemoveAt(s, i)[j] = IF j < i THEN s[j] ELSE s[j + 1]
  <1> DEFINE a == SubSeq(s, 1, i - 1)
             b == SubSeq(s, i + 1, Len(s))
  <1>1. a \in Seq(S) /\ Len(a) = i - 1 /\ \A j \in 1 .. i - 1 : a[j] = s[j]
    OBVIOUS
  <1>2. b \in Seq(S) /\ Len(b) = Len(s) - i
        /\ \A j \in 1 .. Len(s) - i : b[j] = s[i + j]
    OBVIOUS
  <1>4. RemoveAt(s, i) = a \o b
    BY DEF RemoveAt
  <1> HIDE DEF a, b
  <1>3. /\ a \o b \in Seq(S) /\ Len(a \o b) = Len(a) + Len(b)
        /\ \A j \in 1 .. Len(a) + Len(b) :
              (a \o b)[j] = IF j <= Len(a) THEN a[j] ELSE b[j - Len(a)]
    BY <1>1, <1>2, ConcatProperties
  <1>5. Len(s) \in Nat
    OBVIOUS
  <1>6. ASSUME NEW j \in 1 .. Len(s) - 1
        PROVE  (a \o b)[j] = IF j < i THEN s[j] ELSE s[j + 1]
    <2>1. CASE j < i
      BY <1>1, <1>2, <1>3, <1>5, <2>1
    <2>2. CASE ~(j < i)
      <3>1. (a \o b)[j] = b[j - Len(a)] /\ j - Len(a) \in 1 .. Len(s) - i
        BY <1>1, <1>2, <1>3, <1>5, <2>2
      <3>2. b[j - Len(a)] = s[i + (j - Len(a))]
        BY <1>2, <3>1
      <3>. QED
        BY <1>1, <3>1, <3>2, <2>2, <1>5
    <2>. QED
      BY <2>1, <2>2
  <1>7. Len(a \o b) = Len(s) - 1
    BY <1>1, <1>2, <1>3, <1>5
  <1>. QED
    BY <1>3, <1>4, <1>6, <1>7, Zenon

LEMMA TailSeq ==
    ASSUME NEW S, NEW s \in Seq(S), s # <<>>
    PROVE  /\ Tail(s) \in Seq(S)
           /\ Len(Tail(s)) = Len(s) - 1
           /\ \A j \in 1 .. Len(s) - 1 : Tail(s)[j] = s[j + 1]
           /\ Len(s) >= 1
  OBVIOUS

LEMMA AppendSeq ==
    ASSUME NEW S, NEW s \in Seq(S), NEW e \in S
    PROVE  /\ Append(s, e) \in Seq(S)
           /\ Len(Append(s, e)) = Len(s) + 1
           /\ \A j \in 1 .. Len(s) : Append(s, e)[j] = s[j]
           /\ Append(s, e)[Len(s) + 1] = e
  OBVIOUS

-----------------------------------------------------------------------------
LEMMA BlankType == Blank \in [arg : Value, val : Nat, next : Pointer]
  BY QueueAssumption DEF Blank, Pointer

LEMMA TypeInit == Init => TypeOK
  BY BlankType DEF Init, TypeOK, Calls, Pointer


LEMMA InitInv == Init => QueueInv
  <1>. SUFFICES ASSUME Init PROVE QueueInv
    OBVIOUS
  <1>1. TypeOK
    BY TypeInit
  <1>2. Chain /\ Ownership
    BY DEF Init, Chain, Ownership, At
  <1>3. Walking /\ TraversalExact /\ InCallback /\ Freeing
    BY DEF Init, Walking, Looping, TraversalExact, InCallback, Freeing
  <1>. QED
    BY <1>1, <1>2, <1>3 DEF QueueInv

-----------------------------------------------------------------------------
(* Calls that leave the list and the memory alone *)

\* The nodes, their links and who owns them.
Heap == <<head, tail, queLen, useMax, mem, alloc, held, list>>

LEMMA HeapKept ==
    ASSUME Chain, Ownership, UNCHANGED Heap, pc # "free", pc' # "free"
    PROVE  Chain' /\ Ownership'
  <1>1. \A i : At(i)' = At(i)
    BY DEF Heap, At
  <1>2. \A i : Kept(i) /\ Kept(i)'
    BY DEF Kept
  <1>3. Chain'
    BY <1>1, <1>2 DEF Chain, Heap
  <1>4. Ownership'
    BY <1>1, <1>2 DEF Ownership, Heap
  <1>. QED
    BY <1>3, <1>4

LEMMA BeginStep ==
    ASSUME QueueInv, NEW S \in SUBSET Value, NEW c \in {"del", "use", "search"},
           Begin(c, S)
    PROVE  QueueInv'
  <1>1. TypeOK'
    BY DEF QueueInv, TypeOK, Begin, Calls, queue
  <1>2. Chain' /\ Ownership'
    BY HeapKept DEF QueueInv, Begin, queue, Heap
  <1>3. Walking'
    BY DEF QueueInv, TypeOK, Chain, Begin, Walking, Looping, At, queue
  <1>4. TraversalExact' /\ InCallback' /\ Freeing'
    BY DEF Begin, TraversalExact, InCallback, Freeing
  <1>. QED
    BY <1>1, <1>2, <1>3, <1>4 DEF QueueInv

LEMMA SkipStep ==
    ASSUME QueueInv, Skip
    PROVE  QueueInv'
  <1>1. TypeOK'
    BY DEF QueueInv, TypeOK, Skip, Calls, Pointer, queue
  <1>2. Chain' /\ Ownership'
    BY HeapKept DEF QueueInv, Skip, queue, Heap, Looping
  <1>3. PICK k \in DOMAIN list :
            /\ p = list[k]
            /\ prev = IF k = 1 THEN head ELSE list[k - 1]
            /\ \A i \in 1 .. k - 1 : mem[list[i]].arg \notin sel
    BY DEF QueueInv, TypeOK, Skip, Walking, At
  <1>4. p' = At(k + 1)
    BY <1>3 DEF QueueInv, Chain, Kept, Skip, Looping
  <1>a. list \in Seq(Node) /\ list' = list /\ mem' = mem /\ sel' = sel /\ head' = head
        /\ pc' = pc /\ prev' = p /\ mem[p].arg \notin sel
    BY <1>3 DEF QueueInv, TypeOK, Skip, Hit, queue
  <1>5. Walking'
    <2>1. k + 1 \in 1 .. Len(list) + 1
      BY <1>3, <1>a
    <2>2. \A i \in 1 .. k : mem[list[i]].arg \notin sel
      BY <1>3, <1>a
    <2>. QED
      BY <1>3, <1>4, <1>a, <2>1, <2>2 DEF Walking, At
  <1>6. TraversalExact' /\ Freeing'
    BY DEF Skip, TraversalExact, Freeing, Looping
  <1>7. InCallback'
    <2>1. CASE pc = "callbackDel"
      <3>1. PICK t \in DOMAIN list :
               /\ sel = {mem[list[t]].arg} /\ next = At(t + 1) /\ Rest(t + 1)
               /\ p \in {list[i] : i \in 1 .. t}
        BY <2>1 DEF QueueInv, InCallback
      <3>2. k \in 1 .. t /\ k # t
        BY <1>3, <1>a, <3>1 DEF QueueInv, Chain
      <3>3. p' = list[k + 1] /\ k + 1 \in 1 .. t
        BY <1>4, <1>a, <3>1, <3>2 DEF At
      <3>. QED
        BY <1>a, <2>1, <3>1, <3>3 DEF InCallback, At, Rest, Skip
    <2>. QED
      BY <2>1, <1>a DEF InCallback, Skip, Looping
  <1>. QED
    BY <1>1, <1>2, <1>5, <1>6, <1>7 DEF QueueInv

LEMMA Idle ==
    ASSUME pc' = "idle"
    PROVE  Walking' /\ TraversalExact' /\ InCallback' /\ Freeing'
  BY DEF Walking, Looping, TraversalExact, InCallback, Freeing

LEMMA PutRefusedStep ==
    ASSUME QueueInv, putRefused
    PROVE  QueueInv'
  <1>1. TypeOK'
    BY DEF QueueInv, TypeOK, putRefused, queue
  <1>2. Chain' /\ Ownership'
    BY HeapKept DEF QueueInv, putRefused, queue, Heap
  <1>3. pc' = "idle"
    BY DEF putRefused
  <1>. QED
    BY <1>1, <1>2, <1>3, Idle DEF QueueInv

LEMMA ReturnStep ==
    ASSUME QueueInv, searchFromQueue \/ TraverseEnd
    PROVE  QueueInv'
  <1>1. TypeOK'
    BY DEF QueueInv, TypeOK, searchFromQueue, TraverseEnd, Returned, Hit, Calls,
           Pointer, queue
  <1>2. Chain' /\ Ownership'
    BY HeapKept DEF QueueInv, searchFromQueue, TraverseEnd, Returned, queue, Heap
  <1>3. pc' = "idle"
    BY DEF searchFromQueue, TraverseEnd, Returned
  <1>. QED
    BY <1>1, <1>2, <1>3, Idle DEF QueueInv

LEMMA NotFoundStep ==
    ASSUME QueueInv, NotFound
    PROVE  QueueInv'
  <1>1. pc # "callbackDel"
    BY QueueAssumption DEF QueueInv, TypeOK, NotFound, InCallback
  <1>2. pc' = "idle" /\ Returned
    BY <1>1 DEF NotFound, Returned
  <1>3. TypeOK'
    BY <1>2 DEF QueueInv, TypeOK, NotFound, Returned, Calls, Pointer, queue
  <1>4. Chain' /\ Ownership'
    BY <1>2, HeapKept DEF QueueInv, NotFound, Looping, queue, Heap
  <1>. QED
    BY <1>2, <1>3, <1>4, Idle DEF QueueInv

LEMMA TraverseStep ==
    ASSUME QueueInv, traverseQueue
    PROVE  QueueInv'
  <1>1. TypeOK'
    BY DEF QueueInv, TypeOK, traverseQueue, Calls, Pointer, queue
  <1>2. Chain' /\ Ownership'
    BY HeapKept DEF QueueInv, traverseQueue, queue, Heap
  <1>3. TraversalExact'
    BY DEF QueueInv, TypeOK, Chain, traverseQueue, TraversalExact, At, Rest, queue
  <1>4. Walking' /\ InCallback' /\ Freeing'
    BY DEF traverseQueue, Walking, Looping, InCallback, Freeing
  <1>. QED
    BY <1>1, <1>2, <1>3, <1>4 DEF QueueInv

LEMMA ReadNextStep ==
    ASSUME QueueInv, ReadNext
    PROVE  QueueInv'
  <1>1. PICK k \in 1 .. Len(list) + 1 : p = At(k) /\ Rest(k)
    BY DEF QueueInv, ReadNext, TraversalExact
  <1>2. k \in DOMAIN list /\ p = list[k]
    BY <1>1 DEF At, ReadNext
  <1>3. list \in Seq(Node) /\ todo \in Seq(Node) /\ todo # <<>>
    BY <1>1, <1>2 DEF QueueInv, TypeOK, Rest
  <1>4. TypeOK'
    BY <1>3, TailSeq DEF QueueInv, TypeOK, ReadNext, Calls, Pointer, queue
  <1>5. Chain' /\ Ownership'
    BY HeapKept DEF QueueInv, ReadNext, queue, Heap
  <1>6. next' = At(k + 1)
    BY <1>2 DEF QueueInv, Chain, Kept, ReadNext
  <1>7. Rest(k + 1)'
    <2>1. Len(todo') = Len(todo) - 1 /\ \A j \in 1 .. Len(todo) - 1 : todo'[j] = todo[j + 1]
      BY <1>3, TailSeq DEF ReadNext
    <2>2. list' = list /\ todo' \in Seq(Node) /\ Len(todo) = Len(list) + 1 - k
          /\ DOMAIN todo' = 1 .. Len(todo')
      BY <1>1, <1>4 DEF Rest, ReadNext, TypeOK
    <2>3. ASSUME NEW i \in DOMAIN todo'
          PROVE  todo'[i] = list[k + 1 + i - 1]
      <3>1. i + 1 \in 1 .. Len(todo) /\ i \in 1 .. Len(todo) - 1
        BY <1>3, <2>1, <2>2
      <3>2. todo[i + 1] = list[k + (i + 1) - 1]
        BY <1>1, <1>3, <3>1 DEF Rest
      <3>3. k + (i + 1) - 1 = k + 1 + i - 1
        BY <1>3, <3>1
      <3>. QED
        BY <2>1, <3>1, <3>2, <3>3, Zenon
    <2>. QED
      BY <1>2, <1>3, <2>1, <2>2, <2>3 DEF Rest
  <1>8. InCallback'
    BY <1>2, <1>3, <1>6, <1>7 DEF InCallback, ReadNext, At, queue
  <1>9. Walking' /\ TraversalExact' /\ Freeing'
    BY DEF ReadNext, Walking, Looping, TraversalExact, Freeing
  <1>. QED
    BY <1>4, <1>5, <1>8, <1>9 DEF QueueInv

LEMMA CallbackEndStep ==
    ASSUME QueueInv, CallbackEnd
    PROVE  QueueInv'
  <1>1. TypeOK'
    <2>1. CASE Resume /\ todo' = todo
      BY <2>1 DEF QueueInv, TypeOK, CallbackEnd, Resume, AfterCallback, Calls, Pointer, queue
    <2>2. CASE Returned /\ todo' = <<>>
      BY <2>2 DEF QueueInv, TypeOK, CallbackEnd, Returned, Calls, Pointer, queue
    <2>. QED
      BY <2>1, <2>2 DEF CallbackEnd
  <1>2. Chain' /\ Ownership'
    BY HeapKept DEF QueueInv, CallbackEnd, Resume, Returned, queue, Heap
  <1>3. CASE pc' = "idle"
    BY <1>1, <1>2, <1>3, Idle DEF QueueInv
  <1>4. CASE Resume /\ todo' = todo
    <2>1. PICK k \in DOMAIN list : p = list[k] /\ next = At(k + 1) /\ Rest(k + 1)
      BY DEF QueueInv, InCallback, CallbackEnd
    <2>2. k + 1 \in 1 .. Len(list) + 1 /\ p' = At(k + 1)
      BY <1>4, <2>1 DEF QueueInv, TypeOK, Resume, AfterCallback
    <2>3. TraversalExact'
      BY <1>4, <2>1, <2>2 DEF TraversalExact, CallbackEnd, At, Rest
    <2>4. Walking' /\ InCallback' /\ Freeing'
      BY <1>4 DEF Resume, Walking, Looping, InCallback, Freeing
    <2>. QED
      BY <1>1, <1>2, <2>3, <2>4 DEF QueueInv
  <1>. QED
    BY <1>3, <1>4 DEF CallbackEnd, Returned

LEMMA CallbackDelStep ==
    ASSUME QueueInv, CallbackDel
    PROVE  QueueInv'
  <1>1. PICK k \in DOMAIN list : p = list[k] /\ next = At(k + 1) /\ Rest(k + 1)
    BY DEF QueueInv, InCallback, CallbackDel
  <1>2. TypeOK'
    BY <1>1 DEF QueueInv, TypeOK, CallbackDel, Calls, Pointer, queue
  <1>3. Chain' /\ Ownership'
    BY HeapKept DEF QueueInv, CallbackDel, queue, Heap
  <1>4. list \in Seq(Node) /\ p' = list[1] /\ 1 \in 1 .. k
    BY <1>1 DEF QueueInv, TypeOK, Chain, CallbackDel, At
  <1>5. InCallback'
    BY <1>1, <1>4 DEF InCallback, CallbackDel, At, Rest
  <1>6. Walking'
    BY <1>4 DEF QueueInv, Chain, Walking, CallbackDel, At, queue
  <1>7. TraversalExact' /\ Freeing'
    BY DEF CallbackDel, TraversalExact, Freeing
  <1>. QED
    BY <1>2, <1>3, <1>5, <1>6, <1>7 DEF QueueInv

-----------------------------------------------------------------------------
(* Calls that change the list *)

LEMMA ChainFacts ==
    ASSUME QueueInv, pc # "free", NEW l \in Nat, l = Len(list)
    PROVE  /\ list \in Seq(Node)
           /\ head = IF l = 0 THEN Null ELSE list[1]
           /\ tail = IF l = 0 THEN Null ELSE list[l]
           /\ queLen = l
           /\ \A i \in 1 .. l :
                 /\ list[i] \in Node
                 /\ mem[list[i]].next = IF i = l THEN Null ELSE list[i + 1]
                 /\ list[i] \notin held
                 /\ \A j \in 1 .. l : list[i] = list[j] => i = j
           /\ alloc = held \cup {list[i] : i \in 1 .. l}
  <1>1. list \in Seq(Node) /\ DOMAIN list = 1 .. l
    BY DEF QueueInv, TypeOK
  <1>2. \A i : Kept(i)
    BY DEF Kept
  <1>3. /\ head = At(1) /\ tail = At(l) /\ queLen = l
        /\ \A i \in 1 .. l : mem[list[i]].next = At(i + 1)
        /\ \A i, j \in 1 .. l : list[i] = list[j] => i = j
    BY <1>1, <1>2 DEF QueueInv, Chain
  <1>4. /\ alloc = held \cup {list[i] : i \in 1 .. l}
        /\ \A i \in 1 .. l : list[i] \notin held
    BY <1>1, <1>2 DEF QueueInv, Ownership
  <1>. QED
    BY <1>1, <1>3, <1>4 DEF At

\* The converse, for the state after a step.
LEMMA ChainMade ==
    ASSUME pc' # "free", NEW l \in Nat, l = Len(list'), list' \in Seq(Node),
           head' = IF l = 0 THEN Null ELSE list'[1],
           tail' = IF l = 0 THEN Null ELSE list'[l],
           queLen' = l,
           \A i \in 1 .. l : mem'[list'[i]].next = IF i = l THEN Null ELSE list'[i + 1],
           \A i \in 1 .. l : list'[i] \notin held',
           \A i, j \in 1 .. l : list'[i] = list'[j] => i = j,
           alloc' = held' \cup {list'[i] : i \in 1 .. l}
    PROVE  Chain' /\ Ownership'
  <1>1. DOMAIN list' = 1 .. l
    OBVIOUS
  <1>2. \A i : Kept(i)'
    BY DEF Kept
  <1>3. Chain'
    BY <1>1 DEF Chain, At
  <1>4. Ownership'
    BY <1>1, <1>2 DEF Ownership
  <1>. QED
    BY <1>3, <1>4

Cell == [arg : Value, val : Nat, next : Pointer]

\* Setting the link of one node changes nothing else.
LEMMA SetNext ==
    ASSUME NEW f \in [Node -> Cell], NEW a \in Node, NEW x \in Pointer
    PROVE  LET g == [f EXCEPT ![a].next = x]
           IN  /\ g \in [Node -> Cell]
               /\ g[a].next = x /\ g[a].arg = f[a].arg /\ g[a].val = f[a].val
               /\ \A b \in Node : b # a => g[b] = f[b]
  <1> DEFINE c == [f[a] EXCEPT !.next = x]
             g == [f EXCEPT ![a].next = x]
  <1>1. f[a] \in Cell
    OBVIOUS
  <1>2. c \in Cell /\ c.next = x /\ c.arg = f[a].arg /\ c.val = f[a].val
    BY <1>1 DEF Cell
  <1>3. g = [f EXCEPT ![a] = c]
    OBVIOUS
  <1> HIDE DEF c, g
  <1>4. g[a] = c /\ g \in [Node -> Cell] /\ \A b \in Node : b # a => g[b] = f[b]
    BY <1>2, <1>3
  <1>. QED
    BY <1>2, <1>4 DEF g

LEMMA PutStep ==
    ASSUME QueueInv, NEW v \in Value, putToShmQueue(v)
    PROVE  QueueInv'
  <1> DEFINE new == [arg |-> v, val |-> 0, next |-> Null]
  <1>1. PICK n \in Node \ alloc :
            /\ mem' = Appended(n, v)
            /\ head' = (IF head = Null THEN n ELSE head)
            /\ tail' = n
            /\ alloc' = alloc \cup {n}
            /\ list' = Append(list, n)
    BY DEF putToShmQueue
  <1>2. /\ list \in Seq(Node) /\ pc = "idle" /\ pc' = "idle" /\ held' = held
        /\ queLen' = queLen + 1
    BY DEF QueueInv, TypeOK, putToShmQueue
  <1>3. PICK l \in Nat : l = Len(list)
    BY <1>2
  <1>4. /\ head = IF l = 0 THEN Null ELSE list[1]
        /\ tail = IF l = 0 THEN Null ELSE list[l]
        /\ queLen = l
        /\ \A i \in 1 .. l :
              /\ list[i] \in Node
              /\ mem[list[i]].next = IF i = l THEN Null ELSE list[i + 1]
              /\ list[i] \notin held
              /\ \A j \in 1 .. l : list[i] = list[j] => i = j
        /\ alloc = held \cup {list[i] : i \in 1 .. l}
    BY <1>2, <1>3, ChainFacts
  <1>5. /\ list' \in Seq(Node) /\ Len(list') = l + 1
        /\ \A j \in 1 .. l : list'[j] = list[j]
        /\ list'[l + 1] = n
    BY <1>1, <1>2, <1>3, AppendSeq
  <1>6. n \notin held /\ \A i \in 1 .. l : list[i] # n
    BY <1>1, <1>4
  <1>7. (head = Null) <=> (l = 0)
    BY <1>3, <1>4, QueueAssumption
  <1>8. mem \in [Node -> Cell] /\ new \in Cell /\ n \in Pointer
    BY <1>1 DEF QueueInv, TypeOK, Pointer, Cell
  <1>9. /\ mem' \in [Node -> Cell]
        /\ mem'[n].next = Null
        /\ l # 0 => mem'[list[l]].next = n
        /\ \A i \in 1 .. l - 1 : mem'[list[i]].next = mem[list[i]].next
    <2>1. CASE l = 0
      BY <1>1, <1>7, <1>8, <2>1 DEF Appended
    <2>2. CASE l # 0
      <3>1. mem' = [[mem EXCEPT ![n] = new] EXCEPT ![list[l]].next = n]
        BY <1>1, <1>4, <1>7, <2>2 DEF Appended
      <3>2. list[l] \in Node /\ list[l] # n
        BY <1>3, <1>4, <1>6, <2>2
      <3>3. mem' \in [Node -> Cell] /\ mem'[n].next = Null /\ mem'[list[l]].next = n
        <4>1. [mem EXCEPT ![n] = new] \in [Node -> Cell] /\ [mem EXCEPT ![n] = new][n] = new
          BY <1>1, <1>8
        <4>. QED
          BY <1>1, <1>8, <3>1, <3>2, <4>1, SetNext
      <3>4. ASSUME NEW i \in 1 .. l - 1
            PROVE  mem'[list[i]].next = mem[list[i]].next
        <4>1. list[i] \in Node /\ list[i] # n /\ list[i] # list[l]
          BY <1>3, <1>4, <1>6, <2>2
        <4>2. /\ [mem EXCEPT ![n] = new] \in [Node -> Cell]
              /\ [mem EXCEPT ![n] = new][list[i]] = mem[list[i]]
          BY <1>1, <1>8, <4>1
        <4>. QED
          BY <1>8, <3>1, <3>2, <4>1, <4>2, SetNext
      <3>. QED
        BY <3>3, <3>4
    <2>. QED
      BY <2>1, <2>2
  <1>10. TypeOK'
    BY <1>1, <1>2, <1>5, <1>9 DEF QueueInv, TypeOK, putToShmQueue, Pointer, Cell
  <1>11. \A i \in 1 .. l + 1 :
            mem'[list'[i]].next = IF i = l + 1 THEN Null ELSE list'[i + 1]
    <2>1. ASSUME NEW i \in 1 .. l - 1 PROVE mem'[list'[i]].next = list'[i + 1]
      <3>1. i \in 1 .. l /\ i + 1 \in 1 .. l /\ i # l
        BY <1>3
      <3>. QED
        BY <1>4, <1>5, <1>9, <3>1
    <2>2. l # 0 => mem'[list'[l]].next = list'[l + 1]
      BY <1>5, <1>9
    <2>. QED
      BY <1>5, <1>9, <2>1, <2>2
  <1>12. /\ head' = list'[1] /\ tail' = list'[l + 1] /\ queLen' = l + 1
         /\ \A i \in 1 .. l + 1 : list'[i] \notin held'
         /\ \A i, j \in 1 .. l + 1 : list'[i] = list'[j] => i = j
    BY <1>1, <1>2, <1>4, <1>5, <1>6, <1>7
  <1>13. alloc' = held' \cup {list'[i] : i \in 1 .. l + 1}
    <2>1. {list'[i] : i \in 1 .. l + 1} = {list[i] : i \in 1 .. l} \cup {n}
      BY <1>5
    <2>. QED
      BY <1>1, <1>2, <1>4, <2>1
  <1>14. Chain' /\ Ownership'
    <2>1. PICK m \in Nat : m = l + 1 /\ m # 0
      OBVIOUS
    <2>. QED
      BY <1>2, <1>5, <1>11, <1>12, <1>13, <2>1, ChainMade
  <1>. QED
    BY <1>2, <1>10, <1>14, Idle DEF QueueInv

LEMMA GetStep ==
    ASSUME QueueInv, getFromQueue
    PROVE  QueueInv'
  <1>1. list \in Seq(Node) /\ pc = "idle" /\ pc' = "idle" /\ mem' = mem /\ head # Null
    BY DEF QueueInv, TypeOK, getFromQueue
  <1>2. PICK l \in Nat : l = Len(list)
    BY <1>1
  <1>3. /\ head = list[1] /\ tail = list[l] /\ queLen = l /\ l # 0
        /\ \A i \in 1 .. l :
              /\ list[i] \in Node
              /\ mem[list[i]].next = IF i = l THEN Null ELSE list[i + 1]
              /\ list[i] \notin held
              /\ \A j \in 1 .. l : list[i] = list[j] => i = j
        /\ alloc = held \cup {list[i] : i \in 1 .. l}
    BY <1>1, <1>2, ChainFacts
  <1>4. PICK m \in Nat : l = m + 1
    BY <1>3
  <1>5. /\ list' \in Seq(Node) /\ Len(list') = m
        /\ \A j \in 1 .. m : list'[j] = list[j + 1] /\ j + 1 \in 1 .. l
    <2>1. list # <<>>
      BY <1>2, <1>3
    <2>2. /\ Tail(list) \in Seq(Node) /\ Len(Tail(list)) = l - 1
          /\ \A j \in 1 .. l - 1 : Tail(list)[j] = list[j + 1]
      BY <1>1, <1>2, <2>1, TailSeq
    <2>3. list' = Tail(list)
      BY DEF getFromQueue
    <2>. QED
      BY <1>4, <2>2, <2>3
  <1>6. /\ head' = mem[head].next /\ held' = held \cup {head} /\ queLen' = m
        /\ tail' = IF mem[head].next = Null THEN Null ELSE tail
    BY <1>3, <1>4 DEF getFromQueue, Decremented
  <1>7. 1 \in 1 .. l /\ l \in 1 .. l
    BY <1>4
  <1>8. /\ head' = IF m = 0 THEN Null ELSE list'[1]
        /\ tail' = IF m = 0 THEN Null ELSE list'[m]
    <2>1. CASE m = 0
      BY <1>3, <1>4, <1>6, <1>7, <2>1
    <2>2. CASE m # 0
      <3>1. mem[head].next = list[2] /\ list[2] \in Node
        BY <1>3, <1>4, <1>7, <2>2
      <3>2. list'[1] = list[2] /\ list'[m] = list[l]
        BY <1>4, <1>5, <2>2
      <3>. QED
        BY <1>3, <1>6, <2>2, <3>1, <3>2, QueueAssumption
    <2>. QED
      BY <2>1, <2>2
  <1>9. TypeOK'
    BY <1>1, <1>3, <1>5, <1>6, <1>7, <1>8 DEF QueueInv, TypeOK, getFromQueue, Pointer
  <1>10. \A i \in 1 .. m : mem'[list'[i]].next = IF i = m THEN Null ELSE list'[i + 1]
    BY <1>1, <1>3, <1>4, <1>5
  <1>11. /\ \A i \in 1 .. m : list'[i] \notin held'
         /\ \A i, j \in 1 .. m : list'[i] = list'[j] => i = j
    <2>1. ASSUME NEW i \in 1 .. m
          PROVE  list'[i] \notin held'
      <3>1. list'[i] = list[i + 1] /\ i + 1 \in 1 .. l /\ i + 1 # 1
        BY <1>5
      <3>. QED
        BY <1>3, <1>6, <1>7, <3>1
    <2>2. ASSUME NEW i \in 1 .. m, NEW j \in 1 .. m, list'[i] = list'[j]
          PROVE  i = j
      <3>1. /\ list[i + 1] = list[j + 1]
            /\ i + 1 \in 1 .. l /\ j + 1 \in 1 .. l
        BY <1>5, <2>2
      <3>2. i + 1 = j + 1
        BY <1>3, <3>1
      <3>. QED
        BY <3>2
    <2>. QED
      BY <2>1, <2>2
  <1>12. alloc' = held' \cup {list'[i] : i \in 1 .. m}
    <2>1. ASSUME NEW i \in 1 .. l, i # 1
          PROVE  i - 1 \in 1 .. m /\ list'[i - 1] = list[i]
      BY <1>4, <1>5, <2>1
    <2>2. {list[i] : i \in 1 .. l} = {list[1]} \cup {list'[i] : i \in 1 .. m}
      BY <1>5, <1>7, <2>1
    <2>. QED
      BY <1>3, <1>6, <2>2 DEF getFromQueue
  <1>13. Chain' /\ Ownership'
    BY <1>1, <1>5, <1>6, <1>8, <1>10, <1>11, <1>12, ChainMade
  <1>. QED
    BY <1>1, <1>9, <1>13, Idle DEF QueueInv

\* Where a loop stands when its condition is met.
LEMMA LoopHit ==
    ASSUME QueueInv, Looping, Hit, NEW l \in Nat, l = Len(list)
    PROVE  \E k \in 1 .. l :
              /\ p = list[k]
              /\ prev = IF k = 1 THEN head ELSE list[k - 1]
              /\ \A i \in 1 .. k - 1 : mem[list[i]].arg \notin sel
  <1>1. PICK k \in 1 .. Len(list) + 1 :
            /\ p = At(k)
            /\ prev = IF k = 1 THEN head ELSE list[k - 1]
            /\ \A i \in 1 .. k - 1 : mem[list[i]].arg \notin sel
    BY DEF QueueInv, Walking
  <1>2. list \in Seq(Node) /\ p # Null
    BY DEF QueueInv, TypeOK, Hit
  <1>3. k \in 1 .. l /\ p = list[k]
    BY <1>1, <1>2 DEF At
  <1>. QED
    BY <1>1, <1>3

LEMMA UnlinkChain ==
    ASSUME QueueInv, Looping, Unlink, pc' # "free",
           NEW l \in Nat, l = Len(list), NEW k \in 1 .. l,
           p = list[k], prev = IF k = 1 THEN head ELSE list[k - 1],
           \A n \in Node : n # p => mem'[n].next =
                IF p # head /\ n = prev
                THEN IF p = tail THEN Null ELSE mem[p].next
                ELSE mem[n].next,
           \/ held' = held \cup {p} /\ alloc' = alloc
           \/ held' = held /\ alloc' = alloc \ {p}
    PROVE  /\ Chain' /\ Ownership'
           /\ list' \in Seq(Node) /\ Len(list') = l - 1
           /\ \A j \in 1 .. l - 1 : list'[j] = IF j < k THEN list[j] ELSE list[j + 1]
           /\ head' \in Pointer /\ tail' \in Pointer /\ queLen' \in Nat
  <1>1. pc # "free"
    BY DEF Looping
  <1>2. /\ list \in Seq(Node)
        /\ head = list[1] /\ tail = list[l] /\ queLen = l
        /\ \A i \in 1 .. l :
              /\ list[i] \in Node
              /\ mem[list[i]].next = IF i = l THEN Null ELSE list[i + 1]
              /\ list[i] \notin held
              /\ \A j \in 1 .. l : list[i] = list[j] => i = j
        /\ alloc = held \cup {list[i] : i \in 1 .. l}
    BY <1>1, ChainFacts
  <1>3. (CHOOSE i \in DOMAIN list : list[i] = p) = k
    <2>1. DOMAIN list = 1 .. l
      BY <1>2
    <2>2. \A i \in DOMAIN list : list[i] = p <=> i = k
      BY <1>2, <2>1
    <2>. QED
      BY <2>1, <2>2
  <1>4. PICK m \in Nat : l = m + 1
    OBVIOUS
  <1>5. /\ list' \in Seq(Node) /\ Len(list') = m
        /\ \A j \in 1 .. m : list'[j] = IF j < k THEN list[j] ELSE list[j + 1]
    <2>1. list' = RemoveAt(list, k)
      BY <1>3 DEF Unlink
    <2>2. list \in Seq(Node) /\ k \in 1 .. Len(list)
      BY <1>2
    <2>3. /\ RemoveAt(list, k) \in Seq(Node)
          /\ Len(RemoveAt(list, k)) = Len(list) - 1
          /\ \A j \in 1 .. Len(list) - 1 :
                RemoveAt(list, k)[j] = IF j < k THEN list[j] ELSE list[j + 1]
      BY <2>2, RemoveAtSeq, Zenon
    <2>4. Len(list) - 1 = m
      BY <1>4
    <2>. QED
      BY <2>1, <2>3, <2>4, Zenon
  <1>6. queLen' = m
    BY <1>2, <1>4 DEF Unlink, Decremented
  <1>7. (p = head <=> k = 1) /\ (p = tail <=> k = l) /\ 1 \in 1 .. l /\ l \in 1 .. l
    BY <1>2, <1>4
  <1>8. mem[p].next = (IF k = l THEN Null ELSE list[k + 1])
    BY <1>2
  <1>9. \A i \in 1 .. l : i # k => mem'[list[i]].next =
            IF i = k - 1 THEN (IF k = l THEN Null ELSE list[k + 1])
            ELSE IF i = l THEN Null ELSE list[i + 1]
    <2>1. TAKE i \in 1 .. l
    <2>2. HAVE i # k
    <2>3. list[i] \in Node /\ list[i] # p
      BY <1>2, <2>2
    <2>4. CASE i = k - 1
      <3>1. k # 1 /\ list[i] = prev
        BY <2>4
      <3>. QED
        BY <1>7, <1>8, <2>3, <2>4, <3>1
    <2>5. CASE i # k - 1
      <3>1. k # 1 => list[i] # prev
        <4>1. ASSUME k # 1 PROVE k - 1 \in 1 .. l
          BY <4>1
        <4>. QED
          BY <1>2, <2>5, <4>1
      <3>2. mem'[list[i]].next = mem[list[i]].next
        BY <1>7, <2>3, <3>1
      <3>. QED
        BY <1>2, <2>5, <3>2
    <2>. QED
      BY <2>4, <2>5
  <1>10. \A i \in 1 .. m : mem'[list'[i]].next = IF i = m THEN Null ELSE list'[i + 1]
    <2>1. TAKE i \in 1 .. m
    <2>2. CASE i >= k
      <3>1. list'[i] = list[i + 1] /\ i + 1 \in 1 .. l /\ i + 1 # k /\ i + 1 # k - 1
        BY <1>4, <1>5, <2>2
      <3>2. mem'[list[i + 1]].next = IF i + 1 = l THEN Null ELSE list[i + 1 + 1]
        BY <1>9, <3>1
      <3>3. i # m => list'[i + 1] = list[i + 1 + 1]
        BY <1>4, <1>5, <2>2
      <3>. QED
        BY <1>4, <3>1, <3>2, <3>3
    <2>3. CASE i = k - 1
      <3>1. list'[i] = list[i] /\ i \in 1 .. l /\ i # k
        BY <1>4, <1>5, <2>3
      <3>2. mem'[list[i]].next = IF k = l THEN Null ELSE list[k + 1]
        BY <1>9, <2>3, <3>1
      <3>3. k # l => list'[k] = list[k + 1]
        BY <1>4, <1>5
      <3>. QED
        BY <1>4, <2>3, <3>1, <3>2, <3>3
    <2>4. CASE i < k - 1
      <3>1. list'[i] = list[i] /\ i \in 1 .. l /\ i # k /\ i # l /\ i # m
        BY <1>4, <1>5, <2>4
      <3>2. mem'[list[i]].next = list[i + 1]
        BY <1>9, <2>4, <3>1
      <3>3. list'[i + 1] = list[i + 1]
        BY <1>4, <1>5, <2>4
      <3>. QED
        BY <3>1, <3>2, <3>3
    <2>. QED
      BY <2>2, <2>3, <2>4
  <1>11. ASSUME NEW i \in 1 .. m
         PROVE  \E q \in 1 .. l : q # k /\ list'[i] = list[q]
                                  /\ q = IF i < k THEN i ELSE i + 1
    BY <1>4, <1>5
  <1>12. \A i, j \in 1 .. m : list'[i] = list'[j] => i = j
    <2>1. TAKE i, j \in 1 .. m
    <2>2. HAVE list'[i] = list'[j]
    <2>3. PICK q \in 1 .. l : list'[i] = list[q] /\ q = IF i < k THEN i ELSE i + 1
      BY <1>11
    <2>4. PICK r \in 1 .. l : list'[j] = list[r] /\ r = IF j < k THEN j ELSE j + 1
      BY <1>11
    <2>5. q = r
      <3>1. list[q] = list[r]
        BY <2>2, <2>3, <2>4
      <3>. QED
        BY <1>2, <3>1
    <2>. QED
      BY <2>3, <2>4, <2>5
  <1>13. \A i \in 1 .. m : list'[i] # p /\ list'[i] \notin held
    BY <1>2, <1>11
  <1>14. {list[i] : i \in 1 .. l} = {list'[i] : i \in 1 .. m} \cup {p}
    <2>1. ASSUME NEW q \in 1 .. l, q # k
          PROVE  \E i \in 1 .. m : list'[i] = list[q]
      <3>1. CASE q < k
        BY <1>4, <1>5, <3>1
      <3>2. CASE q > k
        <4>1. q - 1 \in 1 .. m /\ list'[q - 1] = list[q]
          BY <1>4, <1>5, <3>2
        <4>. QED
          BY <4>1
      <3>. QED
        BY <2>1, <3>1, <3>2
    <2>2. \A i \in 1 .. m : list'[i] \in {list[q] : q \in 1 .. l}
      BY <1>11
    <2>3. \A q \in 1 .. l : list[q] \in {list'[i] : i \in 1 .. m} \cup {p}
      BY <2>1
    <2>4. p \in {list[q] : q \in 1 .. l}
      OBVIOUS
    <2>. QED
      BY <2>2, <2>3, <2>4
  <1>15. /\ \A i \in 1 .. m : list'[i] \notin held'
         /\ alloc' = held' \cup {list'[i] : i \in 1 .. m}
    <2>1. p \notin held /\ alloc = held \cup {list'[i] : i \in 1 .. m} \cup {p}
      BY <1>2, <1>14
    <2>2. p \notin {list'[i] : i \in 1 .. m}
      BY <1>13
    <2>. QED
      BY <1>13, <2>1, <2>2
  <1>16. /\ head' = IF m = 0 THEN Null ELSE list'[1]
         /\ tail' = IF m = 0 THEN Null ELSE list'[m]
    <2>1. head' = IF m = 0 THEN Null ELSE list'[1]
      <3>1. m # 0 => list'[1] = IF k = 1 THEN list[2] ELSE list[1]
        BY <1>4, <1>5
      <3>2. k = 1 => head' = IF m = 0 THEN Null ELSE list[2]
        BY <1>4, <1>7, <1>8 DEF Unlink
      <3>3. k # 1 => head' = list[1] /\ m # 0
        BY <1>2, <1>4, <1>7 DEF Unlink
      <3>. QED
        BY <3>1, <3>2, <3>3
    <2>2. tail' = IF m = 0 THEN Null ELSE list'[m]
      <3>1. m # 0 => list'[m] = IF k = l THEN list[m] ELSE list[l]
        BY <1>4, <1>5
      <3>2. k = l => tail' = IF m = 0 THEN Null ELSE list[m]
        BY <1>4, <1>7 DEF Unlink, UnlinkedTail
      <3>3. k # l => tail' = list[l] /\ m # 0
        BY <1>2, <1>4, <1>7 DEF Unlink, UnlinkedTail
      <3>. QED
        BY <3>1, <3>2, <3>3
    <2>. QED
      BY <2>1, <2>2
  <1>17. Chain' /\ Ownership'
    BY <1>5, <1>6, <1>10, <1>12, <1>15, <1>16, ChainMade
  <1>18. head' \in Pointer /\ tail' \in Pointer
    BY <1>5, <1>16 DEF Pointer
  <1>. QED
    BY <1>4, <1>5, <1>6, <1>17, <1>18

\* What the three calls that unlink do to the links of the other nodes.
LEMMA BypassedNext ==
    ASSUME NEW m \in [Node -> Cell], prev \in Pointer, p \in Node, p # head => prev \in Node
    PROVE  /\ Bypassed(m) \in [Node -> Cell]
           /\ \A n \in Node :
                 Bypassed(m)[n].next =
                     IF p # head /\ n = prev
                     THEN IF p = tail THEN Null ELSE m[p].next
                     ELSE m[n].next
  <1> DEFINE x == IF p = tail THEN Null ELSE m[p].next
  <1>1. x \in Pointer
    BY DEF Cell, Pointer
  <1>2. CASE p = head
    BY <1>2 DEF Bypassed
  <1>3. CASE p # head
    <2>1. Bypassed(m) = [m EXCEPT ![prev].next = x]
      BY <1>3 DEF Bypassed
    <2> HIDE DEF x
    <2>2. /\ Bypassed(m) \in [Node -> Cell]
          /\ Bypassed(m)[prev].next = x
          /\ \A b \in Node : b # prev => Bypassed(m)[b] = m[b]
      BY <1>1, <1>3, <2>1, SetNext
    <2>. QED
      BY <1>3, <2>2 DEF x
  <1>. QED
    BY <1>2, <1>3

LEMMA HitType ==
    ASSUME QueueInv, Looping, Hit
    PROVE  /\ p \in Node /\ prev \in Pointer /\ mem \in [Node -> Cell]
           /\ p # head => prev \in Node
  <1>1. list \in Seq(Node) /\ mem \in [Node -> Cell] /\ p \in Node /\ prev \in Pointer
    BY DEF QueueInv, TypeOK, Hit, Cell, Pointer
  <1>2. PICK l \in Nat : l = Len(list)
    BY <1>1
  <1>3. PICK k \in 1 .. l : p = list[k] /\ prev = IF k = 1 THEN head ELSE list[k - 1]
    BY <1>2, LoopHit
  <1>4. head = list[1]
    BY <1>1, <1>2, <1>3 DEF QueueInv, Chain, At
  <1>. QED
    BY <1>1, <1>2, <1>3, <1>4

LEMMA DelStep ==
    ASSUME QueueInv, delFromQueue
    PROVE  QueueInv'
  <1>1. Looping /\ Hit /\ Unlink /\ pc' = "idle"
    BY DEF delFromQueue, Looping, Returned
  <1>2. /\ p \in Node /\ prev \in Pointer /\ mem \in [Node -> Cell]
        /\ p # head => prev \in Node
    BY <1>1, HitType
  <1>3. PICK l \in Nat : l = Len(list)
    BY DEF QueueInv, TypeOK
  <1>4. PICK k \in 1 .. l : p = list[k] /\ prev = IF k = 1 THEN head ELSE list[k - 1]
    BY <1>1, <1>3, LoopHit
  <1>5. /\ mem' = Bypassed(mem) /\ mem' \in [Node -> Cell]
        /\ \A n \in Node :
              mem'[n].next = IF p # head /\ n = prev
                             THEN IF p = tail THEN Null ELSE mem[p].next
                             ELSE mem[n].next
    BY <1>2, BypassedNext DEF delFromQueue
  <1>6. held' = held \cup {p} /\ alloc' = alloc
    BY DEF delFromQueue
  <1>7. /\ Chain' /\ Ownership' /\ list' \in Seq(Node)
        /\ head' \in Pointer /\ tail' \in Pointer /\ queLen' \in Nat
    BY <1>1, <1>3, <1>4, <1>5, <1>6, UnlinkChain
  <1>8. TypeOK'
    BY <1>1, <1>2, <1>5, <1>6, <1>7
       DEF QueueInv, TypeOK, delFromQueue, Unlink, Returned, Cell, Pointer, Calls
  <1>. QED
    BY <1>1, <1>7, <1>8, Idle DEF QueueInv

LEMMA UseStep ==
    ASSUME QueueInv, delFromQueueByUser
    PROVE  QueueInv'
  <1> DEFINE used == [mem EXCEPT ![p].val = mem[p].val + 1]
  <1>1. Looping /\ Hit /\ pc = "use" /\ pc' = "idle"
    BY DEF delFromQueueByUser, Looping, Returned
  <1>2. /\ p \in Node /\ prev \in Pointer /\ mem \in [Node -> Cell]
        /\ p # head => prev \in Node
    BY <1>1, HitType
  <1>3. /\ used \in [Node -> Cell]
        /\ \A n \in Node : used[n].next = mem[n].next
    <2>1. mem[p] \in Cell
      BY <1>2
    <2>2. [mem[p] EXCEPT !.val = mem[p].val + 1] \in Cell
          /\ [mem[p] EXCEPT !.val = mem[p].val + 1].next = mem[p].next
      BY <2>1 DEF Cell
    <2>3. used = [mem EXCEPT ![p] = [mem[p] EXCEPT !.val = mem[p].val + 1]]
      OBVIOUS
    <2>. QED
      BY <1>2, <2>2, <2>3
  <1> HIDE DEF used
  <1>4. \/ Unlink /\ mem' = Bypassed(used) /\ held' = held \cup {p}
        \/ mem' = used /\ UNCHANGED <<queue, held, list>>
    BY DEF delFromQueueByUser, used
  <1>5. PICK l \in Nat : l = Len(list)
    BY DEF QueueInv, TypeOK
  <1>6. alloc' = alloc /\ todo' = todo /\ got' = mem[p].arg /\ Returned
    BY DEF delFromQueueByUser
  <1>7. CASE Unlink /\ mem' = Bypassed(used) /\ held' = held \cup {p}
    <2>1. PICK k \in 1 .. l : p = list[k] /\ prev = IF k = 1 THEN head ELSE list[k - 1]
      BY <1>1, <1>5, LoopHit
    <2>2. /\ mem' \in [Node -> Cell]
          /\ \A n \in Node :
                mem'[n].next = IF p # head /\ n = prev
                               THEN IF p = tail THEN Null ELSE used[p].next
                               ELSE used[n].next
      BY <1>2, <1>3, <1>7, BypassedNext
    <2>3. /\ Chain' /\ Ownership' /\ list' \in Seq(Node)
          /\ head' \in Pointer /\ tail' \in Pointer /\ queLen' \in Nat
      BY <1>1, <1>2, <1>3, <1>5, <1>6, <1>7, <2>1, <2>2, UnlinkChain
    <2>4. TypeOK'
      BY <1>2, <1>6, <1>7, <2>2, <2>3
         DEF QueueInv, TypeOK, Unlink, Returned, Cell, Pointer, Calls
    <2>. QED
      BY <1>1, <2>3, <2>4, Idle DEF QueueInv
  <1>8. CASE mem' = used /\ UNCHANGED <<queue, held, list>>
    <2>1. TypeOK'
      BY <1>2, <1>3, <1>6, <1>8 DEF QueueInv, TypeOK, Returned, Cell, Pointer, Calls, queue
    <2>2. PICK m \in Nat : m = Len(list)
      BY <1>5
    <2>3. /\ list \in Seq(Node)
          /\ head = IF m = 0 THEN Null ELSE list[1]
          /\ tail = IF m = 0 THEN Null ELSE list[m]
          /\ queLen = m
          /\ \A i \in 1 .. m :
                /\ list[i] \in Node
                /\ mem[list[i]].next = IF i = m THEN Null ELSE list[i + 1]
                /\ list[i] \notin held
                /\ \A j \in 1 .. m : list[i] = list[j] => i = j
          /\ alloc = held \cup {list[i] : i \in 1 .. m}
      BY <1>1, <2>2, ChainFacts
    <2>4. \A i \in 1 .. m : mem'[list[i]].next = mem[list[i]].next
      BY <1>3, <1>8, <2>3
    <2>5. Chain' /\ Ownership'
      BY <1>1, <1>6, <1>8, <2>2, <2>3, <2>4, ChainMade DEF queue
    <2>. QED
      BY <1>1, <2>1, <2>5, Idle DEF QueueInv
  <1>. QED
    BY <1>4, <1>7, <1>8

LEMMA DelInCallbackStep ==
    ASSUME QueueInv, delInCallback
    PROVE  QueueInv'
  <1> DEFINE byp == Bypassed(mem)
  <1>1. Looping /\ Hit /\ Unlink /\ pc = "callbackDel" /\ pc' = "traverse"
    BY DEF delInCallback, Looping, Resume
  <1>2. /\ p \in Node /\ prev \in Pointer /\ mem \in [Node -> Cell]
        /\ p # head => prev \in Node
    BY <1>1, HitType
  <1>3. list \in Seq(Node) /\ todo \in Seq(Node) /\ todo' = todo
    BY DEF QueueInv, TypeOK, delInCallback
  <1>4. PICK l \in Nat : l = Len(list)
    BY <1>3
  <1>5. PICK k \in 1 .. l : p = list[k] /\ prev = IF k = 1 THEN head ELSE list[k - 1]
    BY <1>1, <1>4, LoopHit
  <1>6. /\ byp \in [Node -> Cell]
        /\ \A n \in Node :
              byp[n].next = IF p # head /\ n = prev
                            THEN IF p = tail THEN Null ELSE mem[p].next
                            ELSE mem[n].next
    BY <1>2, BypassedNext
  <1>7. mem' = [byp EXCEPT ![p] = Blank]
    BY DEF delInCallback
  <1>8. Blank \in Cell
    BY BlankType DEF Cell
  <1> HIDE DEF byp
  <1>9. /\ mem' \in [Node -> Cell]
        /\ \A n \in Node : n # p => mem'[n] = byp[n]
    BY <1>2, <1>6, <1>7, <1>8
  <1>10. held' = held /\ alloc' = alloc \ {p}
    BY DEF delInCallback, AllocAfterDel
  <1>11. \A n \in Node : n # p => mem'[n].next =
                IF p # head /\ n = prev
                THEN IF p = tail THEN Null ELSE mem[p].next
                ELSE mem[n].next
    BY <1>6, <1>9
  <1>12. /\ Chain' /\ Ownership'
         /\ list' \in Seq(Node) /\ Len(list') = l - 1
         /\ \A j \in 1 .. l - 1 : list'[j] = IF j < k THEN list[j] ELSE list[j + 1]
         /\ head' \in Pointer /\ tail' \in Pointer /\ queLen' \in Nat
    BY <1>1, <1>4, <1>5, <1>10, <1>11, UnlinkChain
  <1>13. TypeOK'
    BY <1>1, <1>2, <1>3, <1>9, <1>10, <1>12
       DEF QueueInv, TypeOK, delInCallback, Unlink, Resume, AfterCallback, Cell,
           Pointer, Calls
  <1>14. PICK t \in 1 .. l : /\ next = At(t + 1) /\ Rest(t + 1)
                             /\ p \in {list[i] : i \in 1 .. t}
    BY <1>1, <1>3, <1>4 DEF QueueInv, InCallback
  <1>15. k <= t
    <2>1. PICK i \in 1 .. t : p = list[i]
      BY <1>14
    <2>2. i \in DOMAIN list /\ k \in DOMAIN list
      BY <1>3, <1>4, <1>14
    <2>3. i = k
      BY <1>5, <2>1, <2>2 DEF QueueInv, Chain
    <2>. QED
      BY <2>1, <2>3
  <1>16. p' = IF t = l THEN Null ELSE list[t + 1]
    <2>1. p' = next
      BY DEF delInCallback, Resume, AfterCallback
    <2>. QED
      BY <1>3, <1>4, <1>14, <2>1 DEF At
  <1>17. p' = At(t)'
    <2>1. DOMAIN list' = 1 .. l - 1
      BY <1>12
    <2>2. t # l => t \in 1 .. l - 1 /\ list'[t] = list[t + 1]
      BY <1>12, <1>14, <1>15
    <2>. QED
      BY <1>16, <2>1, <2>2 DEF At
  <1>18. Rest(t)'
    <2>1. /\ Len(todo) = l - t
          /\ \A i \in DOMAIN todo : todo[i] = list[t + 1 + i - 1]
          /\ DOMAIN todo = 1 .. l - t
      BY <1>3, <1>4, <1>14 DEF Rest
    <2>2. ASSUME NEW i \in 1 .. l - t
          PROVE  todo[i] = list'[t + i - 1]
      <3>1. t + i - 1 \in 1 .. l - 1 /\ ~(t + i - 1 < k) /\ t + i - 1 + 1 = t + 1 + i - 1
        BY <1>14, <1>15
      <3>2. list'[t + i - 1] = list[t + i - 1 + 1]
        BY <1>12, <3>1
      <3>. QED
        BY <2>1, <3>1, <3>2
    <2>3. Len(todo') = Len(list') + 1 - t
      BY <1>3, <1>12, <1>14, <2>1
    <2>. QED
      BY <1>3, <2>1, <2>2, <2>3 DEF Rest
  <1>19. TraversalExact'
    <2>1. t \in 1 .. Len(list') + 1
      BY <1>12, <1>14
    <2>. QED
      BY <1>17, <1>18, <2>1 DEF TraversalExact
  <1>20. Walking' /\ InCallback' /\ Freeing'
    BY <1>1 DEF Walking, Looping, InCallback, Freeing
  <1>. QED
    BY <1>12, <1>13, <1>19, <1>20 DEF QueueInv

-----------------------------------------------------------------------------
(* Calls that free nodes *)

LEMMA FreeHeldStep ==
    ASSUME QueueInv, FreeHeld
    PROVE  QueueInv'
  <1>1. PICK n \in held : /\ held' = held \ {n} /\ alloc' = alloc \ {n}
                          /\ mem' = [mem EXCEPT ![n] = Blank]
    BY DEF FreeHeld
  <1>2. /\ UNCHANGED <<queue, pc, p, prev, next, sel, got, list, todo>>
        /\ n \in Node /\ mem \in [Node -> Cell] /\ list \in Seq(Node)
    BY DEF FreeHeld, QueueInv, TypeOK, Cell
  <1>3. /\ mem' \in [Node -> Cell]
        /\ \A a \in Node : a # n => mem'[a] = mem[a]
    BY <1>1, <1>2, BlankType DEF Cell
  <1>4. \A i \in DOMAIN list : list[i] # n /\ list[i] \in Node /\ mem'[list[i]] = mem[list[i]]
    <2>1. TAKE i \in DOMAIN list
    <2>2. list[i] # n /\ list[i] \in Node
      BY <1>2 DEF QueueInv, Ownership
    <2>. QED
      BY <1>3, <2>2
  <1>5. TypeOK'
    BY <1>1, <1>2, <1>3 DEF QueueInv, TypeOK, Cell, queue
  <1>6. \A i : (At(i)' = At(i)) /\ (Kept(i)' <=> Kept(i)) /\ (Rest(i)' <=> Rest(i))
    BY <1>2 DEF At, Kept, Rest
  <1>7. Chain'
    BY <1>2, <1>4, <1>6 DEF QueueInv, Chain, queue
  <1>8. Ownership'
    BY <1>1, <1>2, <1>4, <1>6 DEF QueueInv, Ownership
  <1>9. TraversalExact' /\ Freeing'
    BY <1>2, <1>6 DEF QueueInv, TraversalExact, Freeing
  <1>10. InCallback'
    BY <1>2, <1>4, <1>6 DEF QueueInv, InCallback
  <1>11. Walking'
    <2>1. CASE Looping
      <3>1. PICK k \in 1 .. Len(list) + 1 :
                /\ p = At(k)
                /\ prev = IF k = 1 THEN head ELSE list[k - 1]
                /\ \A i \in 1 .. k - 1 : mem[list[i]].arg \notin sel
        BY <2>1 DEF QueueInv, Walking
      <3>2. \A i \in 1 .. k - 1 : mem'[list[i]].arg \notin sel
        BY <1>2, <1>4, <3>1
      <3>. QED
        BY <1>2, <1>6, <3>1, <3>2 DEF Walking, queue
    <2>2. CASE ~Looping
      BY <1>2, <2>2 DEF Walking, Looping
    <2>. QED
      BY <2>1, <2>2
  <1>. QED
    BY <1>5, <1>7, <1>8, <1>9, <1>10, <1>11 DEF QueueInv

LEMMA FreeBeginStep ==
    ASSUME QueueInv, freeShmQueue
    PROVE  QueueInv'
  <1>1. /\ pc = "idle" /\ pc' = "free" /\ p' = head
        /\ UNCHANGED <<head, tail, queLen, mem, alloc, held, list>>
    BY DEF freeShmQueue
  <1>2. list \in Seq(Node)
    BY DEF QueueInv, TypeOK
  <1>3. TypeOK'
    BY DEF QueueInv, TypeOK, freeShmQueue, Calls, Pointer
  <1>4. \A i \in DOMAIN list : Kept(i) /\ Kept(i)'
    BY <1>1, <1>2 DEF QueueInv, Chain, Kept, At
  <1>5. \A i : At(i)' = At(i)
    BY <1>1 DEF At
  <1>6. Chain'
    BY <1>1, <1>4, <1>5 DEF QueueInv, Chain
  <1>7. Ownership'
    BY <1>1, <1>4 DEF QueueInv, Ownership
  <1>8. Freeing'
    BY <1>1, <1>2, <1>5 DEF QueueInv, Chain, Freeing
  <1>9. Walking' /\ TraversalExact' /\ InCallback'
    BY <1>1 DEF Walking, Looping, TraversalExact, InCallback
  <1>. QED
    BY <1>3, <1>6, <1>7, <1>8, <1>9 DEF QueueInv

\* While the nodes are freed, those from p on are left.
LEMMA KeptFrom ==
    ASSUME QueueInv, pc = "free", NEW k \in 1 .. Len(list) + 1, p = At(k),
           NEW i \in DOMAIN list
    PROVE  Kept(i) <=> k <= i
  <1>1. list \in Seq(Node)
    BY DEF QueueInv, TypeOK
  <1>2. CASE k = Len(list) + 1
    BY <1>1, <1>2, QueueAssumption DEF Kept, At
  <1>3. CASE k \in DOMAIN list
    <2>1. \A j \in 1 .. i : p = list[j] <=> j = k
      BY <1>1, <1>3 DEF QueueInv, Chain, At
    <2>. QED
      BY <1>1, <2>1, <1>3 DEF Kept
  <1>. QED
    BY <1>1, <1>2, <1>3

LEMMA FreeNodeStep ==
    ASSUME QueueInv, FreeNode
    PROVE  QueueInv'
  <1>1. list \in Seq(Node) /\ mem \in [Node -> Cell] /\ pc = "free" /\ p # Null
    BY DEF QueueInv, TypeOK, FreeNode, Cell
  <1>2. PICK k \in 1 .. Len(list) + 1 : p = At(k)
    BY <1>1 DEF QueueInv, Freeing
  <1>3. k \in DOMAIN list /\ p = list[k] /\ p \in Node
    BY <1>1, <1>2 DEF At
  <1>4. /\ UNCHANGED <<queue, held, pc, prev, next, sel, got, list, todo>>
        /\ alloc' = alloc \ {p} /\ mem' = [mem EXCEPT ![p] = Blank]
        /\ p' = mem[p].next
    BY DEF FreeNode
  <1>5. /\ mem' \in [Node -> Cell]
        /\ \A a \in Node : a # p => mem'[a] = mem[a]
    BY <1>1, <1>3, <1>4, BlankType DEF Cell
  <1>6. p' = At(k + 1)
    <2>1. p = list[k] /\ k \in 1 .. k
      BY <1>1, <1>3
    <2>2. Kept(k)
      BY <2>1 DEF Kept
    <2>. QED
      BY <1>3, <1>4, <2>2 DEF QueueInv, Chain
  <1>7. TypeOK'
    BY <1>3, <1>4, <1>5 DEF QueueInv, TypeOK, Cell, queue
  <1>8. \A i \in DOMAIN list : /\ Kept(i) <=> k <= i
                               /\ Kept(i)' <=> k + 1 <= i
                               /\ list[i] \in Node
                               /\ k + 1 <= i => list[i] # p
    <2>1. \A i \in DOMAIN list : Kept(i) <=> k <= i
      BY <1>1, <1>2, KeptFrom
    <2>2. \A i, j \in DOMAIN list : list[i] = list[j] => i = j
      BY DEF QueueInv, Chain
    <2>3. ASSUME NEW i \in DOMAIN list PROVE Kept(i)' <=> k + 1 <= i
      <3>1. CASE k + 1 \in DOMAIN list
        <4>1. p' = list[k + 1]
          BY <1>6, <3>1 DEF At
        <4>2. \A j \in 1 .. i : p' = list[j] <=> j = k + 1
          BY <1>1, <2>2, <3>1, <4>1
        <4>. QED
          BY <1>1, <1>3, <1>4, <4>2 DEF Kept
      <3>2. CASE k + 1 \notin DOMAIN list
        <4>1. p' = Null /\ ~(k + 1 <= i)
          BY <1>1, <1>3, <1>6, <3>2 DEF At
        <4>2. \A j \in 1 .. i : list[j] # Null
          BY <1>1, QueueAssumption
        <4>. QED
          BY <1>1, <1>4, <4>1, <4>2 DEF Kept
      <3>. QED
        BY <3>1, <3>2
    <2>4. \A i \in DOMAIN list : list[i] \in Node /\ (k + 1 <= i => list[i] # p)
      BY <1>1, <1>3, <2>2
    <2>. QED
      BY <2>1, <2>3, <2>4
  <1>9. \A i : At(i)' = At(i)
    BY <1>4 DEF At
  <1>10. Chain'
    <2>1. \A i \in DOMAIN list : k + 1 <= i => mem'[list[i]].next = At(i + 1)
      BY <1>1, <1>3, <1>5, <1>8 DEF QueueInv, Chain
    <2>. QED
      BY <1>4, <1>8, <1>9, <2>1 DEF QueueInv, Chain, queue
  <1>11. Ownership'
    <2>1. {i \in DOMAIN list : Kept(i)} = {i \in DOMAIN list : Kept(i)'} \cup {k}
      BY <1>1, <1>3, <1>8
    <2>2. p \notin held /\ \A i \in DOMAIN list : Kept(i)' => list[i] # p
      BY <1>3, <1>8 DEF QueueInv, Ownership
    <2>3. alloc = held \cup {list[i] : i \in {j \in DOMAIN list : Kept(j)}}
      BY DEF QueueInv, Ownership
    <2>4. alloc' = held \cup {list[i] : i \in {j \in DOMAIN list : Kept(j)'}}
      BY <1>3, <1>4, <2>1, <2>2, <2>3
    <2>. QED
      BY <1>4, <2>4 DEF QueueInv, Ownership
  <1>12. Freeing'
    BY <1>1, <1>3, <1>4, <1>6, <1>9 DEF Freeing
  <1>13. Walking' /\ TraversalExact' /\ InCallback'
    BY <1>1, <1>4 DEF Walking, Looping, TraversalExact, InCallback
  <1>. QED
    BY <1>7, <1>10, <1>11, <1>12, <1>13 DEF QueueInv

LEMMA FreeEndStep ==
    ASSUME QueueInv, FreeEnd
    PROVE  QueueInv'
  <1>1. /\ pc = "free" /\ pc' = "idle" /\ p = Null /\ list' = <<>>
        /\ head' = Null /\ tail' = Null /\ queLen' = 0 /\ Returned
        /\ UNCHANGED <<useMax, mem, alloc, held, got, todo>>
    BY DEF FreeEnd, FreedLen, Returned
  <1>2. list \in Seq(Node)
    BY DEF QueueInv, TypeOK
  <1>3. alloc = held
    <2>1. \A i \in DOMAIN list : ~Kept(i)
      BY <1>1, <1>2, QueueAssumption DEF Kept
    <2>. QED
      BY <2>1 DEF QueueInv, Ownership
  <1>4. TypeOK'
    BY <1>1 DEF QueueInv, TypeOK, Returned, Calls, Pointer
  <1>5. Chain' /\ Ownership'
    BY <1>1, <1>3 DEF Chain, Ownership, At
  <1>. QED
    BY <1>1, <1>4, <1>5, Idle DEF QueueInv

-----------------------------------------------------------------------------
LEMMA StepInv == QueueInv /\ [Next]_vars => QueueInv'
  <1> SUFFICES ASSUME QueueInv, [Next]_vars PROVE QueueInv'
    OBVIOUS
  <1>1. ASSUME NEW v \in Value, putToShmQueue(v) PROVE QueueInv'
    BY <1>1, PutStep
  <1>2. CASE putRefused
    BY <1>2, PutRefusedStep
  <1>3. CASE getFromQueue
    BY <1>3, GetStep
  <1>4. CASE FreeHeld
    BY <1>4, FreeHeldStep
  <1>5. ASSUME NEW S \in SUBSET Value, NEW c \in {"del", "use", "search"}, Begin(c, S)
        PROVE  QueueInv'
    BY <1>5, BeginStep
  <1>6. CASE Skip
    BY <1>6, SkipStep
  <1>7. CASE NotFound
    BY <1>7, NotFoundStep
  <1>8. CASE delFromQueue
    BY <1>8, DelStep
  <1>9. CASE delFromQueueByUser
    BY <1>9, UseStep
  <1>10. CASE searchFromQueue \/ TraverseEnd
    BY <1>10, ReturnStep
  <1>11. CASE traverseQueue
    BY <1>11, TraverseStep
  <1>12. CASE ReadNext
    BY <1>12, ReadNextStep
  <1>13. CASE CallbackEnd
    BY <1>13, CallbackEndStep
  <1>14. CASE CallbackDel
    BY <1>14, CallbackDelStep
  <1>15. CASE delInCallback
    BY <1>15, DelInCallbackStep
  <1>16. CASE freeShmQueue
    BY <1>16, FreeBeginStep
  <1>17. CASE FreeNode
    BY <1>17, FreeNodeStep
  <1>18. CASE FreeEnd
    BY <1>18, FreeEndStep
  <1>19. CASE UNCHANGED vars
    <2>1. TypeOK' /\ Chain' /\ Ownership'
      BY <1>19 DEF vars, queue, QueueInv, TypeOK, Chain, Ownership, At, Kept
    <2>2. Walking' /\ TraversalExact' /\ Freeing'
      BY <1>19 DEF vars, queue, QueueInv, Walking, Looping, TraversalExact, Freeing,
                   At, Rest
    <2>3. InCallback'
      BY <1>19 DEF vars, queue, QueueInv, InCallback, At, Rest
    <2>. QED
      BY <2>1, <2>2, <2>3 DEF QueueInv
  <1>. QED
    BY <1>1, <1>2, <1>3, <1>4, <1>5, <1>6, <1>7, <1>8, <1>9, <1>10, <1>11, <1>12,
       <1>13, <1>14, <1>15, <1>16, <1>17, <1>18, <1>19 DEF Next

\* Whatever calls are made in whatever order, the pointers form one chain of
\* allocated nodes as long as queLen says, and every loop of share.cpp stands
\* where it must for its unlinking to be right.
THEOREM QueueSafe == Spec => []QueueInv
  BY InitInv, StepInv, PTL DEF Spec

\* No call of share.cpp loses a node, closes a cycle or misplaces the tail.
THEOREM ChainSafe == Spec => []Chain
  BY QueueSafe, PTL DEF QueueInv

\* No node is leaked, freed twice or handed to two callers.
THEOREM OwnershipSafe == Spec => []Ownership
  BY QueueSafe, PTL DEF QueueInv

\* A traversal whose callbacks delete nodes visits every node once.
THEOREM TraversalSafe == Spec => []TraversalExact
  BY QueueSafe, PTL DEF QueueInv

-----------------------------------------------------------------------------
(* The pointers implement Fifo *)

Entry == [v : Value, uses : Nat]

LEMMA SeqExt ==
    ASSUME NEW S, NEW s \in Seq(S), NEW t \in Seq(S), Len(s) = Len(t),
           \A i \in 1 .. Len(s) : s[i] = t[i]
    PROVE  s = t
  BY SeqEqual

LEMMA ItemsFacts ==
    ASSUME QueueInv, pc # "free"
    PROVE  /\ list \in Seq(Node) /\ Items \in Seq(Entry) /\ Len(Items) = Len(list)
           /\ DOMAIN Items = DOMAIN list /\ DOMAIN list = 1 .. Len(list)
           /\ \A i \in 1 .. Len(list) : Items[i].v = mem[list[i]].arg
                                     /\ Items[i].uses = mem[list[i]].val
                                     /\ list[i] \in Node
  <1>1. list \in Seq(Node) /\ mem \in [Node -> Cell]
    BY DEF QueueInv, TypeOK, Cell
  <1>2. Items = [i \in 1 .. Len(list) |-> [v |-> mem[list[i]].arg, uses |-> mem[list[i]].val]]
    BY <1>1 DEF Items
  <1>3. \A i \in 1 .. Len(list) : /\ list[i] \in Node
                                  /\ [v |-> mem[list[i]].arg, uses |-> mem[list[i]].val] \in Entry
    BY <1>1 DEF Cell, Entry
  <1>. QED
    BY <1>1, <1>2, <1>3

\* The same after a step.
LEMMA ItemsFactsNext ==
    ASSUME QueueInv', pc' # "free"
    PROVE  /\ list' \in Seq(Node) /\ Items' \in Seq(Entry) /\ Len(Items') = Len(list')
           /\ \A i \in 1 .. Len(list') : Items'[i].v = mem'[list'[i]].arg
                                      /\ Items'[i].uses = mem'[list'[i]].val
  <1>1. list' \in Seq(Node) /\ mem' \in [Node -> Cell]
    BY DEF QueueInv, TypeOK, Cell, Pointer
  <1>2. Items' = [i \in 1 .. Len(list') |->
                     [v |-> mem'[list'[i]].arg, uses |-> mem'[list'[i]].val]]
    BY <1>1 DEF Items
  <1>3. \A i \in 1 .. Len(list') :
            [v |-> mem'[list'[i]].arg, uses |-> mem'[list'[i]].val] \in Entry
    BY <1>1 DEF Cell, Entry
  <1>. QED
    BY <1>1, <1>2, <1>3

LEMMA EntryEq ==
    ASSUME NEW a \in Entry, NEW b \in Entry, a.v = b.v, a.uses = b.uses
    PROVE  a = b
  BY DEF Entry

\* A sequence of entries is what the links say if it is so place by place.
LEMMA ItemsAre ==
    ASSUME QueueInv', pc' # "free", NEW s \in Seq(Entry), Len(s) = Len(list'),
           \A i \in 1 .. Len(s) : s[i].v = mem'[list'[i]].arg
                               /\ s[i].uses = mem'[list'[i]].val
    PROVE  Items' = s
  <1>1. /\ Items' \in Seq(Entry) /\ Len(Items') = Len(list')
        /\ \A i \in 1 .. Len(list') : Items'[i].v = mem'[list'[i]].arg
                                   /\ Items'[i].uses = mem'[list'[i]].val
    BY ItemsFactsNext
  <1>2. ASSUME NEW i \in 1 .. Len(Items') PROVE Items'[i] = s[i]
    <2>1. Items'[i] \in Entry /\ s[i] \in Entry
      BY <1>1
    <2>2. Items'[i].v = s[i].v /\ Items'[i].uses = s[i].uses
      BY <1>1
    <2>. QED
      BY <2>1, <2>2, EntryEq
  <1>. QED
    BY <1>1, <1>2, SeqExt

\* A step that keeps the list and the payloads keeps the items.
LEMMA ItemsKept ==
    ASSUME list' = list, mem' = mem, pc # "free", pc' # "free"
    PROVE  Items' = Items
  BY DEF Items

LEMMA RefInit == Init => F!Init
  BY DEF Init, F!Init, Items

LEMMA RefPut ==
    ASSUME QueueInv, QueueInv', NEW v \in Value, putToShmQueue(v)
    PROVE  F!Put(v)
  <1> DEFINE e == [v |-> v, uses |-> 0]
  <1>1. /\ pc = "idle" /\ pc' = "idle" /\ got' = None /\ useMax' = useMax
        /\ queLen < QueMax /\ queLen = Len(list)
    BY DEF putToShmQueue, QueueInv, Chain
  <1>2. PICK n \in Node \ alloc : mem' = Appended(n, v) /\ list' = Append(list, n)
    BY DEF putToShmQueue
  <1>3. list \in Seq(Node) /\ mem \in [Node -> Cell] /\ tail \in Pointer
    BY DEF QueueInv, TypeOK, Cell
  <1>4. PICK l \in Nat : l = Len(list)
    BY <1>3
  <1>5. /\ \A i \in 1 .. l : list[i] \in Node
        /\ tail = IF l = 0 THEN Null ELSE list[l]
        /\ head = IF l = 0 THEN Null ELSE list[1]
        /\ alloc = held \cup {list[i] : i \in 1 .. l}
    BY <1>1, <1>4, ChainFacts
  <1>6. \A i \in 1 .. l : list[i] # n
    BY <1>2, <1>5
  <1>7. /\ mem'[n].arg = v /\ mem'[n].val = 0
        /\ \A i \in 1 .. l : mem'[list[i]].arg = mem[list[i]].arg
                          /\ mem'[list[i]].val = mem[list[i]].val
    <2> DEFINE new == [arg |-> v, val |-> 0, next |-> Null]
               f == [mem EXCEPT ![n] = new]
    <2>1. new \in Cell /\ new.arg = v /\ new.val = 0
      BY DEF Cell, Pointer
    <2> HIDE DEF new
    <2>2. f \in [Node -> Cell] /\ f[n] = new /\ \A i \in 1 .. l : f[list[i]] = mem[list[i]]
      BY <1>3, <1>5, <1>6, <2>1
    <2>3. CASE head = Null
      <3>1. mem' = f
        BY <1>2, <2>3 DEF Appended, new
      <3>. QED
        BY <2>1, <2>2, <3>1
    <2>4. CASE head # Null
      <3>1. mem' = [f EXCEPT ![tail].next = n] /\ tail \in Node /\ n \in Pointer
        BY <1>2, <1>4, <1>5, <2>4 DEF Appended, new, Pointer
      <3> HIDE DEF f
      <3>2. \A b \in Node : mem'[b].arg = f[b].arg /\ mem'[b].val = f[b].val
        BY <2>2, <3>1, SetNext
      <3>. QED
        BY <1>5, <2>1, <2>2, <3>2
    <2>. QED
      BY <2>3, <2>4
  <1>8. /\ Len(list') = l + 1 /\ list'[l + 1] = n
        /\ \A j \in 1 .. l : list'[j] = list[j]
    BY <1>2, <1>3, <1>4, AppendSeq
  <1>9. /\ Items \in Seq(Entry) /\ Len(Items) = l
        /\ \A i \in 1 .. l : Items[i].v = mem[list[i]].arg /\ Items[i].uses = mem[list[i]].val
    BY <1>1, <1>4, ItemsFacts
  <1>10. e \in Entry
    BY DEF Entry
  <1>11. /\ Append(Items, e) \in Seq(Entry) /\ Len(Append(Items, e)) = l + 1
         /\ \A j \in 1 .. l : Append(Items, e)[j] = Items[j]
         /\ Append(Items, e)[l + 1] = e
    BY <1>9, <1>10, AppendSeq
  <1>12. \A i \in 1 .. l + 1 : Append(Items, e)[i].v = mem'[list'[i]].arg
                            /\ Append(Items, e)[i].uses = mem'[list'[i]].val
    <2>1. ASSUME NEW i \in 1 .. l
          PROVE  Append(Items, e)[i].v = mem'[list'[i]].arg
              /\ Append(Items, e)[i].uses = mem'[list'[i]].val
      <3>1. Append(Items, e)[i] = Items[i] /\ list'[i] = list[i]
        BY <1>8, <1>11
      <3>. QED
        BY <1>7, <1>9, <3>1
    <2>2. /\ Append(Items, e)[l + 1].v = mem'[list'[l + 1]].arg
          /\ Append(Items, e)[l + 1].uses = mem'[list'[l + 1]].val
      BY <1>7, <1>8, <1>11
    <2>3. TAKE i \in 1 .. l + 1
    <2>4. CASE i \in 1 .. l
      BY <2>1, <2>4
    <2>5. CASE i = l + 1
      BY <2>2, <2>5
    <2>6. i \in 1 .. l \/ i = l + 1
      OBVIOUS
    <2>. QED
      BY <2>4, <2>5, <2>6, Zenon
  <1>13. Items' = Append(Items, e)
    <2>1. Len(Append(Items, e)) = Len(list')
      BY <1>8, <1>11
    <2>2. \A i \in 1 .. Len(Append(Items, e)) :
              Append(Items, e)[i].v = mem'[list'[i]].arg
           /\ Append(Items, e)[i].uses = mem'[list'[i]].val
      BY <1>11, <1>12
    <2>3. Append(Items, e) \in Seq(Entry) /\ pc' # "free"
      BY <1>1, <1>11
    <2>. QED
      BY <2>1, <2>2, <2>3, ItemsAre
  <1>. QED
    BY <1>1, <1>4, <1>9, <1>13 DEF F!Put

LEMMA RefGet ==
    ASSUME QueueInv, QueueInv', getFromQueue
    PROVE  F!Get
  <1>1. /\ pc = "idle" /\ pc' = "idle" /\ mem' = mem /\ useMax' = useMax
        /\ head # Null /\ list' = Tail(list)
    BY DEF getFromQueue
  <1>2. list \in Seq(Node)
    BY DEF QueueInv, TypeOK
  <1>3. PICK l \in Nat : l = Len(list)
    BY <1>2
  <1>4. l # 0 /\ head = list[1] /\ queLen = l
    BY <1>1, <1>3, ChainFacts
  <1>5. /\ Items \in Seq(Entry) /\ Len(Items) = l
        /\ \A i \in 1 .. l : Items[i].v = mem[list[i]].arg /\ Items[i].uses = mem[list[i]].val
    BY <1>1, <1>3, ItemsFacts
  <1>6. list # <<>> /\ Items # <<>>
    BY <1>3, <1>4, <1>5
  <1>7. /\ Len(Tail(list)) = l - 1
        /\ \A j \in 1 .. l - 1 : Tail(list)[j] = list[j + 1]
    <2>1. /\ Len(Tail(list)) = Len(list) - 1
          /\ \A j \in 1 .. Len(list) - 1 : Tail(list)[j] = list[j + 1]
      BY <1>2, <1>6, TailSeq
    <2>. QED
      BY <1>3, <2>1
  <1>8. /\ Tail(Items) \in Seq(Entry) /\ Len(Tail(Items)) = l - 1
        /\ \A j \in 1 .. l - 1 : Tail(Items)[j] = Items[j + 1]
    <2>1. /\ Tail(Items) \in Seq(Entry) /\ Len(Tail(Items)) = Len(Items) - 1
          /\ \A j \in 1 .. Len(Items) - 1 : Tail(Items)[j] = Items[j + 1]
      BY <1>5, <1>6, TailSeq
    <2>. QED
      BY <1>5, <2>1
  <1>9. \A i \in 1 .. Len(Tail(Items)) : Tail(Items)[i].v = mem'[list'[i]].arg
                                      /\ Tail(Items)[i].uses = mem'[list'[i]].val
    BY <1>1, <1>3, <1>5, <1>7, <1>8
  <1>10. Items' = Tail(Items)
    <2>1. Len(Tail(Items)) = Len(list')
      BY <1>1, <1>7, <1>8
    <2>. QED
      BY <1>1, <1>8, <1>9, <2>1, ItemsAre
  <1>11. got' = Items[1].v
    <2>1. ~(queLen - 1 < 0) /\ 1 \in 1 .. l
      BY <1>4
    <2>. QED
      BY <1>4, <1>5, <2>1 DEF getFromQueue
  <1>. QED
    BY <1>1, <1>6, <1>10, <1>11 DEF F!Get

\* The node a loop has stopped at is the first entry that satisfies the
\* condition.
LEMMA HitIsFirst ==
    ASSUME QueueInv, Looping, Hit, NEW l \in Nat, l = Len(list)
    PROVE  \E k \in 1 .. l :
              /\ k \in DOMAIN Items /\ F!IsFirst(k, sel)
              /\ p = list[k] /\ prev = IF k = 1 THEN head ELSE list[k - 1]
              /\ Items[k].v = mem[p].arg /\ Items[k].uses = mem[p].val
  <1>1. PICK k \in 1 .. l : /\ p = list[k]
                            /\ prev = IF k = 1 THEN head ELSE list[k - 1]
                            /\ \A i \in 1 .. k - 1 : mem[list[i]].arg \notin sel
    BY LoopHit
  <1>2. /\ DOMAIN Items = 1 .. l
        /\ \A i \in 1 .. l : Items[i].v = mem[list[i]].arg /\ Items[i].uses = mem[list[i]].val
    BY ItemsFacts DEF Looping
  <1>3. \A j \in 1 .. l : j < k => Items[j].v \notin sel
    BY <1>1, <1>2
  <1>4. F!IsFirst(k, sel)
    BY <1>1, <1>2, <1>3 DEF F!IsFirst, Hit
  <1>. QED
    BY <1>1, <1>2, <1>4

\* Unlinking the k-th node removes the k-th item, if the payloads stay.
LEMMA ItemsUnlinked ==
    ASSUME QueueInv, QueueInv', Looping, Unlink, pc' # "free",
           NEW l \in Nat, l = Len(list), NEW k \in 1 .. l, p = list[k],
           \A n \in Node : n # p => mem'[n].arg = mem[n].arg /\ mem'[n].val = mem[n].val
    PROVE  Items' = RemoveAt(Items, k)
  <1>1. pc # "free"
    BY DEF Looping
  <1>2. /\ list \in Seq(Node)
        /\ \A i, j \in 1 .. l : list[i] = list[j] => i = j
        /\ \A i \in 1 .. l : list[i] \in Node
    BY <1>1, ChainFacts
  <1>3. list' = RemoveAt(list, k)
    <2>1. \A i \in DOMAIN list : list[i] = p <=> i = k
      BY <1>2
    <2>2. k \in DOMAIN list
      BY <1>2
    <2>3. (CHOOSE i \in DOMAIN list : list[i] = p) = k
      BY <2>1, <2>2
    <2>. QED
      BY <2>3 DEF Unlink
  <1>4. PICK m \in Nat : l = m + 1
    OBVIOUS
  <1>5. /\ Len(list') = m
        /\ \A j \in 1 .. m : list'[j] = IF j < k THEN list[j] ELSE list[j + 1]
    <2>1. k \in 1 .. Len(list) /\ Len(list) - 1 = m
      BY <1>4
    <2>2. /\ Len(RemoveAt(list, k)) = Len(list) - 1
          /\ \A j \in 1 .. Len(list) - 1 :
                RemoveAt(list, k)[j] = IF j < k THEN list[j] ELSE list[j + 1]
      BY <1>2, <2>1, RemoveAtSeq, Zenon
    <2>. QED
      BY <1>3, <2>1, <2>2, Zenon
  <1>6. /\ Items \in Seq(Entry) /\ Len(Items) = l
        /\ \A i \in 1 .. l : Items[i].v = mem[list[i]].arg /\ Items[i].uses = mem[list[i]].val
    BY <1>1, ItemsFacts
  <1>7. /\ RemoveAt(Items, k) \in Seq(Entry) /\ Len(RemoveAt(Items, k)) = m
        /\ \A j \in 1 .. m :
              RemoveAt(Items, k)[j] = IF j < k THEN Items[j] ELSE Items[j + 1]
    <2>1. k \in 1 .. Len(Items) /\ Len(Items) - 1 = m
      BY <1>4, <1>6
    <2>2. /\ RemoveAt(Items, k) \in Seq(Entry)
          /\ Len(RemoveAt(Items, k)) = Len(Items) - 1
          /\ \A j \in 1 .. Len(Items) - 1 :
                RemoveAt(Items, k)[j] = IF j < k THEN Items[j] ELSE Items[j + 1]
      BY <1>6, <2>1, RemoveAtSeq, Zenon
    <2>. QED
      BY <2>1, <2>2, Zenon
  <1>8. ASSUME NEW i \in 1 .. m
        PROVE  /\ RemoveAt(Items, k)[i].v = mem'[list'[i]].arg
               /\ RemoveAt(Items, k)[i].uses = mem'[list'[i]].val
    <2> DEFINE q == IF i < k THEN i ELSE i + 1
    <2>1. q \in 1 .. l /\ q # k
      BY <1>4
    <2>2. list'[i] = list[q] /\ RemoveAt(Items, k)[i] = Items[q]
      BY <1>5, <1>7
    <2> HIDE DEF q
    <2>3. list[q] \in Node /\ list[q] # p
      BY <1>2, <2>1
    <2>. QED
      BY <1>6, <2>1, <2>2, <2>3
  <1>9. Len(RemoveAt(Items, k)) = Len(list')
    BY <1>5, <1>7
  <1>10. \A i \in 1 .. Len(RemoveAt(Items, k)) :
            /\ RemoveAt(Items, k)[i].v = mem'[list'[i]].arg
            /\ RemoveAt(Items, k)[i].uses = mem'[list'[i]].val
    BY <1>7, <1>8
  <1>. QED
    BY <1>7, <1>9, <1>10, ItemsAre

\* Relinking changes no payload.
LEMMA BypassedPayload ==
    ASSUME NEW m \in [Node -> Cell], prev \in Pointer, p \in Node, p # head => prev \in Node
    PROVE  \A n \in Node : Bypassed(m)[n].arg = m[n].arg /\ Bypassed(m)[n].val = m[n].val
  <1> DEFINE x == IF p = tail THEN Null ELSE m[p].next
  <1>1. x \in Pointer
    BY DEF Cell, Pointer
  <1>2. CASE p = head
    BY <1>2 DEF Bypassed
  <1>3. CASE p # head
    <2>1. Bypassed(m) = [m EXCEPT ![prev].next = x]
      BY <1>3 DEF Bypassed
    <2> HIDE DEF x
    <2>2. /\ Bypassed(m)[prev].arg = m[prev].arg /\ Bypassed(m)[prev].val = m[prev].val
          /\ \A b \in Node : b # prev => Bypassed(m)[b] = m[b]
      BY <1>1, <1>3, <2>1, SetNext
    <2>. QED
      BY <2>2
  <1>. QED
    BY <1>2, <1>3

\* Both deletions delete the first entry that satisfies the condition.
LEMMA RefDel ==
    ASSUME QueueInv, QueueInv', delFromQueue \/ delInCallback
    PROVE  F!Delete(sel)
  <1>1. /\ Looping /\ Hit /\ Unlink /\ pc' # "free" /\ got' = mem[p].arg
        /\ useMax' = useMax
    BY DEF delFromQueue, delInCallback, Looping, Returned, Resume, Unlink
  <1>2. /\ p \in Node /\ prev \in Pointer /\ mem \in [Node -> Cell]
        /\ p # head => prev \in Node
    BY <1>1, HitType
  <1>3. PICK l \in Nat : l = Len(list)
    BY DEF QueueInv, TypeOK
  <1>4. PICK k \in 1 .. l : /\ k \in DOMAIN Items /\ F!IsFirst(k, sel)
                           /\ p = list[k] /\ Items[k].v = mem[p].arg
    BY <1>1, <1>3, HitIsFirst
  <1> DEFINE byp == Bypassed(mem)
  <1>5. \A n \in Node : byp[n].arg = mem[n].arg /\ byp[n].val = mem[n].val
    BY <1>2, BypassedPayload
  <1>6. byp \in [Node -> Cell]
    BY <1>2, BypassedNext
  <1>7. mem' = byp \/ mem' = [byp EXCEPT ![p] = Blank]
    BY DEF delFromQueue, delInCallback
  <1> HIDE DEF byp
  <1>8. \A n \in Node : n # p => mem'[n].arg = mem[n].arg /\ mem'[n].val = mem[n].val
    BY <1>2, <1>5, <1>6, <1>7
  <1>9. Items' = RemoveAt(Items, k)
    BY <1>1, <1>3, <1>4, <1>8, ItemsUnlinked
  <1>. QED
    BY <1>1, <1>4, <1>9 DEF F!Delete, F!RemoveAt, RemoveAt

\* A user takes the first entry, and the last user deletes it.
LEMMA RefUse ==
    ASSUME QueueInv, QueueInv', delFromQueueByUser
    PROVE  F!Use(sel)
  <1> DEFINE used == [mem EXCEPT ![p].val = mem[p].val + 1]
  <1>1. /\ Looping /\ Hit /\ pc # "free" /\ pc' # "free" /\ got' = mem[p].arg
    BY DEF delFromQueueByUser, Looping, Returned
  <1>2. /\ p \in Node /\ prev \in Pointer /\ mem \in [Node -> Cell]
        /\ p # head => prev \in Node
    BY <1>1, HitType
  <1>3. PICK l \in Nat : l = Len(list)
    BY DEF QueueInv, TypeOK
  <1>4. PICK k \in 1 .. l : /\ k \in DOMAIN Items /\ F!IsFirst(k, sel)
                           /\ p = list[k] /\ Items[k].v = mem[p].arg
                           /\ Items[k].uses = mem[p].val
    BY <1>1, <1>3, HitIsFirst
  <1>5. /\ used \in [Node -> Cell]
        /\ used[p].arg = mem[p].arg /\ used[p].val = mem[p].val + 1
        /\ \A n \in Node : n # p => used[n] = mem[n]
    <2>1. mem[p] \in Cell
      BY <1>2
    <2>2. /\ [mem[p] EXCEPT !.val = mem[p].val + 1] \in Cell
          /\ [mem[p] EXCEPT !.val = mem[p].val + 1].arg = mem[p].arg
          /\ [mem[p] EXCEPT !.val = mem[p].val + 1].val = mem[p].val + 1
      BY <2>1 DEF Cell
    <2>3. used = [mem EXCEPT ![p] = [mem[p] EXCEPT !.val = mem[p].val + 1]]
      OBVIOUS
    <2>. QED
      BY <1>2, <2>2, <2>3
  <1>6. IF mem[p].val + 1 >= useMax
        THEN Unlink /\ mem' = Bypassed(used)
        ELSE mem' = used /\ UNCHANGED <<queue, held, list>>
    BY DEF delFromQueueByUser, LastUser
  <1> HIDE DEF used
  <1>7. CASE mem[p].val + 1 >= useMax
    <2>1. Unlink /\ mem' = Bypassed(used)
      BY <1>6, <1>7
    <2>2. \A n \in Node : mem'[n].arg = used[n].arg /\ mem'[n].val = used[n].val
      BY <1>2, <1>5, <2>1, BypassedPayload
    <2>3. \A n \in Node : n # p => mem'[n].arg = mem[n].arg /\ mem'[n].val = mem[n].val
      BY <1>5, <2>2
    <2>4. Items' = RemoveAt(Items, k) /\ useMax' = useMax
      BY <1>1, <1>3, <1>4, <2>1, <2>3, ItemsUnlinked DEF Unlink
    <2>. QED
      BY <1>1, <1>4, <1>7, <2>4 DEF F!Use, F!RemoveAt, RemoveAt
  <1>8. CASE ~(mem[p].val + 1 >= useMax)
    <2> DEFINE e == [v |-> Items[k].v, uses |-> Items[k].uses + 1]
               s == [Items EXCEPT ![k] = e]
    <2>1. mem' = used /\ list' = list /\ useMax' = useMax
      BY <1>6, <1>8 DEF queue
    <2>2. /\ list \in Seq(Node) /\ Items \in Seq(Entry) /\ Len(Items) = l
          /\ \A i \in 1 .. l : Items[i].v = mem[list[i]].arg
                             /\ Items[i].uses = mem[list[i]].val
                             /\ list[i] \in Node
      BY <1>1, <1>3, ItemsFacts
    <2>3. e \in Entry /\ e.v = mem[p].arg /\ e.uses = mem[p].val + 1
      <3>1. Items[k] \in Entry
        BY <2>2
      <3>. QED
        BY <1>4, <3>1 DEF Entry
    <2> HIDE DEF e
    <2>4. /\ s \in Seq(Entry) /\ Len(s) = l /\ s[k] = e
          /\ \A i \in 1 .. l : i # k => s[i] = Items[i]
      BY <2>2, <2>3
    <2> HIDE DEF s
    <2>5. \A i \in 1 .. l : i # k => list[i] # p
      BY <1>1, <1>3, <1>4, ChainFacts
    <2>6. ASSUME NEW i \in 1 .. Len(s)
          PROVE  s[i].v = mem'[list'[i]].arg /\ s[i].uses = mem'[list'[i]].val
      <3>1. CASE i = k
        BY <1>4, <1>5, <2>1, <2>3, <2>4, <3>1
      <3>2. CASE i # k
        BY <1>5, <2>1, <2>2, <2>4, <2>5, <3>2
      <3>. QED
        BY <3>1, <3>2
    <2>7. Items' = s
      BY <1>1, <1>3, <2>1, <2>4, <2>6, ItemsAre
    <2>. QED
      BY <1>1, <1>4, <1>8, <2>1, <2>7 DEF F!Use, e, s
  <1>. QED
    BY <1>7, <1>8

LEMMA RefSearch ==
    ASSUME QueueInv, searchFromQueue
    PROVE  F!Search(sel)
  <1>1. /\ Looping /\ Hit /\ pc # "free" /\ pc' # "free" /\ got' = mem[p].arg
        /\ list' = list /\ mem' = mem /\ useMax' = useMax
    BY DEF searchFromQueue, Looping, Returned, queue
  <1>2. PICK l \in Nat : l = Len(list)
    BY DEF QueueInv, TypeOK
  <1>3. PICK k \in 1 .. l : /\ k \in DOMAIN Items /\ F!IsFirst(k, sel)
                           /\ Items[k].v = mem[p].arg
    BY <1>1, <1>2, HitIsFirst
  <1>4. Items' = Items
    BY <1>1, ItemsKept
  <1>. QED
    BY <1>1, <1>3, <1>4 DEF F!Search

\* A loop that has come to the end has passed every entry.
LEMMA RefMiss ==
    ASSUME QueueInv, NotFound
    PROVE  F!Miss(sel)
  <1>1. /\ Looping /\ p = Null /\ pc # "free" /\ pc' # "free" /\ got' = Nothing
        /\ list' = list /\ mem' = mem /\ useMax' = useMax
    BY DEF NotFound, Looping, Returned, Resume, queue
  <1>2. list \in Seq(Node)
    BY DEF QueueInv, TypeOK
  <1>3. PICK l \in Nat : l = Len(list)
    BY <1>2
  <1>4. PICK k \in 1 .. l + 1 : /\ p = At(k)
                               /\ \A i \in 1 .. k - 1 : mem[list[i]].arg \notin sel
    BY <1>1, <1>3 DEF QueueInv, Walking
  <1>5. k = l + 1
    <2>1. CASE k \in 1 .. l
      <3>1. p = list[k] /\ list[k] \in Node
        BY <1>2, <1>3, <1>4, <2>1 DEF At
      <3>. QED
        BY <1>1, <3>1, QueueAssumption
    <2>. QED
      BY <2>1
  <1>6. /\ DOMAIN Items = 1 .. l
        /\ \A i \in 1 .. l : Items[i].v = mem[list[i]].arg
    BY <1>1, <1>3, ItemsFacts
  <1>7. \A i \in DOMAIN Items : Items[i].v \notin sel
    BY <1>4, <1>5, <1>6
  <1>8. Items' = Items
    BY <1>1, ItemsKept
  <1>. QED
    BY <1>1, <1>7, <1>8 DEF F!Miss

LEMMA RefCall ==
    ASSUME QueueInv,
           \/ putRefused \/ traverseQueue \/ CallbackEnd \/ CallbackDel
           \/ \E S \in SUBSET Value, c \in {"del", "use", "search"} : Begin(c, S)
    PROVE  F!Call
  <1>1. /\ pc # "free" /\ pc' # "free" /\ list' = list /\ mem' = mem
        /\ got' = None /\ useMax' = useMax
    BY DEF putRefused, traverseQueue, CallbackEnd, CallbackDel, Begin, Returned,
           Resume, queue
  <1>. QED
    BY <1>1, ItemsKept DEF F!Call

\* Freeing nodes that are not linked, and steps inside a call, are not seen.
LEMMA RefStutter ==
    ASSUME QueueInv, QueueInv',
           \/ Skip \/ ReadNext \/ TraverseEnd \/ FreeHeld \/ FreeNode \/ FreeEnd
           \/ UNCHANGED vars
    PROVE  UNCHANGED <<Items, useMax, got>>
  <1>1. CASE Skip \/ ReadNext \/ TraverseEnd
    <2>1. /\ pc # "free" /\ pc' # "free" /\ list' = list /\ mem' = mem
          /\ got' = got /\ useMax' = useMax
      BY <1>1 DEF Skip, Looping, ReadNext, TraverseEnd, Returned, queue
    <2>. QED
      BY <2>1, ItemsKept
  <1>2. CASE FreeNode \/ FreeEnd
    <2>1. Items = <<>> /\ got' = got /\ useMax' = useMax
      BY <1>2 DEF FreeNode, FreeEnd, Items, queue
    <2>2. Items' = <<>>
      BY <1>2 DEF FreeNode, FreeEnd, Items, Returned
    <2>. QED
      BY <2>1, <2>2
  <1>3. CASE UNCHANGED vars
    BY <1>3 DEF vars, queue, Items
  <1>4. CASE FreeHeld
    <2>1. PICK n \in held : mem' = [mem EXCEPT ![n] = Blank]
      BY <1>4 DEF FreeHeld
    <2>2. list' = list /\ pc' = pc /\ got' = got /\ useMax' = useMax
      BY <1>4 DEF FreeHeld, queue
    <2>3. CASE pc = "free"
      BY <2>2, <2>3 DEF Items
    <2>4. CASE pc # "free"
      <3>1. list \in Seq(Node) /\ mem \in [Node -> Cell] /\ n \in Node
        BY <2>1 DEF QueueInv, TypeOK, Cell
      <3>2. \A i \in DOMAIN list : list[i] \in Node /\ list[i] # n
        BY <2>1, <3>1 DEF QueueInv, Ownership
      <3>3. \A i \in DOMAIN list : mem'[list[i]] = mem[list[i]]
        BY <2>1, <3>1, <3>2
      <3>4. Items' = Items
        BY <2>2, <2>4, <3>3 DEF Items
      <3>. QED
        BY <2>2, <3>4
    <2>. QED
      BY <2>3, <2>4
  <1>. QED
    BY <1>1, <1>2, <1>3, <1>4

LEMMA RefClear ==
    ASSUME QueueInv, QueueInv', freeShmQueue
    PROVE  F!Clear
  <1>1. pc' = "free" /\ got' = None
    BY DEF freeShmQueue
  <1>2. useMax' \in Nat
    BY DEF QueueInv, TypeOK
  <1>. QED
    BY <1>1, <1>2 DEF F!Clear, Items

LEMMA RefStep == QueueInv /\ QueueInv' /\ [Next]_vars => [F!Next]_(F!fifoVars)
  <1> SUFFICES ASSUME QueueInv, QueueInv', [Next]_vars
               PROVE  F!Next \/ UNCHANGED <<Items, useMax, got>>
    BY DEF F!fifoVars
  <1>1. ASSUME NEW v \in Value, putToShmQueue(v) PROVE F!Next
    BY <1>1, RefPut DEF F!Next
  <1>2. CASE getFromQueue
    BY <1>2, RefGet DEF F!Next
  <1>3. CASE \/ putRefused \/ traverseQueue \/ CallbackEnd \/ CallbackDel
             \/ \E S \in SUBSET Value, c \in {"del", "use", "search"} : Begin(c, S)
    BY <1>3, RefCall DEF F!Next
  <1>4. sel \in SUBSET Value
    BY DEF QueueInv, TypeOK
  <1>5. CASE delFromQueue \/ delInCallback
    BY <1>4, <1>5, RefDel DEF F!Next
  <1>6. CASE delFromQueueByUser
    BY <1>4, <1>6, RefUse DEF F!Next
  <1>7. CASE searchFromQueue
    BY <1>4, <1>7, RefSearch DEF F!Next
  <1>8. CASE NotFound
    BY <1>4, <1>8, RefMiss DEF F!Next
  <1>9. CASE freeShmQueue
    BY <1>9, RefClear DEF F!Next
  <1>10. CASE \/ Skip \/ ReadNext \/ TraverseEnd \/ FreeHeld \/ FreeNode \/ FreeEnd
              \/ UNCHANGED vars
    BY <1>10, RefStutter
  <1>. QED
    BY <1>1, <1>2, <1>3, <1>5, <1>6, <1>7, <1>8, <1>9, <1>10 DEF Next

\* Whatever is put, taken, deleted inside a traversal or freed, the pointers of
\* share.cpp behave as a bounded first-in first-out queue.
THEOREM RefinesFifo == Spec => Refines
  <1>1. QueueInv /\ [Next]_vars => [F!Next]_(F!fifoVars)
    BY StepInv, RefStep
  <1>. QED
    BY RefInit, <1>1, QueueSafe, PTL DEF Spec, Refines, F!Spec

=============================================================================
