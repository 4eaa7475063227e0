------------------------------ MODULE ShmQueue ------------------------------
(***************************************************************************)
(* The linked list behind every queue of the program (share.cpp): nodes in *)
(* malloc'ed or shared memory, a head, a tail and a length.  The callers   *)
(* hold the queue's lock, so calls do not overlap, but a call is several   *)
(* steps here, one per node looked at, because one call runs inside        *)
(* another: the callbacks of traverseQueue delete the node they are given  *)
(* (delObjFromPidQue with lock = 0) and free it while the traversal goes   *)
(* on.  `list` and `todo` are history variables.                           *)
(***************************************************************************)
EXTENDS Integers, Sequences, SequencesExt

CONSTANTS Node,     \* addresses a node may be allocated at
          Value,    \* payloads
          Null, None, Nothing,
          QueMax,      \* limit passed to putToShmQueue
          UserMax   \* bound on useMax

ASSUME QueueAssumption ==
    /\ Null \notin Node /\ Value # {}
    /\ QueMax \in Nat /\ UserMax \in Nat
    /\ None \notin Value /\ Nothing \notin Value /\ None # Nothing

VARIABLES head, tail, queLen, useMax,  \* queue_common
          mem,    \* node_common at every address
          alloc,  \* addresses that are allocated
          held,   \* unlinked nodes a caller has still to free
          pc,     \* the call under way
          p, prev, \* locals of the loops
          next,   \* local of traverseQueue
          sel,    \* the values that satisfy the condition
          got,    \* payload of *new_p
          list,   \* history: the nodes linked from head
          todo    \* history: the nodes traverseQueue has still to visit

queue == <<head, tail, queLen, useMax>>
vars == <<queue, mem, alloc, held, pc, p, prev, next, sel, got, list, todo>>

\* A node nobody has allocated: what it holds is not to matter to anyone.
Blank == [arg |-> CHOOSE v \in Value : TRUE, val |-> 0, next |-> Null]

\* The locals of a call that has returned.
Returned == /\ pc' = "idle" /\ p' = Null /\ prev' = Null /\ next' = Null
            /\ sel' = {}

Init ==
    /\ head = Null /\ tail = Null /\ queLen = 0 /\ useMax = 0
    /\ mem = [n \in Node |-> Blank]
    /\ alloc = {} /\ held = {}
    /\ pc = "idle" /\ p = Null /\ prev = Null /\ next = Null /\ sel = {}
    /\ got = None /\ list = <<>> /\ todo = <<>>

-----------------------------------------------------------------------------
(* Calls without a loop *)

\* Memory after node n with payload v is linked behind the tail.
Appended(n, v) ==
    LET new == [mem EXCEPT ![n] = [arg |-> v, val |-> 0, next |-> Null]]
    IN  IF head = Null THEN new ELSE [new EXCEPT ![tail].next = n]

putToShmQueue(v) ==
    /\ pc = "idle" /\ queLen < QueMax
    /\ \E n \in Node \ alloc :
          /\ mem' = Appended(n, v)
          /\ head' = IF head = Null THEN n ELSE head
          /\ tail' = n
          /\ alloc' = alloc \cup {n}
          /\ list' = Append(list, n)
    /\ queLen' = queLen + 1
    /\ got' = None
    /\ UNCHANGED <<useMax, held, pc, p, prev, next, sel, todo>>

\* The queue is full or there is no memory: the caller frees the payload.
putRefused ==
    /\ pc = "idle"
    /\ got' = None
    /\ UNCHANGED <<queue, mem, alloc, held, pc, p, prev, next, sel, list, todo>>

Decremented == IF queLen - 1 < 0 THEN 0 ELSE queLen - 1

getFromQueue ==
    /\ pc = "idle" /\ head # Null
    /\ head' = mem[head].next
    /\ tail' = IF mem[head].next = Null THEN Null ELSE tail
    /\ queLen' = Decremented
    /\ got' = IF queLen - 1 < 0 THEN Nothing ELSE mem[head].arg
    /\ held' = held \cup {head}
    /\ list' = Tail(list)
    /\ UNCHANGED <<useMax, mem, alloc, pc, p, prev, next, sel, todo>>

\* A caller frees a node that was handed to it.
FreeHeld ==
    /\ \E n \in held : /\ held' = held \ {n} /\ alloc' = alloc \ {n}
                      /\ mem' = [mem EXCEPT ![n] = Blank]
    /\ UNCHANGED <<queue, pc, p, prev, next, sel, got, list, todo>>

-----------------------------------------------------------------------------
(* delFromQueue, delFromQueueByUser and searchFromQueue *)

\* A call with a condition starts at the head.
Begin(call, S) ==
    /\ pc = "idle"
    /\ pc' = call /\ sel' = S /\ p' = head /\ prev' = head
    /\ got' = None
    /\ UNCHANGED <<queue, mem, alloc, held, next, list, todo>>

Looping == pc \in {"del", "use", "search", "callbackDel"}
Hit == p # Null /\ mem[p].arg \in sel

Skip ==
    /\ Looping /\ p # Null /\ ~Hit
    /\ prev' = p /\ p' = mem[p].next
    /\ UNCHANGED <<queue, mem, alloc, held, pc, next, sel, got, list, todo>>

\* Mutant: the traversal goes on with the link of a node just freed.
AfterCallbackStale == mem[p].next

AfterCallback == next

\* The callback has returned and the traversal goes on.
Resume == /\ pc' = "traverse" /\ p' = AfterCallback
          /\ prev' = Null /\ next' = Null /\ sel' = {}

\* No node satisfies the condition.
NotFound ==
    /\ Looping /\ p = Null
    /\ IF pc = "callbackDel" THEN Resume ELSE Returned
    /\ got' = Nothing
    /\ UNCHANGED <<queue, mem, alloc, held, list, todo>>

\* Mutant: the last node is unlinked and the tail still points to it.
UnlinkedTailKept == IF p = head /\ p = tail THEN Null ELSE tail

UnlinkedTail ==
    IF p # tail THEN tail ELSE IF p = head THEN Null ELSE prev

\* Memory m after the node before p is linked to the one behind it.
Bypassed(m) ==
    IF p = head THEN m
    ELSE [m EXCEPT ![prev].next = IF p = tail THEN Null ELSE m[p].next]

\* p is taken out of the list.
Unlink ==
    /\ head' = IF p # head THEN head ELSE IF p = tail THEN Null ELSE mem[p].next
    /\ tail' = UnlinkedTail
    /\ queLen' = Decremented
    /\ list' = RemoveAt(list, CHOOSE i \in DOMAIN list : list[i] = p)
    /\ UNCHANGED useMax

delFromQueue ==
    /\ pc = "del" /\ Hit
    /\ Unlink /\ mem' = Bypassed(mem)
    /\ got' = mem[p].arg
    /\ held' = held \cup {p}
    /\ Returned
    /\ UNCHANGED <<alloc, todo>>

\* Mutant: one user too many.
LastUserLate == mem[p].val + 1 > useMax

LastUser == mem[p].val + 1 >= useMax

delFromQueueByUser ==
    /\ pc = "use" /\ Hit
    /\ LET used == [mem EXCEPT ![p].val = mem[p].val + 1]
       IN  IF LastUser
           THEN Unlink /\ mem' = Bypassed(used) /\ held' = held \cup {p}
           ELSE mem' = used /\ UNCHANGED <<queue, held, list>>
    /\ got' = mem[p].arg
    /\ Returned
    /\ UNCHANGED <<alloc, todo>>

searchFromQueue ==
    /\ pc = "search" /\ Hit
    /\ got' = mem[p].arg
    /\ Returned
    /\ UNCHANGED <<queue, mem, alloc, held, list, todo>>

-----------------------------------------------------------------------------
(* traverseQueue, with callbacks that may delete the node they are given *)

traverseQueue ==
    /\ pc = "idle"
    /\ pc' = "traverse" /\ p' = head /\ todo' = list
    /\ got' = None
    /\ UNCHANGED <<queue, mem, alloc, held, prev, next, sel, list>>

ReadNext ==
    /\ pc = "traverse" /\ p # Null
    /\ next' = mem[p].next
    /\ todo' = Tail(todo)
    /\ pc' = "callback"
    /\ UNCHANGED <<queue, mem, alloc, held, p, prev, sel, got, list>>

\* The callback returns 0, or asks to stop.
CallbackEnd ==
    /\ pc = "callback"
    /\ \/ Resume /\ todo' = todo
       \/ Returned /\ todo' = <<>>
    /\ got' = None
    /\ UNCHANGED <<queue, mem, alloc, held, list>>

\* The callback deletes the first node with the object id of its own.
CallbackDel ==
    /\ pc = "callback"
    /\ pc' = "callbackDel" /\ sel' = {mem[p].arg} /\ p' = head /\ prev' = head
    /\ got' = None
    /\ UNCHANGED <<queue, mem, alloc, held, next, list, todo>>

\* Mutant: delObjFromPidQue does not free the node.
AllocLeaked == alloc

AllocAfterDel == alloc \ {p}

\* delFromQueue inside the callback; delObjFromPidQue frees the node.
delInCallback ==
    /\ pc = "callbackDel" /\ Hit
    /\ Unlink /\ mem' = [Bypassed(mem) EXCEPT ![p] = Blank]
    /\ got' = mem[p].arg
    /\ Resume
    /\ alloc' = AllocAfterDel
    /\ UNCHANGED <<held, todo>>

TraverseEnd ==
    /\ pc = "traverse" /\ p = Null
    /\ Returned
    /\ UNCHANGED <<queue, mem, alloc, held, got, list, todo>>

-----------------------------------------------------------------------------
(* freeShmQueue; setShmUser changes the number of users under the same lock *)

freeShmQueue ==
    /\ pc = "idle"
    /\ useMax' \in {useMax, useMax + 1, IF useMax = 0 THEN 0 ELSE useMax - 1}
    /\ useMax' <= UserMax
    /\ pc' = "free" /\ p' = head
    /\ got' = None
    /\ UNCHANGED <<head, tail, queLen, mem, alloc, held, prev, next, sel, list, todo>>

FreeNode ==
    /\ pc = "free" /\ p # Null
    /\ p' = mem[p].next
    /\ alloc' = alloc \ {p}
    /\ mem' = [mem EXCEPT ![p] = Blank]
    /\ UNCHANGED <<queue, held, pc, prev, next, sel, got, list, todo>>

FreedLen == 0

FreeEnd ==
    /\ pc = "free" /\ p = Null
    /\ head' = Null /\ tail' = Null /\ queLen' = FreedLen
    /\ list' = <<>>
    /\ Returned
    /\ UNCHANGED <<useMax, mem, alloc, held, got, todo>>

-----------------------------------------------------------------------------
Next ==
    \/ \E v \in Value : putToShmQueue(v)
    \/ putRefused \/ getFromQueue \/ FreeHeld
    \/ \E S \in SUBSET Value, call \in {"del", "use", "search"} : Begin(call, S)
    \/ Skip \/ NotFound
    \/ delFromQueue \/ delFromQueueByUser \/ searchFromQueue
    \/ traverseQueue \/ ReadNext \/ CallbackEnd \/ CallbackDel
    \/ delInCallback \/ TraverseEnd
    \/ freeShmQueue \/ FreeNode \/ FreeEnd

Spec == Init /\ [][Next]_vars

-----------------------------------------------------------------------------
(* Properties *)

Calls == {"idle", "del", "use", "search", "traverse", "callback",
          "callbackDel", "free"}
Pointer == Node \cup {Null}

TypeOK ==
    /\ head \in Pointer /\ tail \in Pointer
    /\ queLen \in Nat /\ useMax \in Nat
    /\ mem \in [Node -> [arg : Value, val : Nat, next : Pointer]]
    /\ alloc \in SUBSET Node /\ held \in SUBSET Node
    /\ pc \in Calls
    /\ p \in Pointer /\ prev \in Pointer /\ next \in Pointer
    /\ sel \in SUBSET Value
    /\ got \in Value \cup {None, Nothing}
    /\ list \in Seq(Node) /\ todo \in Seq(Node)

\* The i-th node of the list, Null behind its end.
At(i) == IF i \in DOMAIN list THEN list[i] ELSE Null

\* The i-th node is not freed yet: freeShmQueue frees from the front.
Kept(i) == pc = "free" => \E k \in 1 .. i : p = list[k]

\* head, the links and tail are one chain of distinct nodes as long as
\* queLen says: no call loses a node, closes a cycle or leaves the tail
\* behind, whichever node it unlinks.
Chain ==
    /\ head = At(1) /\ tail = At(Len(list))
    /\ \A i \in DOMAIN list : Kept(i) => mem[list[i]].next = At(i + 1)
    /\ \A i, j \in DOMAIN list : list[i] = list[j] => i = j
    /\ queLen = Len(list)

\* Memory is neither leaked nor freed twice: what is allocated is linked,
\* or unlinked and in the hands of one caller.
Ownership ==
    /\ alloc = held \cup {list[i] : i \in {j \in DOMAIN list : Kept(j)}}
    /\ \A i \in DOMAIN list : list[i] \notin held

\* todo is what is linked from the k-th node on.
Rest(k) == /\ Len(todo) = Len(list) + 1 - k
           /\ \A i \in DOMAIN todo : todo[i] = list[k + i - 1]

\* Whatever its callbacks delete, a traversal visits what was linked when it
\* began, each node once and in order, and never a node that was freed.
TraversalExact ==
    pc = "traverse" => \E k \in 1 .. Len(list) + 1 : p = At(k) /\ Rest(k)

\* A loop with a condition stands at a linked node, with prev at the one
\* before it, and has passed only nodes that do not satisfy the condition.
Walking ==
    Looping => \E k \in 1 .. Len(list) + 1 :
        /\ p = At(k)
        /\ prev = IF k = 1 THEN head ELSE list[k - 1]
        /\ \A i \in 1 .. k - 1 : mem[list[i]].arg \notin sel

\* A callback is given a linked node, and what it is about to delete is that
\* node or one before it, never the one traverseQueue goes to next.
InCallback ==
    /\ pc = "callback" => \E k \in DOMAIN list :
          p = list[k] /\ next = At(k + 1) /\ Rest(k + 1)
    /\ pc = "callbackDel" => \E t \in DOMAIN list :
          /\ sel = {mem[list[t]].arg} /\ next = At(t + 1) /\ Rest(t + 1)
          /\ p \in {list[i] : i \in 1 .. t}

Freeing == pc = "free" => \E k \in 1 .. Len(list) + 1 : p = At(k)

\* The inductive invariant.
QueueInv == TypeOK /\ Chain /\ Ownership /\ Walking /\ TraversalExact
            /\ InCallback /\ Freeing

\* The queue of values that the pointers stand for.
Items == IF pc = "free" THEN <<>>
         ELSE [i \in DOMAIN list |-> [v |-> mem[list[i]].arg,
                                      uses |-> mem[list[i]].val]]

F == INSTANCE Fifo WITH items <- Items, out <- got

\* The pointers implement a bounded first-in first-out queue.
Refines == F!Spec
=============================================================================
