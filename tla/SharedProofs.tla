---------------------------- MODULE SharedProofs ----------------------------
(***************************************************************************)
(* Proofs about what the processes of a machine share and hand out:        *)
(*   UniqueKeysSafe, TableEndsSafe, FreeKeyFoundSafe: the message keys,    *)
(*     for any msgKeyMax and any number of children;                       *)
(*   UserCountSafe, FramesOwnedSafe: the video buffers and their frames,   *)
(*     for any objects, threads, buffers and addresses.                    *)
(***************************************************************************)
EXTENDS MsgKeys, Preview, FiniteSetTheorems, SequenceTheorems, TLAPS

-----------------------------------------------------------------------------
(* Message keys                                                            *)

LEMMA Widths == LastKey \in Nat /\ MsgKeyMax = LastKey + 1 /\ 0 \in Slot
BY MsgKeyAssumption DEF LastKey, Slot

\* Fewer keys than slots: a scan that has met no hole is not at the last slot.
LEMMA RoomLeft ==
  ASSUME TypeOK, ReadDistinct, i <= LastKey
  PROVE  j < LastKey
<1>1. j \in Nat /\ i \in 1 .. LastKey
  BY Widths DEF TypeOK
<1>2. PICK read \in [0 .. j - 1 -> MsgKey \ {i}] :
         \A s, t \in 0 .. j - 1 : read[t] = read[s] => t = s
  BY DEF ReadDistinct
<1>3. IsFiniteSet(MsgKey) /\ Cardinality(MsgKey) = LastKey
  BY FS_Interval, Widths DEF MsgKey
<1>4. IsFiniteSet(MsgKey \ {i}) /\ Cardinality(MsgKey \ {i}) = LastKey - 1
  BY <1>1, <1>3, FS_RemoveElement DEF MsgKey
<1>5. IsFiniteSet(0 .. j - 1) /\ Cardinality(0 .. j - 1) = j
  <2>1. j - 1 \in Int /\ 0 \in Int
    BY <1>1
  <2>2. IsFiniteSet(0 .. j - 1) /\ Cardinality(0 .. j - 1) = IF 0 > j - 1 THEN 0 ELSE j - 1 - 0 + 1
    BY <2>1, FS_Interval
  <2> QED
    BY <1>1, <2>2
<1>6. ~(LastKey - 1 < j)
  <2> SUFFICES ASSUME LastKey - 1 < j PROVE FALSE
    OBVIOUS
  <2> DEFINE before == 0 .. j - 1
             others == MsgKey \ {i}
  <2>1. /\ IsFiniteSet(before) /\ IsFiniteSet(others)
        /\ Cardinality(others) < Cardinality(before)
    BY <1>4, <1>5
  <2>2. read \in [before -> others]
    BY <1>2
  <2> HIDE DEF before, others
  <2>3. \E x, y \in before : x # y /\ read[x] = read[y]
    BY <2>1, <2>2, FS_PigeonHole
  <2> QED
    BY <1>2, <2>3 DEF before
<1> QED
  BY <1>1, <1>6, Widths

\* Whoever's key is cached keeps it while another key's slot becomes a hole.
LEMMA Freed ==
  ASSUME TypeOK, TableInv, NEW key \in MsgKey
  PROVE  \A s \in Slot : delMsgKey(key)[s] = IF keyCache[s] = key THEN Hole ELSE keyCache[s]
<1> SUFFICES ASSUME NEW s \in Slot, keyCache[s] = key PROVE StopsAt(key, s)
  BY DEF delMsgKey
<1>1. \A t \in 0 .. s - 1 : t \in Slot /\ t < s
  BY Widths DEF Slot
<1>2. key # End
  BY DEF MsgKey, End
<1>3. \A t \in 0 .. s - 1 : keyCache[t] # End
  BY <1>1, <1>2 DEF TableInv
<1>4. \A t \in 0 .. s - 1 : keyCache[t] # key
  BY <1>1 DEF TableInv, Slot
<1> QED
  BY <1>3, <1>4 DEF StopsAt

LEMMA InitKeys == KeysInit => KeysInv
<1> SUFFICES ASSUME KeysInit PROVE KeysInv
  OBVIOUS
<1>1. TypeOK
  BY Widths DEF KeysInit, TypeOK, Slot, MsgKey
<1>2. UniqueKeys /\ TableEnds
  BY Widths DEF KeysInit, UniqueKeys, TableEnds
<1>3. TableInv /\ ScanInv
  BY DEF KeysInit, TableInv, ScanInv, MsgKey, End, NoEntry
<1> QED
  BY <1>1, <1>2, <1>3 DEF KeysInv

\* The scan of key i begins again at slot 0: nothing has been read yet.
LEMMA NothingRead ==
  ASSUME j' = 0
  PROVE  ReadDistinct'
<1>1. 0 .. j' - 1 = {}
  OBVIOUS
<1>2. [s \in {} |-> 0] \in [0 .. j' - 1 -> MsgKey \ {i'}]
  BY <1>1
<1> QED
  BY <1>1, <1>2 DEF ReadDistinct

LEMMA StepCreate == KeysInv /\ createProcess => KeysInv'
<1> SUFFICES ASSUME KeysInv, createProcess PROVE KeysInv'
  OBVIOUS
<1> USE DEF KeysInv
<1>1. TypeOK'
  BY Widths DEF TypeOK, createProcess
<1>2. UniqueKeys' /\ TableEnds' /\ TableInv'
  BY DEF createProcess, UniqueKeys, TableEnds, TableInv, Cached
<1>3. ScanInv'
  <2>1. ReadDistinct'
    BY NothingRead DEF createProcess
  <2>2. \A k \in spare' : k >= 1
    BY Widths DEF createProcess, MsgKey
  <2> QED
    BY <2>1, <2>2 DEF createProcess, ScanInv, Cached
<1> QED
  BY <1>1, <1>2, <1>3

LEMMA StepKeyUsed == KeysInv /\ KeyUsed => KeysInv'
<1> SUFFICES ASSUME KeysInv, KeyUsed PROVE KeysInv'
  OBVIOUS
<1> USE DEF KeysInv
<1>1. TypeOK'
  BY Widths DEF TypeOK, KeyUsed
<1>2. UniqueKeys' /\ TableEnds' /\ TableInv'
  BY DEF KeyUsed, UniqueKeys, TableEnds, TableInv, Cached
<1>3. i \in Cached
  <2>1. i \in MsgKey
    BY Widths DEF TypeOK, KeyUsed, MsgKey
  <2>2. j \in Slot
    <3>1. PICK s \in Slot : keyCache[s] = End
      BY DEF TableEnds
    <3>2. s \notin 0 .. j - 1
      BY <3>1 DEF KeyUsed, ScanInv
    <3>3. s \in 0 .. MsgKeyMax - 1 /\ j \in 0 .. MsgKeyMax
      BY <3>1 DEF Slot, TypeOK
    <3> QED
      BY <3>2, <3>3, Widths DEF Slot
  <2> QED
    BY <2>1, <2>2 DEF KeyUsed, Cached
<1>4. ScanInv'
  <2>1. ReadDistinct'
    BY NothingRead DEF KeyUsed
  <2>2. \A k \in spare : k >= i + 1
    <3>1. \A k \in spare : k \in Nat /\ k >= i /\ k # i /\ i \in Nat
      BY <1>3, Widths DEF KeyUsed, ScanInv, TypeOK, MsgKey
    <3> QED
      BY <3>1
  <2> QED
    BY <2>1, <2>2 DEF KeyUsed, ScanInv, Cached
<1> QED
  BY <1>1, <1>2, <1>4

LEMMA StepNextSlot == KeysInv /\ NextSlot => KeysInv'
<1> SUFFICES ASSUME KeysInv, NextSlot PROVE KeysInv'
  OBVIOUS
<1> USE DEF KeysInv
<1>0. /\ j \in Slot /\ j' = j + 1 /\ i' = i /\ keyCache' = keyCache /\ at = "scan"
      /\ keyCache[j] \notin {i, End} /\ j \in Nat
      /\ \A s \in 0 .. j' - 1 : s \in 0 .. j - 1 \/ s = j
      /\ \A s \in 0 .. j - 1 : s \in Slot /\ s # j
  BY Widths DEF NextSlot, Slot
<1>1. TypeOK'
  BY Widths DEF TypeOK, NextSlot, Slot
<1>2. UniqueKeys' /\ TableEnds' /\ TableInv'
  BY DEF NextSlot, UniqueKeys, TableEnds, TableInv, Cached
<1>3. \A s \in 0 .. j' - 1 : keyCache'[s] \notin {i', End}
  BY <1>0 DEF ScanInv
<1>4. empty' # NoSlot => keyCache'[empty'] = Hole
  BY <1>0 DEF NextSlot, ScanInv
<1>5. ASSUME empty' = NoSlot PROVE ReadDistinct'
  <2>1. keyCache[j] # Hole /\ empty = NoSlot
    BY <1>0, <1>5, Widths DEF NextSlot, Slot, NoSlot
  <2>2. keyCache[j] \in MsgKey \ {i}
    BY <1>0, <2>1 DEF TypeOK
  <2>3. PICK read \in [0 .. j - 1 -> MsgKey \ {i}] :
           \A s \in 0 .. j - 1 :
              /\ keyCache[s] \in {read[s], Hole}
              /\ \A t \in Slot : keyCache[t] = read[s] => t = s
              /\ \A t \in 0 .. j - 1 : read[t] = read[s] => t = s
    BY <1>0, <2>1 DEF ScanInv, ReadDistinct
  <2> DEFINE now == [s \in 0 .. j' - 1 |-> IF s = j THEN keyCache[j] ELSE read[s]]
  <2>4. now \in [0 .. j' - 1 -> MsgKey \ {i'}]
    BY <1>0, <2>2, <2>3
  <2>5. /\ \A s \in 0 .. j - 1 : s \in 0 .. j' - 1 /\ now[s] = read[s]
        /\ j \in 0 .. j' - 1 /\ now[j] = keyCache[j]
    BY <1>0
  <2>6. \A s \in 0 .. j - 1 : keyCache[j] # read[s]
    BY <1>0, <2>3
  <2>7. \A t \in Slot : keyCache[t] = keyCache[j] => t = j
    BY <1>0, <2>2 DEF TableInv
  <2> HIDE DEF now
  <2>8. ASSUME NEW s \in 0 .. j' - 1
        PROVE  /\ keyCache'[s] \in {now[s], Hole}
               /\ \A t \in Slot : keyCache'[t] = now[s] => t = s
               /\ \A t \in 0 .. j' - 1 : now[t] = now[s] => t = s
    <3>1. CASE s = j
      BY <1>0, <2>5, <2>6, <2>7, <3>1
    <3>2. CASE s \in 0 .. j - 1
      BY <1>0, <2>3, <2>5, <2>6, <3>2
    <3> QED
      BY <1>0, <3>1, <3>2
  <2> QED
    BY <2>4, <2>8 DEF ReadDistinct
<1>6. spare' \cap Cached' = {} /\ \A k \in spare' : k >= i'
  BY <1>0 DEF NextSlot, ScanInv, Cached
<1> QED
  BY <1>1, <1>2, <1>3, <1>4, <1>5, <1>6 DEF ScanInv

LEMMA StepKeyFound == KeysInv /\ KeyFound => KeysInv'
<1> SUFFICES ASSUME KeysInv, KeyFound PROVE KeysInv'
  OBVIOUS
<1> USE DEF KeysInv
<1> DEFINE target == Target
<1>0. /\ target \in Slot /\ i \in MsgKey /\ j \in Slot /\ keyCache[j] = End
      /\ keyCache[target] \in {End, Hole}
      /\ keyCache' = [keyCache EXCEPT ![target] = i]
      /\ empty = NoSlot => target = j
      /\ empty # NoSlot => keyCache[target] = Hole
  BY Widths DEF KeyFound, TypeOK, Target, ScanInv, MsgKey
<1> HIDE DEF target
<1>1. TypeOK'
  BY <1>0 DEF TypeOK, KeyFound
<1>2. i \notin Cached
  <2>1. ASSUME NEW s \in Slot PROVE keyCache[s] # i
    <3>1. CASE s < j
      BY <3>1, <1>0 DEF KeyFound, ScanInv, Slot
    <3>2. CASE s >= j
      <4>1. keyCache[s] = End
        BY <1>0, <3>2 DEF TableInv, Slot
      <4> QED
        BY <1>0, <4>1 DEF MsgKey, End
    <3> QED
      BY <1>0, <3>1, <3>2 DEF Slot
  <2> QED
    BY <2>1 DEF Cached
<1>3. Cached' = Cached \cup {i}
  <2>1. keyCache \in [Slot -> MsgKey \cup {End, Hole}]
    BY DEF TypeOK
  <2>2. /\ keyCache'[target] = i
        /\ \A s \in Slot : s # target => keyCache'[s] = keyCache[s]
        /\ keyCache[target] \notin MsgKey
    BY <1>0, <2>1, Widths DEF End, Hole, MsgKey
  <2> QED
    BY <1>0, <2>2 DEF Cached
<1>4. UniqueKeys'
  BY <1>0, <1>2 DEF KeyFound, UniqueKeys, TableInv, NoEntry, MsgKey
<1>5. TableInv'
  <2>0. keyCache \in [Slot -> MsgKey \cup {End, Hole}] /\ i # End /\ i # Hole
    BY <1>0 DEF TypeOK, MsgKey, End, Hole
  <2>1. ASSUME NEW s \in Slot, NEW t \in Slot, s < t, keyCache'[s] = End
        PROVE  keyCache'[t] = End
    <3>1. s # target /\ keyCache[s] = End
      BY <1>0, <2>0, <2>1
    <3>2. keyCache[t] = End
      BY <2>1, <3>1 DEF TableInv
    <3>3. t # target
      <4> SUFFICES ASSUME t = target PROVE FALSE
        OBVIOUS
      <4>1. t = j
        BY <1>0, <3>2 DEF End, Hole
      <4>2. s \in 0 .. j - 1
        BY <2>1, <4>1 DEF Slot
      <4> QED
        BY <3>1, <4>2 DEF KeyFound, ScanInv
    <3> QED
      BY <1>0, <2>0, <3>2, <3>3
  <2>2. ASSUME NEW s \in Slot, NEW t \in Slot,
               keyCache'[s] \in MsgKey, keyCache'[s] = keyCache'[t]
        PROVE  s = t
    <3>1. \A u \in Slot : keyCache[u] # i
      BY <1>0, <1>2 DEF Cached
    <3>2. CASE s # target /\ t # target
      BY <1>0, <2>0, <2>2, <3>2 DEF TableInv
    <3>3. CASE s = target \/ t = target
      BY <1>0, <2>0, <2>2, <3>1, <3>3
    <3> QED
      BY <3>2, <3>3
  <2>3. /\ \A p \in Proc : pidQueue'[p] # NoEntry => pidQueue'[p] \in Cached'
        /\ at' = "create" => msgKey' \in Cached'
    BY <1>3 DEF KeyFound, TableInv
  <2> QED
    BY <2>1, <2>2, <2>3 DEF TableInv
<1>6. TableEnds'
  <2>0. keyCache \in [Slot -> MsgKey \cup {End, Hole}]
    BY DEF TypeOK
  <2>1. CASE empty # NoSlot
    BY <1>0, <2>0, <2>1 DEF TableEnds, End, Hole
  <2>2. CASE empty = NoSlot
    <3>1. j < LastKey
      BY <2>2, RoomLeft DEF KeyFound, ScanInv
    <3>2. j + 1 \in Slot /\ j < j + 1
      BY <1>0, <3>1, Widths DEF Slot
    <3>3. keyCache[j + 1] = End
      BY <1>0, <3>2 DEF TableInv
    <3>4. j + 1 # target
      BY <1>0, <2>2, <3>2 DEF Slot
    <3>5. keyCache'[j + 1] = End
      BY <1>0, <2>0, <3>2, <3>3, <3>4
    <3> QED
      BY <3>2, <3>5 DEF TableEnds
  <2> QED
    BY <2>1, <2>2
<1>7. ScanInv'
  BY DEF KeyFound, ScanInv
<1> QED
  BY <1>1, <1>4, <1>5, <1>6, <1>7

\* The steps that leave the table alone.
LEMMA StepReturn ==
  KeysInv /\ (NoKeyLeft \/ CreateFailed \/ \E p \in Proc : put2PidQueue(p)) => KeysInv'
<1> SUFFICES ASSUME KeysInv, NoKeyLeft \/ CreateFailed \/ \E p \in Proc : put2PidQueue(p)
             PROVE  KeysInv'
  OBVIOUS
<1> USE DEF KeysInv
<1>1. CASE NoKeyLeft \/ CreateFailed
  BY <1>1 DEF NoKeyLeft, CreateFailed, TypeOK, UniqueKeys, TableEnds, TableInv, ScanInv, Cached
<1>2. ASSUME NEW p \in Proc, put2PidQueue(p) PROVE KeysInv'
  <2>1. msgKey \in MsgKey
    BY <1>2 DEF put2PidQueue, TableInv, Cached
  <2>2. TypeOK'
    BY <1>2, <2>1 DEF put2PidQueue, TypeOK
  <2>3. /\ \A q \in Proc : pidQueue'[q] = IF q = p THEN msgKey ELSE pidQueue[q]
        /\ UNCHANGED <<keyCache, msgKey>> /\ at = "create" /\ at' = "idle"
    BY <1>2 DEF put2PidQueue, TypeOK
  <2>4. UniqueKeys'
    BY <2>3 DEF UniqueKeys
  <2>5. TableEnds' /\ TableInv' /\ ScanInv'
    BY <2>3 DEF TableEnds, TableInv, ScanInv, Cached
  <2> QED
    BY <2>2, <2>4, <2>5
<1> QED
  BY <1>1, <1>2

LEMMA StepDel == ASSUME NEW p \in Proc PROVE KeysInv /\ delOpsByPid(p) => KeysInv'
<1> SUFFICES ASSUME KeysInv, delOpsByPid(p) PROVE KeysInv'
  OBVIOUS
<1> USE DEF KeysInv
<1> DEFINE key == pidQueue[p]
<1>0. /\ key \in MsgKey /\ key # End /\ key # Hole
      /\ UNCHANGED <<at, i, j, empty, msgKey, spare>>
      /\ keyCache \in [Slot -> MsgKey \cup {End, Hole}]
      /\ \A q \in Proc : pidQueue'[q] = IF q = p THEN NoEntry ELSE pidQueue[q]
      /\ Hole \notin MsgKey /\ Hole # End
  BY DEF delOpsByPid, TypeOK, MsgKey, End, Hole
<1>1. /\ keyCache' \in [Slot -> MsgKey \cup {End, Hole}]
      /\ \A s \in Slot : keyCache'[s] = IF keyCache[s] = key THEN Hole ELSE keyCache[s]
  <2>1. keyCache' = delMsgKey(key)
    BY DEF delOpsByPid
  <2>2. \A s \in Slot : keyCache'[s] = IF keyCache[s] = key THEN Hole ELSE keyCache[s]
    BY <1>0, <2>1, Freed
  <2> QED
    BY <1>0, <2>1, <2>2 DEF delMsgKey
<1> HIDE DEF key
<1>2. TypeOK'
  BY <1>0, <1>1 DEF TypeOK, delOpsByPid
<1>3. Cached' = Cached \ {key}
  BY <1>0, <1>1 DEF Cached
<1>4. \A q \in Proc : q # p => pidQueue[q] # key
  BY <1>0 DEF UniqueKeys, key, End, NoEntry
<1>5. at = "create" => msgKey # key
  BY DEF UniqueKeys, key
<1>6. UniqueKeys' /\ TableEnds'
  <2>1. UniqueKeys'
    <3>1. msgKey # NoEntry
      BY DEF TypeOK, MsgKey, NoEntry
    <3> QED
      BY <1>0, <3>1 DEF UniqueKeys
  <2>2. TableEnds'
    BY <1>0, <1>1 DEF TableEnds
  <2> QED
    BY <2>1, <2>2
<1>7. TableInv'
  <2>1. \A s, t \in Slot : s < t /\ keyCache'[s] = End => keyCache'[t] = End
    BY <1>0, <1>1 DEF TableInv
  <2>2. \A s, t \in Slot : keyCache'[s] \in MsgKey /\ keyCache'[s] = keyCache'[t] => s = t
    BY <1>0, <1>1 DEF TableInv
  <2> QED
    BY <1>0, <1>3, <1>4, <1>5, <2>1, <2>2 DEF TableInv
<1>8. ASSUME at = "scan" PROVE ScanInv'
  <2>0. \A s \in 0 .. j - 1 : s \in Slot
    BY Widths DEF TypeOK, Slot
  <2>1. \A s \in 0 .. j - 1 : keyCache'[s] \notin {i, End}
    <3>1. Hole # i
      BY Widths DEF TypeOK, Hole
    <3> QED
      BY <1>0, <1>1, <1>8, <2>0, <3>1 DEF ScanInv
  <2>2. empty # NoSlot => keyCache'[empty] = Hole
    BY <1>0, <1>1, <1>8 DEF ScanInv, TypeOK
  <2>3. ASSUME empty = NoSlot PROVE ReadDistinct'
    <3>1. PICK read \in [0 .. j - 1 -> MsgKey \ {i}] :
             \A s \in 0 .. j - 1 :
                /\ keyCache[s] \in {read[s], Hole}
                /\ \A t \in Slot : keyCache[t] = read[s] => t = s
                /\ \A t \in 0 .. j - 1 : read[t] = read[s] => t = s
      BY <1>8, <2>3 DEF ScanInv, ReadDistinct
    <3>2. \A s \in 0 .. j - 1 : read[s] # Hole
      BY <1>0
    <3>3. \A s \in 0 .. j - 1 :
             /\ keyCache'[s] \in {read[s], Hole}
             /\ \A t \in Slot : keyCache'[t] = read[s] => t = s
      BY <1>0, <1>1, <2>0, <3>1, <3>2
    <3>4. read \in [0 .. j' - 1 -> MsgKey \ {i'}] /\ j' = j
      BY <1>0, <3>1
    <3>5. \A s \in 0 .. j' - 1 :
             /\ keyCache'[s] \in {read[s], Hole}
             /\ \A t \in Slot : keyCache'[t] = read[s] => t = s
             /\ \A t \in 0 .. j' - 1 : read[t] = read[s] => t = s
      BY <3>1, <3>3, <3>4
    <3> QED
      BY <3>4, <3>5 DEF ReadDistinct
  <2> QED
    BY <1>0, <1>3, <1>8, <2>1, <2>2, <2>3 DEF ScanInv
<1> QED
  BY <1>0, <1>2, <1>6, <1>7, <1>8 DEF ScanInv

LEMMA StepKeys == KeysInv /\ [KeysNext]_keysVars => KeysInv'
<1> SUFFICES ASSUME KeysInv, [KeysNext]_keysVars PROVE KeysInv'
  OBVIOUS
<1>1. CASE UNCHANGED keysVars
  BY <1>1 DEF keysVars, KeysInv, TypeOK, UniqueKeys, TableEnds, TableInv, ScanInv, ReadDistinct, Cached
<1> QED
  BY <1>1, StepCreate, StepKeyUsed, StepNextSlot, StepKeyFound, StepReturn, StepDel DEF KeysNext

LEMMA KeysAlways == KeysSpec => []KeysInv
BY InitKeys, StepKeys, PTL DEF KeysSpec

\* No two processes ever have the same message key, for any number of keys and
\* children and wherever the signal handler interrupts getMsgKey.
THEOREM UniqueKeysSafe == KeysSpec => []UniqueKeys
<1>1. KeysInv => UniqueKeys
  BY DEF KeysInv
<1> QED
  BY <1>1, KeysAlways, PTL

\* The table of keys never fills: the loop of getMsgKey meets the slot that ends it.
THEOREM TableEndsSafe == KeysSpec => []TableEnds
<1>1. KeysInv => TableEnds
  BY DEF KeysInv
<1> QED
  BY <1>1, KeysAlways, PTL

\* getMsgKey fails only when every key was in use when it was called.
THEOREM FreeKeyFoundSafe == KeysSpec => []FreeKeyFound
<1>1. KeysInv => FreeKeyFound
  <2> SUFFICES ASSUME KeysInv, at = "scan", i > LastKey PROVE spare = {}
    BY DEF FreeKeyFound
  <2>1. \A k \in spare : k \in 1 .. LastKey /\ k >= i
    BY DEF KeysInv, ScanInv, TypeOK, MsgKey
  <2> QED
    BY <2>1, Widths DEF KeysInv, TypeOK
<1> QED
  BY <1>1, KeysAlways, PTL

-----------------------------------------------------------------------------
(* The users of a video buffer                                             *)

Using == {"run", "init", "loop", "leave"}
Users(b) == {t \in Thread : Uses(t, b)}
Frame == [obj : Object \cup {NULL}, val : Nat, used : Nat]

PreviewType ==
    /\ videoShm \in [Object -> Shm \cup {NULL}]
    /\ useMax \in [Shm -> Nat] /\ queue \in [Shm -> Seq(Node)] /\ mem \in [Node -> Frame]
    /\ pc \in [Thread -> Using \cup {"none", "begin", "mark", "user", "release", "clear", "free"}]
    /\ obj \in [Thread -> Object \cup {NULL}] /\ shm \in [Thread -> Shm \cup {NULL}]
    /\ hand \in [Thread -> Node \cup {NULL}] /\ most \in [Thread -> Nat]
    /\ wnode \in [Object -> Node \cup {NULL}] /\ wshm \in [Object -> Shm \cup {NULL}]

\* A thread has an object, and from "user" on a buffer, which is in videoShm first and
\* in its own hands later; the callback has the buffer of its frame.
Placed ==
    /\ \A t \in Thread : /\ pc[t] # "none" => obj[t] \in Object
                         /\ pc[t] = "user" => videoShm[obj[t]] \in Shm
                         /\ pc[t] \in Using \cup {"mark", "release", "clear"} => shm[t] \in Shm
    /\ \A o \in Object : wnode[o] # NULL => wshm[o] \in Shm

PreviewShape == PreviewType /\ Placed

LEMMA FrameType ==
    /\ NoFrame \in Frame
    /\ \A o \in Object : [obj |-> o, val |-> 0, used |-> 0] \in Frame
    /\ \A f \in Frame : /\ [f EXCEPT !.val = f.val + 1] \in Frame
                        /\ [f EXCEPT !.used = f.used + 1] \in Frame
    BY DEF Frame, NoFrame, NULL

LEMMA ShmUser ==
    ASSUME PreviewType, NEW b \in Shm, NEW n \in {1, -1}, setShmUser(b, n)
    PROVE  /\ useMax' \in [Shm -> Nat] /\ mem' \in [Node -> Frame] /\ queue' \in [Shm -> Seq(Node)]
           /\ useMax'[b] = Counted(b, n) /\ \A c \in Shm : c # b => useMax'[c] = useMax[c]
           /\ mem' = Flushed(b) /\ queue' = [queue EXCEPT ![b] = <<>>]
  <1>1. useMax \in [Shm -> Nat] /\ mem \in [Node -> Frame] /\ queue \in [Shm -> Seq(Node)]
    BY DEF PreviewType
  <1>2. Counted(b, n) \in Nat
    BY <1>1 DEF Counted
  <1>3. useMax' = [useMax EXCEPT ![b] = Counted(b, n)] /\ mem' = Flushed(b)
        /\ queue' = [queue EXCEPT ![b] = <<>>]
    BY DEF setShmUser
  <1>4. Flushed(b) \in [Node -> Frame]
    BY <1>1 DEF Flushed, Frame, NoFrame, NULL
  <1>5. queue' \in [Shm -> Seq(Node)]
    BY <1>1, <1>3
  <1> HIDE DEF Counted, Flushed, Frame
  <1> QED
    BY <1>1, <1>2, <1>3, <1>4, <1>5

\* Requests, TaskBeat and the callback.
LEMMA OthersShape ==
    ASSUME PreviewShape, NEW o \in Object,
           request_preview(o) \/ BeatStep(o) \/ CallbackStep(o)
    PROVE  PreviewShape'
  <1>1. CASE request_preview(o) \/ preview_stop(o) \/ rtsp_callback(o)
    <2>1. UNCHANGED <<videoShm, buffers, threads, writers>>
      BY <1>1 DEF request_preview, preview_stop, rtsp_callback
    <2> QED
      BY <2>1 DEF PreviewShape, PreviewType, Placed, buffers, threads, writers
  <1>2. CASE preview_start(o)
    <2>1. PICK t \in Thread : /\ pc[t] = "none" /\ pc' = [pc EXCEPT ![t] = "begin"]
                              /\ obj' = [obj EXCEPT ![t] = o]
      BY <1>2 DEF preview_start
    <2>2. UNCHANGED <<videoShm, buffers, shm, hand, most, writers>>
      BY <1>2 DEF preview_start
    <2> QED
      BY <2>1, <2>2 DEF PreviewShape, PreviewType, Placed, buffers, writers, Using
  <1>3. CASE copyToShm(o)
    <2>1. PICK n \in Node : /\ mem' = [mem EXCEPT ![n] = [obj |-> o, val |-> 0, used |-> 0]]
                            /\ wnode' = [wnode EXCEPT ![o] = n]
      BY <1>3 DEF copyToShm
    <2>2. /\ UNCHANGED <<videoShm, useMax, queue, threads>>
          /\ wshm' = [wshm EXCEPT ![o] = videoShm[o]] /\ videoShm[o] # NULL
      BY <1>3 DEF copyToShm, Wanted, task
    <2>3. videoShm[o] \in Shm
      BY <2>2 DEF PreviewShape, PreviewType
    <2>4. mem' \in [Node -> Frame]
      BY <2>1 DEF PreviewShape, PreviewType, Frame
    <2> QED
      BY <2>1, <2>2, <2>3, <2>4 DEF PreviewShape, PreviewType, Placed, threads
  <1>4. CASE putToShmQueue(o)
    <2>1. wshm[o] \in Shm /\ wnode[o] \in Node
      BY <1>4 DEF putToShmQueue, PreviewShape, PreviewType, Placed
    <2>2. /\ UNCHANGED <<videoShm, useMax, threads>>
          /\ wnode' = [wnode EXCEPT ![o] = NULL] /\ wshm' = [wshm EXCEPT ![o] = NULL]
          /\ \/ queue' = [queue EXCEPT ![wshm[o]] = Append(@, wnode[o])] /\ UNCHANGED mem
             \/ mem' = [mem EXCEPT ![wnode[o]] = NoFrame] /\ UNCHANGED queue
      BY <1>4 DEF putToShmQueue
    <2>3. mem' \in [Node -> Frame]
      BY <2>1, <2>2, FrameType DEF PreviewShape, PreviewType
    <2>4. queue' \in [Shm -> Seq(Node)]
      <3>1. queue \in [Shm -> Seq(Node)] /\ queue[wshm[o]] \in Seq(Node)
        BY <2>1 DEF PreviewShape, PreviewType
      <3>2. Append(queue[wshm[o]], wnode[o]) \in Seq(Node)
        BY <2>1, <3>1, AppendProperties
      <3> QED
        BY <2>2, <3>1, <3>2
    <2> QED
      BY <2>2, <2>3, <2>4 DEF PreviewShape, PreviewType, Placed, threads
  <1> QED
    BY <1>1, <1>2, <1>3, <1>4 DEF BeatStep, CallbackStep

LEMMA ThreadShape ==
    ASSUME PreviewShape, NEW t \in Thread,
           ThreadStep(t) \/ previewLoopEnd(t) \/ previewInitFailed(t)
    PROVE  PreviewShape'
  <1> USE DEF PreviewShape
  <1>1. CASE allocVideoShm(t)
    <2>1. UNCHANGED <<task, buffers, obj, hand, most, writers>> /\ pc[t] = "begin"
          /\ \/ videoShm[obj[t]] # NULL /\ Go(t, "user") /\ shm' = shm
             \/ Go(t, "mark") /\ \E b \in Shm : shm' = [shm EXCEPT ![t] = b]
      BY <1>1 DEF allocVideoShm, FreeShm
    <2>2. obj[t] \in Object
      BY <2>1 DEF Placed
    <2> QED
      BY <2>1, <2>2 DEF Go, PreviewType, Placed, task, buffers, writers, Using
  <1>2. CASE allocFailed(t) \/ freeArgs(t)
    <2>1. UNCHANGED <<videoShm, buffers, hand, most, wnode, wshm>>
          /\ pc' = [pc EXCEPT ![t] = "none"] /\ obj' = [obj EXCEPT ![t] = NULL]
          /\ shm' = [shm EXCEPT ![t] = NULL]
      BY <1>2 DEF allocFailed, freeArgs, Gone, task, writers
    <2> QED
      BY <2>1 DEF PreviewType, Placed, buffers, Using
  <1>3. CASE getFreeShm(t)
    <2>1. UNCHANGED <<useMax, queue, mem, obj, shm, hand, most, writers>> /\ pc[t] = "mark"
          /\ videoShm' = [videoShm EXCEPT ![obj[t]] = shm[t]] /\ pc' = [pc EXCEPT ![t] = "user"]
      BY <1>3 DEF getFreeShm, Go
    <2>2. obj[t] \in Object /\ shm[t] \in Shm
      BY <2>1 DEF Placed
    <2> QED
      BY <2>1, <2>2 DEF PreviewType, Placed, writers, Using
  <1>4. CASE JoinShm(t)
    <2>1. UNCHANGED <<task, obj, hand, most, writers>> /\ pc[t] = "user"
          /\ shm' = [shm EXCEPT ![t] = videoShm[obj[t]]] /\ pc' = [pc EXCEPT ![t] = "run"]
          /\ setShmUser(videoShm[obj[t]], 1)
      BY <1>4 DEF JoinShm, Go
    <2>2. obj[t] \in Object /\ videoShm[obj[t]] \in Shm
      BY <2>1 DEF Placed
    <2>3. useMax' \in [Shm -> Nat] /\ mem' \in [Node -> Frame] /\ queue' \in [Shm -> Seq(Node)]
      BY <2>1, <2>2, ShmUser
    <2> QED
      BY <2>1, <2>2, <2>3 DEF PreviewType, Placed, task, writers, Using
  <1>5. CASE Run(t) \/ previewInit(t) \/ previewLoopEnd(t) \/ previewInitFailed(t)
    <2>1. UNCHANGED <<videoShm, buffers, obj, shm, hand, most, writers>>
          /\ pc[t] \in Using /\ \E place \in Using : pc' = [pc EXCEPT ![t] = place]
      BY <1>5 DEF Run, previewInit, previewLoopEnd, previewInitFailed, Go, task, Using
    <2> QED
      BY <2>1 DEF PreviewType, Placed, buffers, writers, Using
  <1>6. CASE copyFromShmWithUser(t)
    <2> DEFINE b == shm[t]
               n == Head(queue[b])
    <2>1. /\ UNCHANGED <<task, useMax, pc, obj, shm, writers>> /\ pc[t] = "loop"
          /\ queue[b] # <<>> /\ hand' = [hand EXCEPT ![t] = n]
          /\ mem' = [mem EXCEPT ![n].val = mem[n].val + 1]
          /\ queue' = queue \/ queue' = [queue EXCEPT ![b] = Tail(@)]
          /\ most' = [most EXCEPT ![t] = useMax[b]]
      BY <1>6 DEF copyFromShmWithUser, Taken
    <2>2. b \in Shm
      BY <2>1 DEF Placed, Using
    <2>3. queue[b] \in Seq(Node) /\ n \in Node /\ Tail(queue[b]) \in Seq(Node)
      <3>1. queue[b] \in Seq(Node) /\ queue[b] # <<>>
        BY <2>1, <2>2 DEF PreviewType
      <3> QED
        BY <3>1, HeadTailProperties
    <2> HIDE DEF b, n
    <2>4. mem' \in [Node -> Frame]
      <3>1. mem \in [Node -> Frame] /\ mem[n] \in Frame
        BY <2>3 DEF PreviewType
      <3>2. mem' = [mem EXCEPT ![n] = [mem[n] EXCEPT !.val = mem[n].val + 1]]
        BY <2>1
      <3> QED
        BY <3>1, <3>2, FrameType
    <2>5. queue' \in [Shm -> Seq(Node)] /\ most' \in [Thread -> Nat]
          /\ hand' \in [Thread -> Node \cup {NULL}]
      BY <2>1, <2>2, <2>3 DEF PreviewType
    <2> QED
      BY <2>1, <2>4, <2>5 DEF PreviewType, Placed, task, writers
  <1>7. CASE read_video_packet(t)
    <2>1. /\ UNCHANGED <<task, useMax, queue, pc, obj, shm, writers>>
          /\ hand[t] # NULL /\ hand' = [hand EXCEPT ![t] = NULL] /\ most' = [most EXCEPT ![t] = 0]
          /\ \/ mem' = mem
             \/ mem' = [mem EXCEPT ![hand[t]] = NoFrame]
             \/ mem' = [mem EXCEPT ![hand[t]].used = @ + 1]
      BY <1>7 DEF read_video_packet
    <2>2. mem' \in [Node -> Frame]
      <3>1. mem \in [Node -> Frame] /\ hand[t] \in Node /\ mem[hand[t]] \in Frame
        BY <2>1 DEF PreviewType
      <3>2. \/ mem' = mem
            \/ mem' = [mem EXCEPT ![hand[t]] = NoFrame]
            \/ mem' = [mem EXCEPT ![hand[t]] = [mem[hand[t]] EXCEPT !.used = mem[hand[t]].used + 1]]
        BY <2>1
      <3> QED
        BY <3>1, <3>2, FrameType
    <2> QED
      BY <2>1, <2>2 DEF PreviewType, Placed, task, writers
  <1>8. CASE LeaveShm(t)
    <2>1. UNCHANGED <<task, obj, shm, hand, most, writers>> /\ pc[t] = "leave"
          /\ pc' = [pc EXCEPT ![t] = "release"] /\ setShmUser(shm[t], -1)
      BY <1>8 DEF LeaveShm, Go
    <2>2. shm[t] \in Shm
      BY <2>1 DEF Placed, Using
    <2>3. useMax' \in [Shm -> Nat] /\ mem' \in [Node -> Frame] /\ queue' \in [Shm -> Seq(Node)]
      BY <2>1, <2>2, ShmUser
    <2> QED
      BY <2>1, <2>2, <2>3 DEF PreviewType, Placed, task, writers, Using
  <1>9. CASE Unused(t)
    <2>1. UNCHANGED <<task, buffers, obj, shm, hand, most, writers>> /\ pc[t] = "release"
          /\ \E place \in {"clear", "free"} : pc' = [pc EXCEPT ![t] = place]
      BY <1>9 DEF Unused, Go
    <2> QED
      BY <2>1 DEF PreviewType, Placed, task, buffers, writers, Using
  <1>10. CASE releaseShm(t)
    <2>1. UNCHANGED <<task, useMax, obj, shm, hand, most, writers>> /\ pc[t] = "clear"
          /\ pc' = [pc EXCEPT ![t] = "free"] /\ mem' = Flushed(shm[t])
          /\ queue' = [queue EXCEPT ![shm[t]] = <<>>]
      BY <1>10 DEF releaseShm, Go
    <2>2. mem' \in [Node -> Frame]
      BY <2>1, FrameType DEF PreviewType, Flushed
    <2>3. queue' \in [Shm -> Seq(Node)]
      <3>1. queue \in [Shm -> Seq(Node)] /\ shm[t] \in Shm
        BY <2>1 DEF PreviewType, Placed
      <3>2. queue' = [queue EXCEPT ![shm[t]] = <<>>] /\ <<>> \in Seq(Node)
        BY <2>1
      <3> QED
        BY <3>1, <3>2
    <2> QED
      BY <2>1, <2>2, <2>3 DEF PreviewType, Placed, task, writers, Using
  <1> QED
    BY <1>1, <1>2, <1>3, <1>4, <1>5, <1>6, <1>7, <1>8, <1>9, <1>10 DEF ThreadStep

LEMMA PreviewShapeInit == Init => PreviewShape
  <1> SUFFICES ASSUME Init PROVE PreviewShape
    OBVIOUS
  <1>1. PreviewType
    BY DEF Init, PreviewType, Frame, NoFrame, NULL
  <1> QED
    BY <1>1 DEF Init, PreviewShape, Placed, Using

LEMMA PreviewShapeStep == PreviewShape /\ [Next]_vars => PreviewShape'
  <1>1. ASSUME PreviewShape, UNCHANGED vars PROVE PreviewShape'
    BY <1>1 DEF vars, task, buffers, threads, writers, PreviewShape, PreviewType, Placed
  <1> QED
    BY <1>1, OthersShape, ThreadShape DEF Next

-----------------------------------------------------------------------------
(* useMax of a buffer is the number of threads between JoinShm and LeaveShm.   *)

UsesStay == \A t \in Thread : \/ pc'[t] = pc[t] /\ shm'[t] = shm[t]
                              \/ pc[t] \notin Using /\ pc'[t] \notin Using
                              \/ pc[t] \in Using /\ pc'[t] \in Using /\ shm'[t] = shm[t]

\* Whoever uses a buffer goes on, or nobody's use of it changes otherwise.
LEMMA UsersStay ==
    ASSUME PreviewShape, useMax' = useMax, UserCount,
           UsesStay
    PROVE  UserCount' /\ \A t \in Thread : \A b : Uses(t, b)' <=> Uses(t, b)
  <1>1. \A t \in Thread : \A b : Uses(t, b)' <=> Uses(t, b)
    BY DEF Uses, Using, UsesStay
  <1>2. \A b : {t \in Thread : Uses(t, b)}' = {t \in Thread : Uses(t, b)}
    BY <1>1
  <1> QED
    BY <1>1, <1>2 DEF UserCount

LEMMA JoinCount ==
    ASSUME PreviewShape, UserCount, NEW t \in Thread, JoinShm(t)
    PROVE  /\ UserCount' /\ videoShm[obj[t]] \in Shm
           /\ \A u \in Thread : \A b : Uses(u, b)' <=>
                 Uses(u, b) \/ (u = t /\ b = videoShm[obj[t]])
  <1>1. pc[t] = "user" /\ videoShm[obj[t]] \in Shm
    BY DEF JoinShm, PreviewShape, Placed, Using
  <1>0. PICK v \in Shm : v = videoShm[obj[t]]
    BY <1>1
  <1>2. shm' = [shm EXCEPT ![t] = v] /\ pc' = [pc EXCEPT ![t] = "run"] /\ setShmUser(v, 1)
    BY <1>0 DEF JoinShm, Go
  <1>3. \A u \in Thread : \A b : Uses(u, b)' <=> Uses(u, b) \/ (u = t /\ b = v)
    BY <1>0, <1>1, <1>2 DEF Uses, PreviewShape, PreviewType
  <1>4. ~Uses(t, v)
    BY <1>0, <1>1 DEF Uses
  <1>5. useMax'[v] = Counted(v, 1) /\ \A c \in Shm : c # v => useMax'[c] = useMax[c]
    BY <1>1, <1>2, ShmUser DEF PreviewShape
  <1>6. Users(v)' = Users(v) \cup {t} /\ t \notin Users(v) /\ \A c \in Shm : c # v => Users(c)' = Users(c)
    BY <1>3, <1>4 DEF Users
  <1>7. IsFiniteSet(Users(v)) /\ Cardinality(Users(v)) \in Nat
    BY PreviewAssumption, FS_Subset, FS_CardinalityType DEF Users
  <1>8. Cardinality(Users(v)') = Cardinality(Users(v)) + 1
    BY <1>6, <1>7, FS_AddElement
  <1>9. \A b \in Shm : useMax[b] = Cardinality(Users(b))
    BY DEF UserCount, Users
  <1>10. useMax'[v] = Cardinality(Users(v)')
    BY <1>1, <1>5, <1>7, <1>8, <1>9 DEF Counted
  <1>11. \A b \in Shm : useMax'[b] = Cardinality(Users(b)')
    BY <1>5, <1>6, <1>9, <1>10
  <1> QED
    BY <1>0, <1>1, <1>3, <1>11 DEF UserCount, Users

LEMMA LeaveCount ==
    ASSUME PreviewShape, UserCount, NEW t \in Thread, LeaveShm(t)
    PROVE  /\ UserCount' /\ shm[t] \in Shm
           /\ \A u \in Thread : \A b : Uses(u, b)' <=> Uses(u, b) /\ u # t
  <1>1. pc[t] = "leave" /\ shm[t] \in Shm
    BY DEF LeaveShm, PreviewShape, Placed, Using
  <1>0. PICK v \in Shm : v = shm[t]
    BY <1>1
  <1>2. shm' = shm /\ pc' = [pc EXCEPT ![t] = "release"] /\ setShmUser(v, -1)
    BY <1>0 DEF LeaveShm, Go
  <1>3. \A u \in Thread : \A b : Uses(u, b)' <=> Uses(u, b) /\ u # t
    BY <1>2 DEF Uses, PreviewShape, PreviewType
  <1>4. Uses(t, v) /\ \A b : Uses(t, b) => b = v
    BY <1>0, <1>1 DEF Uses
  <1>5. useMax'[v] = Counted(v, -1) /\ \A c \in Shm : c # v => useMax'[c] = useMax[c]
    BY <1>1, <1>2, ShmUser DEF PreviewShape
  <1>6. Users(v)' = Users(v) \ {t} /\ t \in Users(v) /\ \A c \in Shm : c # v => Users(c)' = Users(c)
    BY <1>3, <1>4 DEF Users
  <1>7. IsFiniteSet(Users(v)) /\ Cardinality(Users(v)) \in Nat
    BY PreviewAssumption, FS_Subset, FS_CardinalityType DEF Users
  <1>8. Cardinality(Users(v)') = Cardinality(Users(v)) - 1 /\ Cardinality(Users(v)') \in Nat
    BY <1>6, <1>7, FS_RemoveElement, FS_CardinalityType
  <1>9. \A b \in Shm : useMax[b] = Cardinality(Users(b))
    BY DEF UserCount, Users
  <1>10. useMax'[v] = Cardinality(Users(v)')
    BY <1>1, <1>5, <1>7, <1>8, <1>9 DEF Counted
  <1>11. \A b \in Shm : useMax'[b] = Cardinality(Users(b)')
    BY <1>5, <1>6, <1>9, <1>10
  <1> QED
    BY <1>0, <1>1, <1>3, <1>11 DEF UserCount, Users

\* Every other step leaves the users and the numbers alone.
LEMMA OtherCount ==
    ASSUME PreviewShape, UserCount, [Next]_vars,
           \A t \in Thread : ~JoinShm(t) /\ ~LeaveShm(t)
    PROVE  UserCount' /\ \A t \in Thread : \A b : Uses(t, b)' <=> Uses(t, b)
  <1>1. pc \in [Thread -> Using \cup {"none", "begin", "mark", "user", "release", "clear", "free"}]
        /\ shm \in [Thread -> Shm \cup {NULL}]
    BY DEF PreviewShape, PreviewType
  <1>2. CASE \/ UNCHANGED vars
             \/ \E o \in Object : \/ request_preview(o) \/ preview_stop(o) \/ CallbackStep(o)
             \/ \E t \in Thread : copyFromShmWithUser(t) \/ read_video_packet(t)
    <2>1. UNCHANGED <<useMax, pc, shm>>
      BY <1>2 DEF vars, request_preview, preview_stop, CallbackStep, copyToShm, putToShmQueue,
         rtsp_callback, copyFromShmWithUser, read_video_packet, buffers, threads
    <2> QED
      BY <2>1, UsersStay DEF UsesStay
  <1>3. CASE \E o \in Object : preview_start(o)
    <2>1. UNCHANGED <<useMax, shm>>
          /\ \E t \in Thread : pc[t] = "none" /\ pc' = [pc EXCEPT ![t] = "begin"]
      BY <1>3 DEF preview_start, buffers
    <2> QED
      <3>1. UsesStay
        BY <1>1, <2>1 DEF UsesStay, Using
      <3> QED
        BY <2>1, <3>1, UsersStay
  <1>4. CASE \E t \in Thread : \/ allocVideoShm(t) \/ allocFailed(t) \/ getFreeShm(t) \/ Unused(t)
                               \/ releaseShm(t) \/ freeArgs(t)
    <2>1. PICK t \in Thread : \/ allocVideoShm(t) \/ allocFailed(t) \/ getFreeShm(t) \/ Unused(t)
                              \/ releaseShm(t) \/ freeArgs(t)
      BY <1>4
    <2>2. /\ useMax' = useMax /\ pc[t] \notin Using
          /\ \E place \in {"none", "mark", "user", "clear", "free"} : pc' = [pc EXCEPT ![t] = place]
          /\ shm' = shm \/ \E b : shm' = [shm EXCEPT ![t] = b]
      BY <2>1 DEF allocVideoShm, allocFailed, getFreeShm, Unused, releaseShm, freeArgs, Gone, Go,
         buffers, Using
    <2> QED
      <3>1. UsesStay
        BY <1>1, <2>2 DEF UsesStay, Using
      <3> QED
        BY <2>2, <3>1, UsersStay
  <1>5. CASE \E t \in Thread : \/ Run(t) \/ previewInit(t) \/ previewLoopEnd(t)
                               \/ previewInitFailed(t)
    <2>1. PICK t \in Thread : Run(t) \/ previewInit(t) \/ previewLoopEnd(t) \/ previewInitFailed(t)
      BY <1>5
    <2>2. /\ UNCHANGED <<useMax, shm>> /\ pc[t] \in Using
          /\ \E place \in Using : pc' = [pc EXCEPT ![t] = place]
      BY <2>1 DEF Run, previewInit, previewLoopEnd, previewInitFailed, Go, buffers, Using
    <2> QED
      <3>1. UsesStay
        BY <1>1, <2>2 DEF UsesStay
      <3> QED
        BY <2>2, <3>1, UsersStay
  <1> QED
    BY <1>2, <1>3, <1>4, <1>5 DEF Next, ThreadStep, BeatStep

LEMMA UserInit == Init => UserCount
  <1> SUFFICES ASSUME Init PROVE UserCount
    OBVIOUS
  <1>1. \A b : {t \in Thread : Uses(t, b)} = {}
    BY DEF Init, Uses
  <1> QED
    BY <1>1, FS_EmptySet DEF Init, UserCount

LEMMA UserStep == PreviewShape /\ UserCount /\ [Next]_vars => UserCount'
  BY JoinCount, LeaveCount, OtherCount

\* useMax of a video buffer is the number of threads that use it, for any number of
\* objects, threads and buffers, and also when a buffer is given out twice or handed
\* over while it is in use: setShmUser runs under the mutex of the buffer, and a
\* thread leaves the buffer it joined.
THEOREM UserCountSafe == Spec => []UserCount
  BY PreviewShapeInit, UserInit, PreviewShapeStep, UserStep, PTL DEF Spec

-----------------------------------------------------------------------------
(* A frame is in one place.  While no two threads have used a buffer at a time, *)
(* a reader is the only one of its buffer: useMax is 1, so it takes the frame   *)
(* off the queue, and is the one that frees it.                                 *)

LEMMA AppendFrame ==
    ASSUME NEW S, NEW q \in Seq(S), NEW e \in S, IsInjective(q), ~Contains(q, e)
    PROVE  /\ IsInjective(Append(q, e))
           /\ \A x : Contains(Append(q, e), x) <=> Contains(q, x) \/ x = e
  <1> DEFINE r == Append(q, e)
  <1>1. /\ r \in Seq(S) /\ Len(r) = Len(q) + 1 /\ r[Len(q) + 1] = e
        /\ \A k \in 1 .. Len(q) : r[k] = q[k]
    BY AppendProperties
  <1>2. Len(q) \in Nat /\ DOMAIN q = 1 .. Len(q) /\ DOMAIN r = 1 .. Len(r)
    BY <1>1, LenProperties
  <1> HIDE DEF r
  <1>3. IsInjective(r)
    BY <1>1, <1>2 DEF IsInjective, Contains
  <1>4. \A x : Contains(r, x) <=> Contains(q, x) \/ x = e
    BY <1>1, <1>2 DEF Contains
  <1> QED
    BY <1>3, <1>4 DEF r

LEMMA TakeFrame ==
    ASSUME NEW S, NEW q \in Seq(S), q # <<>>, IsInjective(q)
    PROVE  /\ IsInjective(Tail(q)) /\ Contains(q, Head(q))
           /\ \A x : Contains(Tail(q), x) <=> Contains(q, x) /\ x # Head(q)
  <1> DEFINE r == Tail(q)
  <1>1. /\ r \in Seq(S) /\ Len(r) = Len(q) - 1 /\ Head(q) = q[1]
        /\ \A k \in 1 .. Len(r) : r[k] = q[k + 1]
    BY HeadTailProperties
  <1>2. Len(q) \in Nat \ {0} /\ DOMAIN q = 1 .. Len(q) /\ DOMAIN r = 1 .. Len(q) - 1
    BY <1>1, LenProperties, EmptySeq
  <1> HIDE DEF r
  <1>3. IsInjective(r)
    BY <1>1, <1>2 DEF IsInjective
  <1>4. ASSUME NEW x PROVE Contains(r, x) <=> Contains(q, x) /\ x # Head(q)
    <2>1. Contains(r, x) => Contains(q, x) /\ x # Head(q)
      BY <1>1, <1>2 DEF Contains, IsInjective
    <2>2. ASSUME NEW k \in 1 .. Len(q), q[k] # q[1] PROVE k - 1 \in 1 .. Len(q) - 1 /\ r[k - 1] = q[k]
      BY <1>1, <1>2, <2>2
    <2>3. Contains(q, x) /\ x # Head(q) => Contains(r, x)
      BY <1>1, <1>2, <2>2 DEF Contains
    <2> QED
      BY <2>1, <2>3
  <1>5. Contains(q, Head(q))
    BY <1>1, <1>2 DEF Contains
  <1> QED
    BY <1>3, <1>4, <1>5 DEF r

InQueue(n) == {b \in Shm : Contains(queue[b], n)}
InHand(n) == {t \in Thread : hand[t] = n}
AtWriter(n) == {o \in Object : wnode[o] = n}

Nowhere(n) == InQueue(n) = {} /\ InHand(n) = {} /\ AtWriter(n) = {}

InOnePlace(n) ==
    \/ InHand(n) = {} /\ AtWriter(n) = {} /\ \E b \in Shm : InQueue(n) = {b}
    \/ InQueue(n) = {} /\ AtWriter(n) = {} /\ \E t \in Thread : InHand(n) = {t}
    \/ InQueue(n) = {} /\ InHand(n) = {} /\ \E o \in Object : AtWriter(n) = {o}

Owned(n) == IF mem[n] = NoFrame THEN Nowhere(n) ELSE InOnePlace(n)

\* A buffer has one user, whose frame is nobody else's.
Readers == /\ \A t, u \in Thread, b \in Shm : Uses(t, b) /\ Uses(u, b) => t = u
           /\ \A t \in Thread : hand[t] # NULL => pc[t] = "loop" /\ most[t] = 1

Unshared == /\ Readers
            /\ \A b \in Shm : IsInjective(queue[b])
            /\ \A n \in Node : Owned(n)

\* A frame that a step does not touch.
LEMMA OwnedStays ==
    ASSUME NEW n \in Node, Owned(n), mem'[n] = NoFrame <=> mem[n] = NoFrame,
           \A b \in Shm : Contains(queue'[b], n) <=> Contains(queue[b], n),
           \A t \in Thread : hand'[t] = n <=> hand[t] = n,
           \A o \in Object : wnode'[o] = n <=> wnode[o] = n
    PROVE  Owned(n)'
  <1>1. InQueue(n)' = InQueue(n)
    BY DEF InQueue
  <1>2. InHand(n)' = InHand(n)
    BY DEF InHand
  <1>3. AtWriter(n)' = AtWriter(n)
    BY DEF AtWriter
  <1> QED
    BY <1>1, <1>2, <1>3 DEF Owned, Nowhere, InOnePlace

\* freeShmQueue, whoever it is that calls it.
LEMMA FlushOwned ==
    ASSUME PreviewShape, Unshared, NEW b \in Shm, mem' = Flushed(b),
           queue' = [queue EXCEPT ![b] = <<>>], UNCHANGED <<hand, wnode>>
    PROVE  (\A c \in Shm : IsInjective(queue'[c])) /\ \A n \in Node : Owned(n)'
  <1>1. queue \in [Shm -> Seq(Node)]
    BY DEF PreviewShape, PreviewType
  <1>2. queue'[b] = <<>> /\ \A c \in Shm : c # b => queue'[c] = queue[c]
    BY <1>1
  <1>3. \A c \in Shm : IsInjective(queue'[c])
    BY <1>2 DEF Unshared, IsInjective
  <1>4. \A n : ~Contains(queue'[b], n)
    BY <1>2 DEF Contains
  <1>5. ASSUME NEW n \in Node, Contains(queue[b], n) PROVE Owned(n)'
    <2>1. Owned(n) /\ b \in InQueue(n)
      BY <1>5 DEF Unshared, InQueue
    <2>2. InQueue(n) = {b} /\ InHand(n) = {} /\ AtWriter(n) = {}
      BY <2>1 DEF Owned, Nowhere, InOnePlace
    <2>3. InQueue(n)' = {}
      BY <1>2, <1>4, <2>2 DEF InQueue
    <2>4. InHand(n)' = {} /\ AtWriter(n)' = {}
      BY <2>2 DEF InHand, AtWriter
    <2>5. mem'[n] = NoFrame /\ NoFrame' = NoFrame
      BY <1>5 DEF Flushed, NoFrame
    <2> QED
      BY <2>3, <2>4, <2>5 DEF Owned, Nowhere
  <1>6. ASSUME NEW n \in Node, ~Contains(queue[b], n) PROVE Owned(n)'
    <2>1. mem'[n] = mem[n]
      BY <1>6 DEF Flushed
    <2>2. \A c \in Shm : Contains(queue'[c], n) <=> Contains(queue[c], n)
      BY <1>2, <1>4, <1>6
    <2> QED
      BY <2>1, <2>2, OwnedStays DEF Unshared
  <1> QED
    BY <1>3, <1>5, <1>6

\* The readers and users of a step that takes no frame.
LEMMA ReadersStay ==
    ASSUME Readers, \A t \in Thread : \A b : Uses(t, b)' => Uses(t, b),
           \A t \in Thread : hand'[t] # NULL =>
               /\ hand[t] # NULL /\ most'[t] = most[t]
               /\ pc[t] = "loop" => pc'[t] = "loop"
    PROVE  Readers'
  BY DEF Readers, NULL

\* setShmUser and releaseShm.
LEMMA UserFrames ==
    ASSUME PreviewShape, UserCount, Unshared, "shared" \notin wrong', NEW t \in Thread,
           JoinShm(t) \/ LeaveShm(t) \/ releaseShm(t), [Next]_vars
    PROVE  Unshared'
  <1>1. pc \in [Thread -> Using \cup {"none", "begin", "mark", "user", "release", "clear", "free"}]
        /\ shm \in [Thread -> Shm \cup {NULL}]
    BY DEF PreviewShape, PreviewType
  <1>2. UNCHANGED <<hand, most, wnode>> /\ pc[t] \in {"user", "leave", "clear"}
        /\ \E place \in {"run", "release", "free"} : pc' = [pc EXCEPT ![t] = place]
    BY DEF JoinShm, LeaveShm, releaseShm, Go, writers
  <1>3. \A u \in Thread : hand[u] # NULL => pc'[u] = "loop" /\ most[u] = 1
    BY <1>1, <1>2 DEF Unshared, Readers
  <1>4. PICK b \in Shm : mem' = Flushed(b) /\ queue' = [queue EXCEPT ![b] = <<>>]
    <2>1. CASE JoinShm(t)
      BY <2>1, JoinCount DEF JoinShm, setShmUser
    <2>2. CASE LeaveShm(t)
      BY <2>2, LeaveCount DEF LeaveShm, setShmUser
    <2>3. CASE releaseShm(t)
      BY <2>3 DEF releaseShm, PreviewShape, Placed
    <2> QED
      BY <2>1, <2>2, <2>3
  <1>5. (\A c \in Shm : IsInjective(queue'[c])) /\ \A n \in Node : Owned(n)'
    BY <1>2, <1>4, FlushOwned
  <1>6. \A u, v \in Thread, c \in Shm : Uses(u, c)' /\ Uses(v, c)' => u = v
    <2>1. CASE JoinShm(t)
      <3>1. PICK c \in Shm : c = videoShm[obj[t]]
        BY <2>1, JoinCount
      <3>2. ~\E u \in Thread : Uses(u, c)
        BY <2>1, <3>1 DEF JoinShm, Noted
      <3>3. \A u \in Thread : \A d : Uses(u, d)' <=> Uses(u, d) \/ (u = t /\ d = c)
        BY <2>1, <3>1, JoinCount
      <3> QED
        BY <3>2, <3>3 DEF Unshared, Readers
    <2>2. CASE LeaveShm(t)
      BY <2>2, LeaveCount DEF Unshared, Readers
    <2>3. CASE releaseShm(t)
      <3>1. \A u \in Thread : ~JoinShm(u) /\ ~LeaveShm(u)
        BY <1>1, <2>3 DEF releaseShm, JoinShm, LeaveShm, Go
      <3> QED
        BY <3>1, OtherCount DEF Unshared, Readers
    <2> QED
      BY <2>1, <2>2, <2>3
  <1> QED
    BY <1>2, <1>3, <1>5, <1>6 DEF Unshared, Readers

\* A reader takes a frame off the queue, since it is the only user of the buffer.
LEMMA CopyFrames ==
    ASSUME PreviewShape, UserCount, Unshared, NEW t \in Thread, copyFromShmWithUser(t)
    PROVE  Unshared'
  <1>1. PICK b \in Shm : b = shm[t]
    BY DEF copyFromShmWithUser, PreviewShape, Placed, Using
  <1>2. queue[b] \in Seq(Node) /\ queue[b] # <<>> /\ IsInjective(queue[b])
    BY <1>1 DEF copyFromShmWithUser, PreviewShape, PreviewType, Unshared
  <1>3. PICK n \in Node : n = Head(queue[b])
    BY <1>2, HeadTailProperties
  <1>4. useMax[b] = 1
    <2>1. Users(b) = {t}
      BY <1>1 DEF Users, Uses, copyFromShmWithUser, Unshared, Readers
    <2>2. Cardinality({t}) = 1
      BY FS_Singleton
    <2> QED
      BY <2>1, <2>2 DEF UserCount, Users
  <1>5. mem[n] \in Frame /\ mem[n].val + 1 >= 1
    BY DEF PreviewShape, PreviewType, Frame
  <1>6. /\ queue' = [queue EXCEPT ![b] = Tail(@)] /\ hand' = [hand EXCEPT ![t] = n]
        /\ mem' = [mem EXCEPT ![n].val = mem[n].val + 1] /\ most' = [most EXCEPT ![t] = 1]
        /\ UNCHANGED <<pc, shm, wnode>> /\ pc[t] = "loop" /\ hand[t] = NULL
    BY <1>1, <1>3, <1>4, <1>5 DEF copyFromShmWithUser, Taken, writers
  <1>7. /\ hand \in [Thread -> Node \cup {NULL}] /\ most \in [Thread -> Nat]
        /\ queue \in [Shm -> Seq(Node)] /\ mem \in [Node -> Frame]
    BY DEF PreviewShape, PreviewType
  <1>8. /\ IsInjective(Tail(queue[b])) /\ Contains(queue[b], n)
        /\ \A x : Contains(Tail(queue[b]), x) <=> Contains(queue[b], x) /\ x # n
    BY <1>2, <1>3, TakeFrame
  <1>9. queue'[b] = Tail(queue[b]) /\ \A c \in Shm : c # b => queue'[c] = queue[c]
    BY <1>6, <1>7
  <1>10. \A c \in Shm : IsInjective(queue'[c])
    BY <1>8, <1>9 DEF Unshared
  <1>11. Readers'
    BY <1>6, <1>7 DEF Unshared, Readers, Uses
  <1>12. Owned(n)'
    <2>1. InQueue(n) = {b} /\ InHand(n) = {} /\ AtWriter(n) = {} /\ mem[n] # NoFrame
      <3>1. b \in InQueue(n) /\ Owned(n)
        BY <1>8 DEF InQueue, Unshared
      <3> QED
        BY <3>1 DEF Owned, Nowhere, InOnePlace
    <2>2. InQueue(n)' = {}
      BY <1>8, <1>9, <2>1 DEF InQueue
    <2>3. InHand(n)' = {t}
      BY <1>6, <1>7, <2>1 DEF InHand
    <2>4. AtWriter(n)' = {}
      BY <1>6, <2>1 DEF AtWriter
    <2>5. mem'[n] # NoFrame /\ NoFrame' = NoFrame
      <3>1. mem'[n].val = mem[n].val + 1
        BY <1>5, <1>6, <1>7 DEF Frame
      <3>2. mem[n].val \in Nat /\ NoFrame.val = 0
        BY <1>5 DEF Frame, NoFrame
      <3> QED
        BY <3>1, <3>2 DEF NoFrame
    <2> QED
      BY <2>2, <2>3, <2>4, <2>5 DEF Owned, InOnePlace
  <1>13. ASSUME NEW m \in Node, m # n PROVE Owned(m)'
    <2>1. mem'[m] = mem[m] /\ m # NULL
      BY <1>6, <1>7, <1>13, PreviewAssumption DEF NULL
    <2>2. \A c \in Shm : Contains(queue'[c], m) <=> Contains(queue[c], m)
      BY <1>8, <1>9, <1>13
    <2>3. \A u \in Thread : hand'[u] = m <=> hand[u] = m
      BY <1>6, <1>7, <1>13, <2>1
    <2> QED
      BY <1>6, <2>1, <2>2, <2>3, OwnedStays DEF Unshared
  <1> QED
    BY <1>10, <1>11, <1>12, <1>13 DEF Unshared

\* The reader is the one that frees the frame.
LEMMA ReadFrames ==
    ASSUME PreviewShape, Unshared, NEW t \in Thread, read_video_packet(t)
    PROVE  Unshared'
  <1>1. PICK n \in Node : n = hand[t] /\ n # NULL
    BY DEF read_video_packet, PreviewShape, PreviewType
  <1>2. /\ hand \in [Thread -> Node \cup {NULL}] /\ most \in [Thread -> Nat]
        /\ mem \in [Node -> Frame] /\ mem[n] \in Frame
    BY DEF PreviewShape, PreviewType
  <1>3. InHand(n) = {t} /\ InQueue(n) = {} /\ AtWriter(n) = {} /\ mem[n] # NoFrame
    <2>1. t \in InHand(n) /\ Owned(n)
      BY <1>1 DEF InHand, Unshared
    <2> QED
      BY <2>1 DEF Owned, Nowhere, InOnePlace
  <1>4. LastUse(t)
    <2>1. most[t] = 1 /\ mem[n].used \in Nat
      BY <1>1, <1>2 DEF Unshared, Readers, Frame
    <2> QED
      BY <1>1, <2>1 DEF LastUse
  <1>5. /\ mem' = [mem EXCEPT ![n] = NoFrame] /\ hand' = [hand EXCEPT ![t] = NULL]
        /\ most' = [most EXCEPT ![t] = 0] /\ UNCHANGED <<queue, pc, shm, wnode>>
    BY <1>1, <1>3, <1>4 DEF read_video_packet, writers
  <1>6. Readers'
    BY <1>2, <1>5 DEF Unshared, Readers, Uses
  <1>7. Owned(n)'
    <2>1. mem'[n] = NoFrame /\ NoFrame' = NoFrame
      BY <1>2, <1>5 DEF NoFrame
    <2>2. InHand(n)' = {}
      BY <1>1, <1>2, <1>3, <1>5 DEF InHand
    <2>3. InQueue(n)' = {} /\ AtWriter(n)' = {}
      BY <1>3, <1>5 DEF InQueue, AtWriter
    <2> QED
      BY <2>1, <2>2, <2>3 DEF Owned, Nowhere
  <1>8. ASSUME NEW m \in Node, m # n PROVE Owned(m)'
    <2>1. mem'[m] = mem[m] /\ m # NULL
      BY <1>2, <1>5, <1>8, PreviewAssumption DEF NULL
    <2>2. \A u \in Thread : hand'[u] = m <=> hand[u] = m
      BY <1>1, <1>2, <1>5, <1>8, <2>1
    <2> QED
      BY <1>5, <2>1, <2>2, OwnedStays DEF Unshared
  <1> QED
    BY <1>5, <1>6, <1>7, <1>8 DEF Unshared

\* The callback takes memory for a frame, and puts it into the queue or frees it.
LEMMA CallbackFrames ==
    ASSUME PreviewShape, Unshared, NEW o \in Object, copyToShm(o) \/ putToShmQueue(o)
    PROVE  Unshared'
  <1>0. /\ mem \in [Node -> Frame] /\ wnode \in [Object -> Node \cup {NULL}]
        /\ queue \in [Shm -> Seq(Node)] /\ NULL \notin Object \cup Node
    BY PreviewAssumption DEF PreviewShape, PreviewType, NULL
  <1>1. UNCHANGED <<pc, shm, hand, most>>
    BY DEF copyToShm, putToShmQueue, threads
  <1>2. Readers'
    BY <1>1 DEF Unshared, Readers, Uses
  <1>3. CASE copyToShm(o)
    <2>1. /\ UNCHANGED queue /\ wnode[o] = NULL
          /\ \E n \in Node : /\ mem[n] = NoFrame
                             /\ mem' = [mem EXCEPT ![n] = [obj |-> o, val |-> 0, used |-> 0]]
                             /\ wnode' = [wnode EXCEPT ![o] = n]
      BY <1>3 DEF copyToShm
    <2>2. PICK n \in Node : /\ mem[n] = NoFrame
                            /\ mem' = [mem EXCEPT ![n] = [obj |-> o, val |-> 0, used |-> 0]]
                            /\ wnode' = [wnode EXCEPT ![o] = n]
      BY <2>1
    <2>3. Owned(n)'
      <3>1. InQueue(n) = {} /\ InHand(n) = {} /\ AtWriter(n) = {}
        BY <2>2 DEF Unshared, Owned, Nowhere
      <3>2. AtWriter(n)' = {o}
        BY <1>0, <2>2, <3>1 DEF AtWriter
      <3>3. InQueue(n)' = {} /\ InHand(n)' = {}
        BY <1>1, <2>1, <3>1 DEF InQueue, InHand
      <3>4. mem'[n] # NoFrame'
        BY <1>0, <2>2 DEF NoFrame
      <3> QED
        BY <3>2, <3>3, <3>4 DEF Owned, InOnePlace
    <2>4. ASSUME NEW m \in Node, m # n PROVE Owned(m)'
      <3>1. mem'[m] = mem[m] /\ \A x \in Object : wnode'[x] = m <=> wnode[x] = m
        BY <1>0, <2>1, <2>2, <2>4
      <3> QED
        BY <1>1, <2>1, <3>1, OwnedStays DEF Unshared
    <2> QED
      BY <1>2, <2>1, <2>3, <2>4 DEF Unshared
  <1>4. CASE putToShmQueue(o)
    <2>1. PICK n \in Node, b \in Shm : n = wnode[o] /\ b = wshm[o]
      BY <1>4 DEF putToShmQueue, PreviewShape, PreviewType, Placed
    <2>2. /\ wnode' = [wnode EXCEPT ![o] = NULL]
          /\ \/ queue' = [queue EXCEPT ![b] = Append(@, n)] /\ UNCHANGED mem
             \/ mem' = [mem EXCEPT ![n] = NoFrame] /\ UNCHANGED queue
      BY <1>4, <2>1 DEF putToShmQueue
    <2>3. AtWriter(n) = {o} /\ InQueue(n) = {} /\ InHand(n) = {} /\ mem[n] # NoFrame
      <3>1. o \in AtWriter(n) /\ Owned(n)
        BY <2>1 DEF AtWriter, Unshared
      <3> QED
        BY <3>1 DEF Owned, Nowhere, InOnePlace
    <2>4. /\ AtWriter(n)' = {} /\ InHand(n)' = {}
          /\ \A m \in Node : m # n => \A x \in Object : wnode'[x] = m <=> wnode[x] = m
      <3>1. \A m \in Node : m # n => \A x \in Object : wnode'[x] = m <=> wnode[x] = m
        BY <1>0, <2>1, <2>2
      <3>2. AtWriter(n)' = {}
        BY <1>0, <2>2, <2>3 DEF AtWriter
      <3>3. InHand(n)' = {}
        BY <1>1, <2>3 DEF InHand
      <3> QED
        BY <3>1, <3>2, <3>3
    <2>5. CASE queue' = [queue EXCEPT ![b] = Append(@, n)] /\ UNCHANGED mem
      <3>1. queue[b] \in Seq(Node) /\ IsInjective(queue[b]) /\ ~Contains(queue[b], n)
        BY <1>0, <2>3 DEF Unshared, InQueue
      <3>2. /\ IsInjective(Append(queue[b], n))
            /\ \A x : Contains(Append(queue[b], n), x) <=> Contains(queue[b], x) \/ x = n
        BY <3>1, AppendFrame
      <3>3. queue'[b] = Append(queue[b], n) /\ \A c \in Shm : c # b => queue'[c] = queue[c]
        BY <1>0, <2>5
      <3>4. \A c \in Shm : IsInjective(queue'[c])
        BY <3>2, <3>3 DEF Unshared
      <3>5. InQueue(n)' = {b}
        BY <2>3, <3>2, <3>3 DEF InQueue
      <3>6. mem'[n] # NoFrame'
        BY <2>3, <2>5 DEF NoFrame
      <3>7. Owned(n)'
        BY <2>4, <3>5, <3>6 DEF Owned, InOnePlace
      <3>8. ASSUME NEW m \in Node, m # n PROVE Owned(m)'
        <4>1. \A c \in Shm : Contains(queue'[c], m) <=> Contains(queue[c], m)
          BY <3>2, <3>3, <3>8
        <4> QED
          BY <1>1, <2>4, <2>5, <3>8, <4>1, OwnedStays DEF Unshared
      <3> QED
        BY <1>2, <3>4, <3>7, <3>8 DEF Unshared
    <2>6. CASE mem' = [mem EXCEPT ![n] = NoFrame] /\ UNCHANGED queue
      <3>1. InQueue(n)' = {}
        BY <2>3, <2>6 DEF InQueue
      <3>2. mem'[n] = NoFrame'
        BY <1>0, <2>6 DEF NoFrame
      <3>3. Owned(n)'
        BY <2>4, <3>1, <3>2 DEF Owned, Nowhere
      <3>4. ASSUME NEW m \in Node, m # n PROVE Owned(m)'
        <4>1. mem'[m] = mem[m]
          BY <1>0, <2>6, <3>4
        <4> QED
          BY <1>1, <2>4, <2>6, <3>4, <4>1, OwnedStays DEF Unshared
      <3> QED
        BY <1>2, <2>6, <3>3, <3>4 DEF Unshared
    <2> QED
      BY <2>2, <2>5, <2>6
  <1> QED
    BY <1>3, <1>4

\* Steps that touch no frame.
LEMMA OtherFrames ==
    ASSUME PreviewShape, UserCount, Unshared, [Next]_vars,
           UNCHANGED <<queue, mem, hand, most, wnode>>,
           \A t \in Thread : ~JoinShm(t) /\ ~LeaveShm(t),
           \A t \in Thread : pc'[t] # pc[t] => hand[t] = NULL
    PROVE  Unshared'
  <1>1. \A t \in Thread : \A b : Uses(t, b)' <=> Uses(t, b)
    BY OtherCount
  <1>2. Readers'
    BY <1>1 DEF Unshared, Readers
  <1>3. \A n \in Node : Owned(n)'
    BY OwnedStays DEF Unshared
  <1> QED
    BY <1>2, <1>3 DEF Unshared

LEMMA FramesStep ==
    ASSUME PreviewShape, UserCount, "shared" \notin wrong => Unshared, [Next]_vars,
           "shared" \notin wrong'
    PROVE  Unshared'
  <1>0. wrong \subseteq wrong'
    BY DEF Next, vars, request_preview, BeatStep, preview_start, preview_stop, CallbackStep,
       copyToShm, putToShmQueue, rtsp_callback, ThreadStep, allocVideoShm, allocFailed, getFreeShm,
       JoinShm, Run, previewInit, copyFromShmWithUser, read_video_packet, LeaveShm, Unused,
       releaseShm, freeArgs, previewLoopEnd, previewInitFailed, Noted
  <1>1. Unshared
    BY <1>0
  <1>2. pc \in [Thread -> Using \cup {"none", "begin", "mark", "user", "release", "clear", "free"}]
        /\ \A t \in Thread : hand[t] # NULL => pc[t] = "loop"
    BY <1>1 DEF PreviewShape, PreviewType, Unshared, Readers
  <1>3. CASE \E t \in Thread : JoinShm(t) \/ LeaveShm(t) \/ releaseShm(t)
    BY <1>1, <1>3, UserFrames
  <1>4. CASE \E t \in Thread : copyFromShmWithUser(t) \/ read_video_packet(t)
    BY <1>1, <1>4, CopyFrames, ReadFrames
  <1>5. CASE \E o \in Object : copyToShm(o) \/ putToShmQueue(o)
    BY <1>1, <1>5, CallbackFrames
  <1>6. CASE \/ UNCHANGED vars
             \/ \E o \in Object : request_preview(o) \/ preview_stop(o) \/ rtsp_callback(o)
    <2>1. UNCHANGED <<queue, mem, hand, most, wnode, pc>>
      BY <1>6 DEF vars, request_preview, preview_stop, rtsp_callback, buffers, threads, writers
    <2>2. \A t \in Thread : ~JoinShm(t) /\ ~LeaveShm(t)
      BY <1>2, <2>1 DEF JoinShm, LeaveShm, Go
    <2> QED
      BY <1>1, <2>1, <2>2, OtherFrames
  <1>7. CASE \E o \in Object : preview_start(o)
    <2>1. UNCHANGED <<queue, mem, hand, most, wnode>>
          /\ \E t \in Thread : pc[t] = "none" /\ pc' = [pc EXCEPT ![t] = "begin"]
      BY <1>7 DEF preview_start, buffers, writers
    <2>2. /\ \A t \in Thread : pc'[t] # pc[t] => hand[t] = NULL
          /\ \A t \in Thread : ~JoinShm(t) /\ ~LeaveShm(t)
      BY <1>2, <2>1 DEF JoinShm, LeaveShm, Go
    <2> QED
      BY <1>1, <2>1, <2>2, OtherFrames
  <1>8. CASE \E t \in Thread : \/ allocVideoShm(t) \/ allocFailed(t) \/ getFreeShm(t) \/ Run(t)
                               \/ previewInit(t) \/ previewInitFailed(t) \/ previewLoopEnd(t)
                               \/ Unused(t) \/ freeArgs(t)
    <2>1. PICK t \in Thread : \/ allocVideoShm(t) \/ allocFailed(t) \/ getFreeShm(t) \/ Run(t)
                              \/ previewInit(t) \/ previewInitFailed(t) \/ previewLoopEnd(t)
                              \/ Unused(t) \/ freeArgs(t)
      BY <1>8
    <2>2. /\ UNCHANGED <<queue, mem, hand, most, wnode>>
          /\ pc[t] # "loop" \/ hand[t] = NULL
          /\ \E from \in {"begin", "mark", "run", "init", "loop", "release", "free"},
                to \in {"none", "mark", "user", "init", "loop", "leave", "clear", "free"} :
                pc[t] = from /\ pc' = [pc EXCEPT ![t] = to] /\ from # to
      BY <2>1 DEF allocVideoShm, allocFailed, getFreeShm, Run, previewInit, previewInitFailed,
         previewLoopEnd, Unused, freeArgs, Gone, Go, buffers, writers
    <2>3. /\ \A u \in Thread : pc'[u] # pc[u] => hand[u] = NULL
          /\ \A u \in Thread : ~JoinShm(u) /\ ~LeaveShm(u)
      BY <1>2, <2>2 DEF JoinShm, LeaveShm, Go
    <2> QED
      BY <1>1, <2>2, <2>3, OtherFrames
  <1> QED
    BY <1>3, <1>4, <1>5, <1>6, <1>7, <1>8 DEF Next, ThreadStep, BeatStep, CallbackStep

\* One place, as FramesOwned counts it.
LEMMA PlacesCount ==
    ASSUME NEW n \in Node, Owned(n)
    PROVE  Cardinality(Places(n)) = IF mem[n] = NoFrame THEN 0 ELSE 1
  <1>1. Places(n) = {<<"queue", b>> : b \in InQueue(n)} \cup {<<"hand", t>> : t \in InHand(n)}
                    \cup {<<"writer", o>> : o \in AtWriter(n)}
    BY DEF Places, InQueue, InHand, AtWriter
  <1>2. CASE mem[n] = NoFrame
    <2>1. Places(n) = {}
      BY <1>1, <1>2 DEF Owned, Nowhere
    <2> QED
      BY <1>2, <2>1, FS_EmptySet
  <1>3. CASE mem[n] # NoFrame
    <2>1. InOnePlace(n)
      BY <1>3 DEF Owned
    <2>2. \E x : Places(n) = {x}
      <3>1. CASE InHand(n) = {} /\ AtWriter(n) = {} /\ \E b \in Shm : InQueue(n) = {b}
        <4>1. PICK b \in Shm : InQueue(n) = {b}
          BY <3>1
        <4>2. Places(n) = {<<"queue", b>>}
          BY <1>1, <3>1, <4>1
        <4> QED
          BY <4>2
      <3>2. CASE InQueue(n) = {} /\ AtWriter(n) = {} /\ \E t \in Thread : InHand(n) = {t}
        <4>1. PICK t \in Thread : InHand(n) = {t}
          BY <3>2
        <4>2. Places(n) = {<<"hand", t>>}
          BY <1>1, <3>2, <4>1
        <4> QED
          BY <4>2
      <3>3. CASE InQueue(n) = {} /\ InHand(n) = {} /\ \E o \in Object : AtWriter(n) = {o}
        <4>1. PICK o \in Object : AtWriter(n) = {o}
          BY <3>3
        <4>2. Places(n) = {<<"writer", o>>}
          BY <1>1, <3>3, <4>1
        <4> QED
          BY <4>2
      <3> QED
        BY <2>1, <3>1, <3>2, <3>3 DEF InOnePlace
    <2>3. Cardinality(Places(n)) = 1
      BY <2>2, FS_Singleton
    <2> QED
      BY <1>3, <2>3
  <1> QED
    BY <1>2, <1>3

LEMMA UnsharedInit == Init => Unshared
  <1> SUFFICES ASSUME Init PROVE Unshared
    OBVIOUS
  <1>1. \A n \in Node : mem[n] = NoFrame /\ n # NULL
    BY PreviewAssumption DEF Init, NULL
  <1>2. \A n \in Node : Nowhere(n)
    BY <1>1 DEF Init, Nowhere, InQueue, InHand, AtWriter, Contains
  <1>3. Readers /\ \A b \in Shm : IsInjective(queue[b])
    BY DEF Init, Readers, Uses, IsInjective
  <1> QED
    BY <1>1, <1>2, <1>3 DEF Unshared, Owned

\* The memory of a frame is owned by one place, a queue, a reader or the callback, and
\* is free when none has it, for any number of objects, threads, buffers and frames, at
\* every start and stop of a preview while the camera goes on sending, until two
\* threads use a buffer at a time.
THEOREM FramesOwnedSafe == Spec => []FramesOwned
  <1> DEFINE FramesInv == PreviewShape /\ UserCount /\ ("shared" \notin wrong => Unshared)
  <1>1. Init => FramesInv
    BY PreviewShapeInit, UserInit, UnsharedInit
  <1>2. FramesInv /\ [Next]_vars => FramesInv'
    BY PreviewShapeStep, UserStep, FramesStep
  <1>3. FramesInv => FramesOwned
    BY PlacesCount DEF FramesOwned, Unshared
  <1> QED
    BY <1>1, <1>2, <1>3, PTL DEF Spec
=============================================================================
