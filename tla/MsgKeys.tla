------------------------------ MODULE MsgKeys -------------------------------
(***************************************************************************)
(* The message keys of the processes main creates (pids.cpp).  keyCache is *)
(* a table of keys in use: 0 ends it, -1 is a hole.  getMsgKey looks for   *)
(* the lowest key that is not in the table, slot by slot; while it does,   *)
(* the SIGCHLD handler may run delOpsByPid for a child that has stopped,   *)
(* which makes holes.  No lock protects the table.                         *)
(*                                                                         *)
(* createProcess is called by one thread of main at a time: createTasks    *)
(* ends before slave_objmanager_thread starts.  delMsgKey writes only the  *)
(* slot of a key nobody else touches, so the handler is one step.          *)
(***************************************************************************)
EXTENDS Integers

CONSTANTS Proc,      \* children of main, by pid
          MsgKeyMax  \* config.json "msgKey"."max"

ASSUME MsgKeyAssumption == MsgKeyMax \in Nat \ {0}

VARIABLES keyCache,
          at,        \* place of the thread in createProcess
          i, j, empty,  \* locals of getMsgKey
          msgKey,    \* pOps->msgKey of the template
          pidQueue,  \* the msgKey of every entry, 0 where there is no entry
          spare      \* history: the keys that were not in the table at the call

keysVars == <<keyCache, at, i, j, empty, msgKey, pidQueue, spare>>

Slot == 0 .. MsgKeyMax - 1
End == 0
Hole == -1
NoSlot == -1
NoEntry == 0

\* Mutant: takes msgKeyMax for the number of keys.
LastKeyInclusive == MsgKeyMax

\* Keys are counted from msgKeyStart, which is the key of main itself.
LastKey == MsgKeyMax - 1
MsgKey == 1 .. LastKey

Cached == {keyCache[s] : s \in Slot} \cap MsgKey

KeysInit ==
    /\ keyCache = [s \in Slot |-> End]
    /\ at = "idle" /\ i = 1 /\ j = 0 /\ empty = NoSlot /\ msgKey = -1
    /\ pidQueue = [p \in Proc |-> NoEntry]
    /\ spare = {}

createProcess ==
    /\ at = "idle"
    /\ at' = "scan" /\ i' = 1 /\ j' = 0 /\ empty' = NoSlot
    /\ spare' = MsgKey \ Cached
    /\ UNCHANGED <<keyCache, msgKey, pidQueue>>

\* Key i is in use, or the table has no end.
KeyUsed ==
    /\ at = "scan" /\ i <= LastKey
    /\ j \in Slot => keyCache[j] = i
    /\ i' = i + 1 /\ j' = 0
    /\ UNCHANGED <<keyCache, at, empty, msgKey, pidQueue, spare>>

NextSlot ==
    /\ at = "scan" /\ i <= LastKey
    /\ j \in Slot /\ keyCache[j] \notin {i, End}
    /\ empty' = IF keyCache[j] = Hole /\ empty = NoSlot THEN j ELSE empty
    /\ j' = j + 1
    /\ UNCHANGED <<keyCache, at, i, msgKey, pidQueue, spare>>

\* Mutant: always extends the table.
TargetAtEnd == j

\* The slot of a new key: the first hole seen, or else the end of the table.
Target == IF empty # NoSlot THEN empty ELSE j

KeyFound ==
    /\ at = "scan" /\ i <= LastKey
    /\ j \in Slot /\ keyCache[j] = End
    /\ keyCache' = [keyCache EXCEPT ![Target] = i]
    /\ msgKey' = i
    /\ at' = "create"
    /\ UNCHANGED <<i, j, empty, pidQueue, spare>>

\* getMsgKey returns -1 and createProcess gives up.
NoKeyLeft ==
    /\ at = "scan" /\ i > LastKey
    /\ msgKey' = -1
    /\ at' = "idle"
    /\ UNCHANGED <<keyCache, i, j, empty, pidQueue, spare>>

\* fork, and the entry of the child is queued.
put2PidQueue(p) ==
    /\ at = "create"
    /\ pidQueue[p] = NoEntry
    /\ pidQueue' = [pidQueue EXCEPT ![p] = msgKey]
    /\ at' = "idle"
    /\ UNCHANGED <<keyCache, i, j, empty, msgKey, spare>>

\* procInit fails or the queue is full: there is no entry, and the key is not
\* given back.
CreateFailed ==
    /\ at = "create"
    /\ at' = "idle"
    /\ UNCHANGED <<keyCache, i, j, empty, msgKey, pidQueue, spare>>

\* Where the loop of delMsgKey breaks.
StopsAt(key, s) ==
    /\ s \in Slot /\ keyCache[s] \in {key, End}
    /\ \A t \in 0 .. s - 1 : keyCache[t] \notin {key, End}

\* Mutant: clears the slot instead of leaving a hole.
delMsgKeyCleared(key) ==
    [s \in Slot |-> IF StopsAt(key, s) /\ keyCache[s] = key THEN End ELSE keyCache[s]]

delMsgKey(key) ==
    [s \in Slot |-> IF StopsAt(key, s) /\ keyCache[s] = key THEN Hole ELSE keyCache[s]]

\* The SIGCHLD handler, for a child that has stopped running.
delOpsByPid(p) ==
    /\ pidQueue[p] # NoEntry
    /\ pidQueue' = [pidQueue EXCEPT ![p] = NoEntry]
    /\ keyCache' = delMsgKey(pidQueue[p])
    /\ UNCHANGED <<at, i, j, empty, msgKey, spare>>

KeysNext ==
    \/ createProcess \/ KeyUsed \/ NextSlot \/ KeyFound \/ NoKeyLeft \/ CreateFailed
    \/ \E p \in Proc : put2PidQueue(p) \/ delOpsByPid(p)

KeysSpec == KeysInit /\ [][KeysNext]_keysVars

-----------------------------------------------------------------------------
TypeOK ==
    /\ keyCache \in [Slot -> MsgKey \cup {End, Hole}]
    /\ at \in {"idle", "scan", "create"}
    /\ i \in 1 .. LastKey + 1 /\ j \in 0 .. MsgKeyMax
    /\ empty \in Slot \cup {NoSlot}
    /\ msgKey \in MsgKey \cup {-1}
    /\ pidQueue \in [Proc -> MsgKey \cup {NoEntry}]
    /\ spare \subseteq MsgKey

\* Two processes never have the same message key, and no process has the key just
\* taken for the next one (getMsgKey against delOpsByPid in the signal handler).
UniqueKeys ==
    /\ \A p, q \in Proc : pidQueue[p] # NoEntry /\ pidQueue[p] = pidQueue[q] => p = q
    /\ at = "create" => \A p \in Proc : pidQueue[p] # msgKey

\* The table always has an end, which the loop of getMsgKey takes for granted:
\* without one it finds every key used.  Holes made behind the scan are the danger.
TableEnds == \E s \in Slot : keyCache[s] = End

\* getMsgKey returns -1 only if every key was in use when it was called: a key
\* that was free is found, whatever holes are made during the scan.
FreeKeyFound == at = "scan" /\ i > LastKey => spare = {}

\* Why the table ends.  If the scan has met no hole, the keys it read are distinct
\* and none of them is i, so there are fewer slots behind it than keys.
ReadDistinct ==
    \E read \in [0 .. j - 1 -> MsgKey \ {i}] :
        \A s \in 0 .. j - 1 :
            /\ keyCache[s] \in {read[s], Hole}
            /\ \A t \in Slot : keyCache[t] = read[s] => t = s
            /\ \A t \in 0 .. j - 1 : read[t] = read[s] => t = s

\* The table has its used slots first, holds a key once, and holds the key of
\* every process.
TableInv ==
    /\ \A s, t \in Slot : s < t /\ keyCache[s] = End => keyCache[t] = End
    /\ \A s, t \in Slot : keyCache[s] \in MsgKey /\ keyCache[s] = keyCache[t] => s = t
    /\ \A p \in Proc : pidQueue[p] # NoEntry => pidQueue[p] \in Cached
    /\ at = "create" => msgKey \in Cached

ScanInv ==
    at = "scan" =>
        /\ \A s \in 0 .. j - 1 : keyCache[s] \notin {i, End}
        /\ empty # NoSlot => keyCache[empty] = Hole
        /\ empty = NoSlot => ReadDistinct
        /\ spare \cap Cached = {}
        /\ \A k \in spare : k >= i

KeysInv == TypeOK /\ UniqueKeys /\ TableEnds /\ TableInv /\ ScanInv
=============================================================================
