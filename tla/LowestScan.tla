----------------------------- MODULE LowestScan -----------------------------
(***************************************************************************)
(* One call of getLowestLoadSlave (master.cpp): traverseQueue hands every  *)
(* node of slaveQueue to _getlowestLoadSlave, which keeps the best so far. *)
(* mutex_slave is held throughout, so the queue does not change; the       *)
(* manager thread, which runs the scan, is the only other writer of load.  *)
(***************************************************************************)
EXTENDS LowestLoad, Sequences

CONSTANTS Load,      \* the loads a slave may report, in percent
          MaxSlaves  \* bound on the length of the queue

ASSUME ScanAssumption == Load \subseteq Nat /\ MaxSlaves \in Nat

VARIABLES queue,   \* what the scan reads of slaveQueue
          at,      \* position of the node handed to the callback next
          lowest   \* position of *ppLowestSlave, 0 for NULL

scanVars == <<queue, at, lowest>>

SlaveInfo == [online : BOOLEAN, systemInit : BOOLEAN, load : Load]

Queues == UNION {[1 .. n -> SlaveInfo] : n \in 0 .. MaxSlaves}

ScanInit == queue \in Queues /\ at = 1 /\ lowest = 0

\* Mutant: forgets that the second branch must look at systemInit too.
BetterUnchecked(s) ==
    IF lowest = 0 THEN Usable(s) ELSE s.load < queue[lowest].load /\ s.online

\* The condition of _getlowestLoadSlave.  The branch for a slave in hand does not
\* compare with SLAVE_LOAD_MAX.
Better(s) ==
    IF lowest = 0 THEN Usable(s)
    ELSE s.load < queue[lowest].load /\ s.online /\ s.systemInit

Visit ==
    /\ at \in DOMAIN queue
    /\ lowest' = IF Better(queue[at]) THEN at ELSE lowest
    /\ at' = at + 1
    /\ UNCHANGED queue

ScanNext == Visit

ScanSpec == ScanInit /\ [][ScanNext]_scanVars

\* The best of the nodes visited so far.
ScanInv ==
    /\ queue \in Queues
    /\ at \in 1 .. Len(queue) + 1
    /\ lowest \in 0 .. at - 1
    /\ lowest = 0 => \A j \in 1 .. at - 1 : ~Usable(queue[j])
    /\ lowest # 0 => /\ Usable(queue[lowest])
                     /\ \A j \in 1 .. at - 1 : Usable(queue[j]) =>
                           \/ queue[lowest].load < queue[j].load
                           \/ queue[lowest].load = queue[j].load /\ lowest <= j

\* When the traversal is over, *ppLowestSlave is the first of the least loaded
\* usable slaves, and NULL only if there is none (getLowestLoadSlave, although the
\* second branch of the callback never looks at SLAVE_LOAD_MAX).
ScanCorrect ==
    at = Len(queue) + 1 =>
        IF lowest = 0 THEN \A j \in DOMAIN queue : ~Usable(queue[j])
        ELSE IsLowest(queue, lowest)
=============================================================================
