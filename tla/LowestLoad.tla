----------------------------- MODULE LowestLoad -----------------------------
(***************************************************************************)
(* Which slave getLowestLoadSlave (master.cpp) is to return for a queue of *)
(* slaves: the first of the least loaded usable ones.  Module Master picks *)
(* it in one step; module LowestScan shows that the traversal of the code  *)
(* finds it.                                                               *)
(***************************************************************************)
EXTENDS Naturals

SLAVE_LOAD_MAX == 90

Usable(s) == s.online /\ s.systemInit /\ s.load < SLAVE_LOAD_MAX

IsLowest(queue, i) ==
    /\ i \in DOMAIN queue
    /\ Usable(queue[i])
    /\ \A j \in DOMAIN queue : Usable(queue[j]) =>
          \/ queue[i].load < queue[j].load
          \/ queue[i].load = queue[j].load /\ i <= j
=============================================================================
