----------------------------- MODULE MCShmQueue -----------------------------
(* ShmQueue for TLC: the code never compares addresses but for equality. *)
EXTENDS ShmQueue

Addresses == Permutations(Node)
=============================================================================
