---------------------------- MODULE MCSupervisor ----------------------------
(* The processes of a machine, for TLC: one from the start, one for objects. *)
EXTENDS Supervisor

OneStatic == <<"work">>
=============================================================================
