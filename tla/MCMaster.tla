------------------------------ MODULE MCMaster ------------------------------
(* Model values and table contents for the runs of module Master. *)
EXTENDS Master

CONSTANTS s1, s2, o1, o2, stream

NoRows == <<>>
BothSlaves == <<s1, s2>>
OneSlave == <<s1>>
ObjOnS1 == <<[id |-> o1, tasks |-> {stream}, slave |-> s1]>>
ObjNoTask == <<[id |-> o1, tasks |-> {}, slave |-> s1]>>
ObjsOnS1AndFree == ObjOnS1 \o <<[id |-> o2, tasks |-> {}, slave |-> None]>>
=============================================================================
