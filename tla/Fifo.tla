-------------------------------- MODULE Fifo --------------------------------
(***************************************************************************)
(* What the users of a queue of share.cpp rely on: a bounded first-in      *)
(* first-out queue of values, from which the first value that satisfies a  *)
(* condition can also be deleted, looked up, or taken once by every user.  *)
(* A value keeps the number of users that have taken it.                   *)
(***************************************************************************)
EXTENDS Naturals, Sequences, SequencesExt

CONSTANTS Value,
          None,     \* no call has returned a value
          Nothing,  \* a call has returned without one
          QueMax       \* the limit callers pass to putToQueue

VARIABLES items,   \* sequence of values with the users that took them
          useMax,  \* how many users take a value before it is deleted
          out      \* what the last call handed out

fifoVars == <<items, useMax, out>>

Init == items = <<>> /\ useMax = 0 /\ out = None

\* i is the place of the first item whose value is in S.
IsFirst(i, S) ==
    /\ i \in DOMAIN items /\ items[i].v \in S
    /\ \A j \in DOMAIN items : j < i => items[j].v \notin S

\* A call has begun, or a put was refused.
Call == out' = None /\ UNCHANGED <<items, useMax>>

Put(v) ==
    /\ Len(items) < QueMax
    /\ items' = Append(items, [v |-> v, uses |-> 0])
    /\ out' = None
    /\ UNCHANGED useMax

Get ==
    /\ items # <<>>
    /\ items' = Tail(items)
    /\ out' = items[1].v
    /\ UNCHANGED useMax

Delete(S) == \E i \in DOMAIN items :
    /\ IsFirst(i, S)
    /\ items' = RemoveAt(items, i)
    /\ out' = items[i].v
    /\ UNCHANGED useMax

Use(S) == \E i \in DOMAIN items :
    /\ IsFirst(i, S)
    /\ items' = IF items[i].uses + 1 >= useMax
                THEN RemoveAt(items, i)
                ELSE [items EXCEPT ![i] = [v |-> items[i].v,
                                           uses |-> items[i].uses + 1]]
    /\ out' = items[i].v
    /\ UNCHANGED useMax

Search(S) == \E i \in DOMAIN items :
    /\ IsFirst(i, S)
    /\ out' = items[i].v
    /\ UNCHANGED <<items, useMax>>

Miss(S) ==
    /\ \A i \in DOMAIN items : items[i].v \notin S
    /\ out' = Nothing
    /\ UNCHANGED <<items, useMax>>

\* The queue is emptied; its owner may change the number of users with it.
Clear == items' = <<>> /\ useMax' \in Nat /\ out' = None

Next ==
    \/ Call \/ Get \/ Clear
    \/ \E v \in Value : Put(v)
    \/ \E S \in SUBSET Value : Delete(S) \/ Use(S) \/ Search(S) \/ Miss(S)

Spec == Init /\ [][Next]_fifoVars
=============================================================================
