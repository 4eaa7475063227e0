----------------------------- MODULE MsgStream -----------------------------
(***************************************************************************)
(* What the message output promises to the processes that capture: their   *)
(* messages reach the broker in the order they were queued, each at most   *)
(* once; some may be lost.  Which were received is seen from `received`,   *)
(* the last one with a bit that flips at every delivery.                   *)
(***************************************************************************)
EXTENDS Naturals, Sequences

CONSTANTS Message, NoMsg,
          MaxWaiting  \* most messages waiting at a time

VARIABLES waiting,   \* messages queued, oldest first
          received   \* the last message the broker got

streamVars == <<waiting, received>>

Init == waiting = <<>> /\ received = [msg |-> NoMsg, odd |-> FALSE]

Queue(m) ==
    /\ Len(waiting) < MaxWaiting
    /\ waiting' = Append(waiting, m)
    /\ UNCHANGED received

Deliver ==
    /\ waiting # <<>>
    /\ received' = [msg |-> Head(waiting), odd |-> ~received.odd]
    /\ waiting' = Tail(waiting)

Lose ==
    /\ waiting # <<>>
    /\ waiting' = Tail(waiting)
    /\ UNCHANGED received

Next == \/ \E m \in Message : Queue(m)
        \/ Deliver
        \/ Lose

Spec == Init /\ [][Next]_streamVars
=============================================================================
