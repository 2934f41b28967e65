--------------------------- MODULE DeliveryLedger ---------------------------
(***************************************************************************)
(* What the service promises about the life of a delivery, without calls,  *)
(* sessions, memory or faults: a delivery is opened once; its attempts are *)
(* numbered 1, 2, 3, ... and made one after the other, each but the first  *)
(* only because the one before it failed; a settled attempt is never       *)
(* revised and a delivered delivery never touched again.                   *)
(*                                                                         *)
(* An attempt that is never settled (its worker died) blocks the delivery. *)
(***************************************************************************)
EXTENDS Naturals, Sequences

CONSTANT Deliveries

VARIABLES opened,   \* the deliveries that exist
          history   \* delivery -> the outcomes of its attempts, in order

Settled == {"delivered", "failed"}

Init == /\ opened = {}
        /\ history = [d \in Deliveries |-> << >>]

Open(d) == /\ d \notin opened
           /\ opened' = opened \cup {d}
           /\ UNCHANGED history

\* The first attempt, or the one that follows a failed attempt.
Attempt(d) ==
    /\ d \in opened
    /\ history[d] # << >> => history[d][Len(history[d])] = "failed"
    /\ history' = [history EXCEPT ![d] = Append(@, "pending")]
    /\ UNCHANGED opened

Settle(d, outcome) ==
    /\ history[d] # << >>
    /\ history[d][Len(history[d])] = "pending"
    /\ history' = [history EXCEPT ![d][Len(history[d])] = outcome]
    /\ UNCHANGED opened

Next == \E d \in Deliveries :
            \/ Open(d)
            \/ Attempt(d)
            \/ \E outcome \in Settled : Settle(d, outcome)

Spec == Init /\ [][Next]_<<opened, history>>

=============================================================================
