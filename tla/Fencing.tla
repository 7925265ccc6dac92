------------------------------- MODULE Fencing -------------------------------
(***************************************************************************)
(* What session ownership promises, with no instances, locks or messages:  *)
(* a session has an epoch that only grows; durable events are written only *)
(* under the epoch that is current; and the runner, until it is restarted, *)
(* never turns back to an epoch lower than one it has accepted, nor to one *)
(* that was never issued.                                                  *)
(***************************************************************************)
EXTENDS Integers

CONSTANT Sessions

VARIABLES
    cur,    \* current epoch of each session
    wrote,  \* epoch of its last durable event
    seen    \* epoch its runner obeys

Init ==
    /\ cur = [s \in Sessions |-> 0]
    /\ wrote = [s \in Sessions |-> 0]
    /\ seen = [s \in Sessions |-> 0]

Advance(s) ==
    /\ cur' = [cur EXCEPT ![s] = @ + 1]
    /\ UNCHANGED <<wrote, seen>>

Write(s) ==
    /\ wrote' = [wrote EXCEPT ![s] = cur[s]]
    /\ UNCHANGED <<cur, seen>>

Accept(s) ==
    /\ \E e \in seen[s] .. cur[s] : seen' = [seen EXCEPT ![s] = e]
    /\ UNCHANGED <<cur, wrote>>

Restart(s) ==
    /\ seen' = [seen EXCEPT ![s] = 0]
    /\ UNCHANGED <<cur, wrote>>

Next == \E s \in Sessions : Advance(s) \/ Write(s) \/ Accept(s) \/ Restart(s)

Spec == Init /\ [][Next]_<<cur, wrote, seen>>
=============================================================================
