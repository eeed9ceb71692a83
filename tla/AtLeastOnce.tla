------------------------------ MODULE AtLeastOnce ------------------------------
(***************************************************************************)
(* What the relay promises about an event once the transaction that raised *)
(* it has committed: it may reach the topic several times, it is closed as *)
(* delivered only after it reached the topic, and it is given up only by   *)
(* being put aside for an operator.                                        *)
(***************************************************************************)
EXTENDS Naturals

CONSTANT Events

VARIABLES
    phase,    \* [Events -> {"unborn", "open", "delivered", "dead"}]
    copies    \* [Events -> Nat], messages on the topic

Init ==
    /\ phase = [e \in Events |-> "unborn"]
    /\ copies = [e \in Events |-> 0]

Raise(e) ==
    /\ phase[e] = "unborn"
    /\ phase' = [phase EXCEPT ![e] = "open"]
    /\ UNCHANGED copies

Deliver(e) ==
    /\ phase[e] = "open"
    /\ copies' = [copies EXCEPT ![e] = @ + 1]
    /\ UNCHANGED phase

\* Those who sent events and close them may end together.
Close(S) ==
    /\ \A e \in S : phase[e] = "open" /\ copies[e] > 0
    /\ phase' = [e \in Events |-> IF e \in S THEN "delivered" ELSE phase[e]]
    /\ UNCHANGED copies

GiveUp(e) ==
    /\ phase[e] = "open"
    /\ phase' = [phase EXCEPT ![e] = "dead"]
    /\ UNCHANGED copies

Next ==
    \/ \E e \in Events : Raise(e) \/ Deliver(e) \/ GiveUp(e)
    \/ \E S \in SUBSET Events : Close(S)

Spec == Init /\ [][Next]_<<phase, copies>>

=============================================================================
