------------------------------- MODULE MCOutbox -------------------------------
(***************************************************************************)
(* Instances of Outbox for TLC.                                            *)
(***************************************************************************)
EXTENDS Outbox, TLC

CONSTANTS w1, w2, s1, s2

\* Worker processes, and the ticks of one worker, are interchangeable.
Symmetric == Permutations(Workers) \cup Permutations(Slots)

=============================================================================
