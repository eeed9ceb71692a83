------------------------------ MODULE MCPayments ------------------------------
(***************************************************************************)
(* Instances of Payments for TLC.                                          *)
(***************************************************************************)
EXTENDS Payments, TLC

CONSTANTS p1, p2, k1, pid1, pid2, e1, e2, r1, r2, r3, w1

\* Processes of one kind, and the identifiers a generator draws, are interchangeable.
SymmetricIds == Permutations(PaymentIds) \cup Permutations(ProviderIds)
                    \cup Permutations(EventIds) \cup Permutations(Requests)

=============================================================================
