-------------------------- MODULE MCConsentedPayments -------------------------
(***************************************************************************)
(* Instances of ConsentedPayments for TLC.                                 *)
(***************************************************************************)
EXTENDS ConsentedPayments, TLC

CONSTANTS p1, p2, k1, pid1, pid2, r1, r2, c1

SymmetricIds == Permutations(PaymentIds) \cup Permutations(ProviderIds)
                    \cup Permutations(Requests)

=============================================================================
