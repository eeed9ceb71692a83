------------------------------ MODULE MCIdentity ------------------------------
(***************************************************************************)
(* Instances of Identity for TLC.                                          *)
(***************************************************************************)
EXTENDS Identity, TLC

CONSTANTS c1, d1, d2, t1, t2, t3, f1, f2, rt1, rt2, rt3, r1, r2, w1

\* Calls of one kind, and the identifiers a generator draws, are interchangeable.
SymmetricIds == Permutations(Codes) \cup Permutations(Tokens) \cup Permutations(Families)
                    \cup Permutations(RefreshTokens) \cup Permutations(Requests)

=============================================================================
