-------------------------------- MODULE MCApi ---------------------------------
(***************************************************************************)
(* Instances of the parts of an API task that share no state with each     *)
(* other: the rate limiter, the signing keys, the account reads, the       *)
(* grants of a consent and the computations on amounts.  A behaviour is    *)
(* one of one part: the others rest, and the states of the parts add up    *)
(* instead of multiplying.                                                 *)
(***************************************************************************)
EXTENDS RateLimiter, SigningKeys, AccountReads, ScopeGrants, Values, TLC

CONSTANTS a1, a2, x1, x2, t1, t2, t3, k1, k2, r1

VARIABLE part

vars == <<part, limiterVars, keyVars, readVars, grantVars, valueVars>>

AllScopes == {"accounts:read", "balances:read", "transactions:read", "beneficiaries:read"}

SomeScopes == {AllScopes, AllScopes \ {"accounts:read"}}

\* Two at the same time, one in another hour.
SomeTransactions ==
    {[account |-> a1, hour |-> 9, minute |-> 30, id |-> 2],
     [account |-> a1, hour |-> 9, minute |-> 30, id |-> 1],
     [account |-> a1, hour |-> 10, minute |-> 0, id |-> 1]}

\* Of the user's account, of an account that is not, and one that opens nothing.
SomeConsents ==
    {[grants |-> TRUE, scopes |-> AllScopes, accounts |-> {a1}],
     [grants |-> TRUE, scopes |-> AllScopes \ {"accounts:read"}, accounts |-> {a1, a2}],
     [grants |-> TRUE, scopes |-> AllScopes, accounts |-> {a2}],
     [grants |-> FALSE, scopes |-> AllScopes, accounts |-> {}]}

\* Decisions that overlap, one that goes beyond what can be requested.
SomeChoices ==
    {[scopes |-> {"accounts:read"}, accounts |-> {a1}],
     [scopes |-> {"balances:read"}, accounts |-> {a1, a2}],
     [scopes |-> {"accounts:read", "balances:read"}, accounts |-> {a2}],
     [scopes |-> {"accounts:read", "openid"}, accounts |-> {a1, a2}]}

\* A part that rests has one initial state.
Init == /\ part \in {"limiter", "keys", "reads", "grants", "values"}
        /\ LimiterInit /\ KeysInit /\ ReadsInit
        /\ GrantsInit /\ ValuesInit
        /\ part # "keys"  => secrets.private = k1
        /\ part # "reads" => /\ tokenScopes = AllScopes
                             /\ consent = [grants |-> FALSE, scopes |-> AllScopes, accounts |-> {}]

Next ==
    /\ UNCHANGED part
    /\ \/ part = "limiter" /\ LimiterNext
          /\ UNCHANGED <<keyVars, readVars, grantVars, valueVars>>
       \/ part = "keys" /\ KeysNext
          /\ UNCHANGED <<limiterVars, readVars, grantVars, valueVars>>
       \/ part = "reads" /\ ReadsNext
          /\ UNCHANGED <<limiterVars, keyVars, grantVars, valueVars>>
       \/ part = "grants" /\ GrantsNext
          /\ UNCHANGED <<limiterVars, keyVars, readVars, valueVars>>
       \/ part = "values" /\ ValuesNext
          /\ UNCHANGED <<limiterVars, keyVars, readVars, grantVars>>

Spec == Init /\ [][Next]_vars

\* The state of each part has its type.
TypeOK ==
    /\ LimiterTypeOK /\ KeysTypeOK /\ ReadsTypeOK
    /\ GrantsTypeOK /\ ValuesTypeOK

=============================================================================
