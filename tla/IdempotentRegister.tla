-------------------------- MODULE IdempotentRegister --------------------------
(***************************************************************************)
(* What an idempotent create promises its clients, whatever happens inside *)
(* the service: a name is claimed at most once, keeps its holder for ever, *)
(* and every answer given for it is that holder.                           *)
(***************************************************************************)
CONSTANTS Names, Values, None

VARIABLES
    holder,   \* [Names -> value or None]
    told      \* the <<name, value>> answers given so far

Init ==
    /\ holder = [n \in Names |-> None]
    /\ told = {}

Claim(n, v) ==
    /\ holder[n] = None
    /\ holder' = [holder EXCEPT ![n] = v]
    /\ told' = told \cup {<<n, v>>}

Tell(n) ==
    /\ holder[n] # None
    /\ told' = told \cup {<<n, holder[n]>>}
    /\ UNCHANGED holder

Next == \E n \in Names : Tell(n) \/ \E v \in Values : Claim(n, v)

Spec == Init /\ [][Next]_<<holder, told>>

=============================================================================
