---------------------------- MODULE IdentityProofs -----------------------------
(***************************************************************************)
(* Consents and credentials for any numbers of them and of calls: types,   *)
(* with the bound of the versions, the completeness of a revocation, the   *)
(* consent graph broken and revocations undone only by lost updates, codes *)
(* redeemed again only by overlap, and dead families that stay dead.       *)
(***************************************************************************)
EXTENDS Identity, FiniteSetTheorems, TLAPS

-----------------------------------------------------------------------------
\* The inductive invariant.

\* The version of a row by its status: the longest path of the graph to it.
Depth == [s \in ConsentStatus |->
    CASE s = "DRAFT"                  -> 1
      [] s = "AWAITING_AUTHORIZATION" -> 2
      [] s = "AUTHORIZED"             -> 3
      [] s = "ACTIVE"                 -> 4
      [] OTHER                        -> 5]

Deep(row) == row \in ConsentRow /\ row.version <= Depth[row.status]

\* What a call holds: a copy one edge of the graph (or nothing) away from the row it
\* read; only a revocation will save REVOKED, and a call that issues tokens has read a
\* consent that grants access.
CallFits(c) ==
    c = Idle \/
    /\ c \in Call /\ c.consent \in Consents
    /\ Deep(c.base) /\ Deep(c.row)
    /\ c.row = c.base \/ canTransitionConsent(c.base.status, c.row.status)
    /\ c.op # "none"
    /\ c.op \notin {"revoke", "refresh"} => c.row.status # "REVOKED"
    /\ c.op \in {"exchange", "refresh"} => c.base.status \in {"AUTHORIZED", "ACTIVE"}
    /\ c.op = "exchange" => c.uses \in Codes
    /\ c.op = "refresh" => c.uses \in RefreshTokens

RowsDeep == \A c \in Consents : Exists(c) => Deep(consents[c])

\* An exchange has found the record of its code.
CallsFit == \A x \in Procs :
    CallFits(proc[x]) /\ (proc[x].op = "exchange" => codes[proc[x].uses] # None)

TypedInv == TypeOK /\ RowsDeep /\ CallsFit

\* What RevocationIsComplete says of one consent.
Complete(c) ==
    /\ \A f \in Families :
          families[f] # None /\ families[f].consent = c => families[f].revoked
    /\ \A t \in Tokens :
          tokens[t] # None /\ tokens[t].consent = c /\ ~tokens[t].revoked => tokens[t].stale

GrantInv == TypedInv /\ RevocationIsComplete

\* Records of codes are never deleted.
CodesKept == \A code \in Codes : codes[code] # None => codes'[code] # None

-----------------------------------------------------------------------------
\* Rows.

LEMMA MovedDeep ==
    ASSUME NEW row, Deep(row), NEW status, canTransitionConsent(row.status, status)
    PROVE  Deep(MovedTo(row, status)) /\ MovedTo(row, status).status = status
  <1>1. row.status \in ConsentStatus /\ row.version \in 1..MaxVersion
        /\ row.version <= Depth[row.status]
    BY DEF Deep, ConsentRow
  <1>2. status \in CONSENT_TRANSITIONS[row.status]
    BY DEF canTransitionConsent
  <1>3. status \in ConsentStatus /\ Depth[row.status] + 1 <= Depth[status]
        /\ Depth[status] \in 1..MaxVersion /\ Depth[row.status] \in 1..MaxVersion
    BY <1>1, <1>2 DEF ConsentStatus, CONSENT_TRANSITIONS, Depth, MaxVersion
  <1>4. row.version + 1 \in 1..MaxVersion /\ row.version + 1 <= Depth[status]
    BY <1>1, <1>3 DEF MaxVersion
  <1> QED BY <1>3, <1>4 DEF Deep, MovedTo, ConsentRow

LEMMA NewConsentDeep == Deep(NewConsent) /\ NewConsent.status # "REVOKED"
  BY DEF Deep, NewConsent, MovedTo, ConsentRow, MaxVersion, ConsentStatus, Depth

LEMMA StoredDeep ==
    ASSUME TypedInv, NEW c \in Consents, Exists(c)
    PROVE  Deep(consents[c]) /\ consents[c] \in ConsentRow
  BY DEF TypedInv, RowsDeep, Deep

\* A row that fits is stored.
LEMMA Saved ==
    ASSUME TypedInv, NEW c \in Consents, NEW row, Deep(row), save(c, row)
    PROVE  consents' \in [Consents -> ConsentRow \cup {None}] /\ RowsDeep'
  <1>1. row \in ConsentRow
    BY DEF Deep
  <1> QED BY <1>1 DEF TypedInv, TypeOK, RowsDeep, Exists, save

-----------------------------------------------------------------------------
\* Calls.

LEMMA IdleFits == Idle \in Call /\ CallFits(Idle) /\ Idle.op = "none"
  BY DEF Idle, Call, CallFits

LEMMA Holds ==
    ASSUME TypedInv, NEW x \in Procs, NEW c, CallFits(c), proc' = [proc EXCEPT ![x] = c],
           c.op = "exchange" => codes'[c.uses] # None, CodesKept
    PROVE  proc' \in [Procs -> Call] /\ CallsFit'
  <1>1. c \in Call
    BY IdleFits DEF CallFits
  <1>2. proc' \in [Procs -> Call] /\ proc \in [Procs -> Call]
    BY <1>1 DEF TypedInv, TypeOK
  <1>3. ASSUME NEW y \in Procs
        PROVE  /\ CallFits(proc[y])'
               /\ proc'[y].op = "exchange" => codes'[proc'[y].uses] # None
    <2>1. CASE y = x
      <3>1. proc'[y] = c
        BY <1>2, <2>1
      <3> QED BY <3>1 DEF CallFits
    <2>2. CASE y # x
      <3>1. proc'[y] = proc[y]
        BY <1>2, <2>2
      <3>2. CallFits(proc[y]) /\ (proc[y].op = "exchange" => codes[proc[y].uses] # None)
        BY DEF TypedInv, CallsFit
      <3>3. proc[y].op = "exchange" => proc[y].uses \in Codes
        BY <3>2, IdleFits DEF CallFits
      <3> QED BY <3>1, <3>2, <3>3 DEF CallFits, CodesKept
    <2> QED BY <2>1, <2>2
  <1> QED BY <1>2, <1>3 DEF CallsFit

LEMMA Ended ==
    ASSUME TypedInv, NEW x \in Procs, Finish(x), CodesKept
    PROVE  proc' \in [Procs -> Call] /\ CallsFit'
  BY IdleFits, Holds DEF Finish

\* What is known of a call that is in flight.
LEMMA InFlight ==
    ASSUME TypedInv, NEW x \in Procs, proc[x].op # "none"
    PROVE  /\ proc[x].consent \in Consents /\ Deep(proc[x].row) /\ Deep(proc[x].base)
           /\ \/ proc[x].row = proc[x].base
              \/ canTransitionConsent(proc[x].base.status, proc[x].row.status)
           /\ proc[x].op \notin {"revoke", "refresh"} => proc[x].row.status # "REVOKED"
           /\ proc[x].op \in {"exchange", "refresh"} =>
                 proc[x].base.status \in {"AUTHORIZED", "ACTIVE"}
           /\ proc[x].op = "exchange" =>
                 proc[x].uses \in Codes /\ codes[proc[x].uses] # None
           /\ proc[x].op = "refresh" => proc[x].uses \in RefreshTokens
  <1>1. CallFits(proc[x]) /\ (proc[x].op = "exchange" => codes[proc[x].uses] # None)
    BY DEF TypedInv, CallsFit
  <1>2. proc[x] # Idle
    BY DEF Idle
  <1> QED BY <1>1, <1>2 DEF CallFits

\* A call that has read consent c.
LEMMA Reads ==
    ASSUME TypedInv, NEW x \in Procs, NEW c \in Consents, Exists(c),
           NEW op \in {"authorize", "activate", "exchange", "refresh", "revoke", "expire"},
           NEW row, Deep(row), NEW uses \in Codes \cup RefreshTokens \cup {None},
           row = consents[c] \/ canTransitionConsent(consents[c].status, row.status),
           op \notin {"revoke", "refresh"} => row.status # "REVOKED",
           op \in {"exchange", "refresh"} => consents[c].status \in {"AUTHORIZED", "ACTIVE"},
           op = "exchange" => uses \in Codes /\ codes[uses] # None,
           op = "refresh" => uses \in RefreshTokens,
           Start(x, op, c, row, uses), codes' = codes
    PROVE  proc' \in [Procs -> Call] /\ CallsFit'
  <1> DEFINE g == [op |-> op, consent |-> c, base |-> consents[c], row |-> row,
                   uses |-> uses]
  <1>1. Deep(consents[c]) /\ consents[c] \in ConsentRow /\ row \in ConsentRow
    BY StoredDeep DEF Deep
  <1>2. g \in Call
    BY <1>1 DEF Call
  <1>3. CallFits(g)
    BY <1>1, <1>2 DEF CallFits
  <1>4. proc' = [proc EXCEPT ![x] = g]
    BY DEF Start
  <1>5. g.op = "exchange" => codes'[g.uses] # None
    OBVIOUS
  <1> HIDE DEF g
  <1> QED BY <1>3, <1>4, <1>5, Holds DEF CodesKept

\* Steps that only begin or end a call.
LEMMA OnlyCalls ==
    ASSUME GrantInv, UNCHANGED <<consents, lapsed, credentials, revoked>>,
           proc' \in [Procs -> Call] /\ CallsFit'
    PROVE  GrantInv'
  BY DEF GrantInv, TypedInv, TypeOK, RowsDeep, RevocationIsComplete, HasStatus, Exists,
         credentials

LEMMA MoveReads ==
    ASSUME GrantInv, NEW x \in Procs, NEW c \in Consents, Exists(c),
           NEW op \in {"authorize", "activate", "revoke", "expire"}, NEW status,
           op # "revoke" => status # "REVOKED", StartMove(x, op, c, status)
    PROVE  GrantInv'
  <1> DEFINE row == MovedTo(consents[c], status)
  <1>1. Deep(row) /\ row.status = status /\ canTransitionConsent(consents[c].status, status)
    BY StoredDeep, MovedDeep DEF GrantInv, StartMove
  <1>2. /\ Start(x, op, c, row, None)
        /\ UNCHANGED <<consents, lapsed, credentials, revoked>>
    BY DEF StartMove
  <1> HIDE DEF row
  <1>3. proc' \in [Procs -> Call] /\ CallsFit'
    BY <1>1, <1>2, Reads DEF GrantInv, credentials
  <1> QED BY <1>2, <1>3, OnlyCalls

-----------------------------------------------------------------------------
\* Revocation: who stays complete.

\* The records of one consent are revoked, the others are as they were.
AllRevoked(before, after, c) ==
    \A i \in DOMAIN before :
        IF before[i] # None /\ before[i].consent = c
        THEN after[i].consent = c /\ after[i].revoked
        ELSE after[i] = before[i]

LEMMA RevokedTokens ==
    ASSUME tokens \in [Tokens -> TokenRecord \cup {None}], NEW c
    PROVE  /\ RevokedForConsent(tokens, c) \in [Tokens -> TokenRecord \cup {None}]
           /\ AllRevoked(tokens, RevokedForConsent(tokens, c), c)
  <1>1. \A r \in TokenRecord : /\ [r EXCEPT !.revoked = TRUE] \in TokenRecord
                               /\ [r EXCEPT !.revoked = TRUE].consent = r.consent
                               /\ [r EXCEPT !.revoked = TRUE].revoked
    BY DEF TokenRecord
  <1> QED BY <1>1 DEF RevokedForConsent, AllRevoked

LEMMA RevokedFamilies ==
    ASSUME families \in [Families -> FamilyRecord \cup {None}], NEW c
    PROVE  /\ RevokedForConsent(families, c) \in [Families -> FamilyRecord \cup {None}]
           /\ AllRevoked(families, RevokedForConsent(families, c), c)
  <1>1. \A r \in FamilyRecord : /\ [r EXCEPT !.revoked = TRUE] \in FamilyRecord
                                /\ [r EXCEPT !.revoked = TRUE].consent = r.consent
                                /\ [r EXCEPT !.revoked = TRUE].revoked
    BY DEF FamilyRecord
  <1> QED BY <1>1 DEF RevokedForConsent, AllRevoked

\* While the consent is as it is and its tokens and families are only changed in
\* ways that revoke, a complete revocation stays complete.
LEMMA StaysComplete ==
    ASSUME RevocationIsComplete,
           \A c \in Consents : HasStatus(c, {"REVOKED"})' =>
              Complete(c)' \/ (HasStatus(c, {"REVOKED"}) /\ (Complete(c) => Complete(c)'))
    PROVE  RevocationIsComplete'
  <1>1. \A c \in Consents : HasStatus(c, {"REVOKED"}) => Complete(c)
    BY DEF RevocationIsComplete, Complete
  <1>2. \A c \in Consents : HasStatus(c, {"REVOKED"})' => Complete(c)'
    BY <1>1
  <1> QED BY <1>2 DEF RevocationIsComplete, Complete

\* A save of another status than REVOKED.
LEMMA SavedOther ==
    ASSUME TypedInv, NEW c \in Consents, NEW row, row.status # "REVOKED", save(c, row),
           NEW d \in Consents, HasStatus(d, {"REVOKED"})'
    PROVE  d # c /\ HasStatus(d, {"REVOKED"})
  BY DEF TypedInv, TypeOK, HasStatus, Exists, save

-----------------------------------------------------------------------------
\* The steps.

LEMMA GrantInvInit == Init => GrantInv
  <1> SUFFICES ASSUME Init PROVE GrantInv
    OBVIOUS
  <1>1. TypeOK
    BY IdleFits DEF Init, TypeOK
  <1>2. RowsDeep /\ CallsFit
    BY IdleFits DEF Init, RowsDeep, CallsFit, Exists
  <1>3. RevocationIsComplete
    BY DEF Init, RevocationIsComplete, HasStatus, Exists
  <1> QED BY <1>1, <1>2, <1>3 DEF GrantInv, TypedInv

LEMMA CreateInv ==
    ASSUME GrantInv, NEW c \in Consents, CreateConsent(c) \/ CreateAuthorizationRequest(c)
    PROVE  GrantInv'
  <1>1. /\ save(c, NewConsent) /\ openReqs' \in {openReqs, openReqs \cup {c}}
        /\ UNCHANGED <<lapsed, codes, tokens, families, proc, revoked>>
    BY DEF CreateConsent, CreateAuthorizationRequest, saveAuthorizationRequest, credentials
  <1>2. consents' \in [Consents -> ConsentRow \cup {None}] /\ RowsDeep'
    BY <1>1, NewConsentDeep, Saved DEF GrantInv
  <1>3. TypeOK' /\ CallsFit'
    BY <1>1, <1>2 DEF GrantInv, TypedInv, TypeOK, CallsFit
  <1>4. ASSUME NEW d \in Consents, HasStatus(d, {"REVOKED"})'
        PROVE  HasStatus(d, {"REVOKED"}) /\ (Complete(d) => Complete(d)')
    BY <1>1, <1>4, NewConsentDeep, SavedOther DEF GrantInv, Complete
  <1> QED BY <1>2, <1>3, <1>4, StaysComplete DEF GrantInv, TypedInv

\* Saves of a status other than REVOKED that leave tokens and families alone.
LEMMA PlainCommit ==
    ASSUME GrantInv, NEW x \in Procs,
           proc[x].op \in {"authorize", "activate", "expire"},
           save(proc[x].consent, proc[x].row), Finish(x),
           openReqs' \in SUBSET Consents,
           codes' \in [Codes -> CodeRecord \cup {None}], CodesKept,
           UNCHANGED <<lapsed, tokens, families, revoked>>
    PROVE  GrantInv'
  <1>1. /\ proc[x].consent \in Consents /\ Deep(proc[x].row)
        /\ proc[x].row.status # "REVOKED"
    BY InFlight DEF GrantInv
  <1>2. consents' \in [Consents -> ConsentRow \cup {None}] /\ RowsDeep'
    BY <1>1, Saved DEF GrantInv
  <1>3. proc' \in [Procs -> Call] /\ CallsFit'
    BY Ended DEF GrantInv
  <1>4. TypeOK'
    BY <1>2, <1>3 DEF GrantInv, TypedInv, TypeOK
  <1>5. ASSUME NEW d \in Consents, HasStatus(d, {"REVOKED"})'
        PROVE  HasStatus(d, {"REVOKED"}) /\ (Complete(d) => Complete(d)')
    BY <1>1, <1>5, SavedOther DEF GrantInv, Complete
  <1> QED BY <1>2, <1>3, <1>4, <1>5, StaysComplete DEF GrantInv, TypedInv

LEMMA ConsentInv ==
    ASSUME GrantInv, NEW x \in Requests, ConsentStep(x)
    PROVE  GrantInv'
  <1> x \in Procs
    BY DEF Procs
  <1>1. ASSUME NEW c \in Consents, AuthorizeRead(x, c) PROVE GrantInv'
    BY <1>1, MoveReads DEF AuthorizeRead, HasStatus
  <1>2. ASSUME NEW c \in Consents, ActivateRead(x, c) PROVE GrantInv'
    BY <1>2, MoveReads DEF ActivateRead, HasStatus
  <1>3. ASSUME NEW c \in Consents, RevokeRead(x, c) PROVE GrantInv'
    BY <1>3, MoveReads DEF RevokeRead
  <1>4. ASSUME NEW code \in Codes, AuthorizeCommit(x, code) PROVE GrantInv'
    <2>1. proc[x].consent \in Consents
      BY <1>4, InFlight DEF GrantInv, AuthorizeCommit
    <2>2. codes' \in [Codes -> CodeRecord \cup {None}] /\ CodesKept
      BY <1>4, <2>1 DEF AuthorizeCommit, saveAuthorizationCode, GrantInv, TypedInv, TypeOK,
                        CodeRecord, CodesKept
    <2>3. openReqs' \in SUBSET Consents
      BY <1>4 DEF AuthorizeCommit, markAuthorizationRequestConsumed, GrantInv, TypedInv, TypeOK
    <2> QED BY <1>4, <2>2, <2>3, PlainCommit DEF AuthorizeCommit
  <1>5. CASE ActivateCommit(x)
    <2>1. codes' \in [Codes -> CodeRecord \cup {None}]
          /\ openReqs' \in SUBSET Consents
      BY <1>5 DEF ActivateCommit, SaveOnly, credentials, GrantInv, TypedInv, TypeOK
    <2> QED BY <1>5, <2>1, PlainCommit DEF ActivateCommit, SaveOnly, credentials, CodesKept
  <1>6. CASE RevokeCommit(x)
    <2>1. proc[x].consent \in Consents /\ Deep(proc[x].row)
      BY <1>6, InFlight DEF GrantInv, RevokeCommit
    <2> PICK c \in Consents : c = proc[x].consent
      BY <2>1
    <2>2. consents' \in [Consents -> ConsentRow \cup {None}] /\ RowsDeep'
      BY <1>6, <2>1, Saved DEF GrantInv, RevokeCommit
    <2>3. proc' \in [Procs -> Call] /\ CallsFit'
      BY <1>6, Ended DEF GrantInv, RevokeCommit, CodesKept
    <2>4. /\ tokens' = RevokedForConsent(tokens, c)
          /\ families' = RevokedForConsent(families, c)
          /\ revoked' = revoked \cup {c}
          /\ save(c, proc[x].row)
          /\ UNCHANGED <<lapsed, openReqs, codes>>
      BY <1>6 DEF RevokeCommit
    <2>5. tokens' \in [Tokens -> TokenRecord \cup {None}] /\ AllRevoked(tokens, tokens', c)
      <3>1. tokens \in [Tokens -> TokenRecord \cup {None}]
        BY DEF GrantInv, TypedInv, TypeOK
      <3> QED BY <2>4, <3>1, RevokedTokens
    <2>6. /\ families' \in [Families -> FamilyRecord \cup {None}]
          /\ AllRevoked(families, families', c)
      <3>1. families \in [Families -> FamilyRecord \cup {None}]
        BY DEF GrantInv, TypedInv, TypeOK
      <3> QED BY <2>4, <3>1, RevokedFamilies
    <2>7. TypeOK'
      BY <2>1, <2>2, <2>3, <2>4, <2>5, <2>6 DEF GrantInv, TypedInv, TypeOK
    <2>8. Complete(c)'
      <3>1. \A t \in Tokens : tokens'[t] # None /\ tokens'[t].consent = c => tokens'[t].revoked
        BY <2>5 DEF AllRevoked, GrantInv, TypedInv, TypeOK
      <3>2. \A f \in Families :
               families'[f] # None /\ families'[f].consent = c => families'[f].revoked
        BY <2>6 DEF AllRevoked, GrantInv, TypedInv, TypeOK
      <3> QED BY <3>1, <3>2 DEF Complete
    <2>9. ASSUME NEW d \in Consents, d # c, HasStatus(d, {"REVOKED"})'
          PROVE  HasStatus(d, {"REVOKED"}) /\ (Complete(d) => Complete(d)')
      <3>1. HasStatus(d, {"REVOKED"})
        BY <2>4, <2>9 DEF HasStatus, Exists, save, GrantInv, TypedInv, TypeOK
      <3>2. Complete(d) => Complete(d)'
        <4>1. \A t \in Tokens : tokens'[t] # None /\ tokens'[t].consent = d =>
                                    tokens'[t] = tokens[t]
          BY <2>5, <2>9 DEF AllRevoked, GrantInv, TypedInv, TypeOK
        <4>2. \A f \in Families : families'[f] # None /\ families'[f].consent = d =>
                                    families'[f] = families[f]
          BY <2>6, <2>9 DEF AllRevoked, GrantInv, TypedInv, TypeOK
        <4> SUFFICES ASSUME Complete(d) PROVE Complete(d)'
          OBVIOUS
        <4>3. \A f \in Families :
                 families'[f] # None /\ families'[f].consent = d => families'[f].revoked
          BY <4>2 DEF Complete
        <4>4. \A t \in Tokens : tokens'[t] # None /\ tokens'[t].consent = d
                                 /\ ~tokens'[t].revoked => tokens'[t].stale
          BY <4>1 DEF Complete
        <4> QED BY <4>3, <4>4 DEF Complete
      <3> QED BY <3>1, <3>2
    <2>10. RevocationIsComplete'
      BY <2>8, <2>9, StaysComplete DEF GrantInv
    <2> QED BY <2>2, <2>3, <2>7, <2>10 DEF GrantInv, TypedInv
  <1> QED BY <1>1, <1>2, <1>3, <1>4, <1>5, <1>6 DEF ConsentStep

LEMMA ExpireInv ==
    ASSUME GrantInv, NEW x \in Workers, ExpireStep(x)
    PROVE  GrantInv'
  <1> x \in Procs
    BY DEF Procs
  <1>1. ASSUME NEW c \in Consents, ExpireRead(x, c) PROVE GrantInv'
    BY <1>1, MoveReads DEF ExpireRead, Expirable
  <1>2. CASE ExpireCommit(x)
    <2>1. codes' \in [Codes -> CodeRecord \cup {None}]
          /\ openReqs' \in SUBSET Consents
      BY <1>2 DEF ExpireCommit, SaveOnly, credentials, GrantInv, TypedInv, TypeOK
    <2> QED BY <1>2, <2>1, PlainCommit DEF ExpireCommit, SaveOnly, credentials, CodesKept
  <1> QED BY <1>1, <1>2 DEF ExpireStep

LEMMA ExchangeCommitInv ==
    ASSUME GrantInv, NEW x \in Requests, NEW token \in Tokens, ExchangeCommit(x, token)
    PROVE  GrantInv'
  <1> DEFINE c == proc[x].consent
             code == proc[x].uses
  <1> x \in Procs
    BY DEF Procs
  <1>1. /\ c \in Consents /\ Deep(proc[x].row) /\ code \in Codes /\ codes[code] # None
        /\ proc[x].row.status # "REVOKED"
    BY InFlight DEF GrantInv, ExchangeCommit
  <1>2. /\ save(c, proc[x].row) /\ markAuthorizationCodeUsed(code) /\ Finish(x)
        /\ saveAccessToken(token, c, code, consents[c] # proc[x].base)
        /\ UNCHANGED <<lapsed, openReqs, revoked>>
    BY DEF ExchangeCommit
  <1>3. consents' \in [Consents -> ConsentRow \cup {None}] /\ RowsDeep'
    BY <1>1, <1>2, Saved DEF GrantInv
  <1>4. codes' \in [Codes -> CodeRecord \cup {None}] /\ CodesKept
    <2> HIDE DEF c, code
    <2>1. codes[code] \in CodeRecord /\ codes \in [Codes -> CodeRecord \cup {None}]
      BY <1>1 DEF GrantInv, TypedInv, TypeOK
    <2>2. [codes[code] EXCEPT !.used = TRUE] \in CodeRecord
      BY <2>1 DEF CodeRecord
    <2>3. codes' = [codes EXCEPT ![code] = [codes[code] EXCEPT !.used = TRUE]]
      BY <1>2 DEF markAuthorizationCodeUsed
    <2> QED BY <1>1, <2>1, <2>2, <2>3, NoneIsNoRecord DEF CodesKept
  <1>5. \/ families' = families
        \/ \E f \in Families, rt \in RefreshTokens : saveRefreshTokenFamily(f, c, rt)
    BY DEF ExchangeCommit
  <1>6. proc' \in [Procs -> Call] /\ CallsFit'
    BY <1>2, <1>4, Ended DEF GrantInv
  <1> HIDE DEF c, code
  <1>7. tokens' \in [Tokens -> TokenRecord \cup {None}]
    <2> DEFINE stale == consents[c] # proc[x].base
               r == [consent |-> c, revoked |-> FALSE, source |-> code, stale |-> stale]
    <2>1. r \in TokenRecord
      <3>1. stale \in BOOLEAN
        OBVIOUS
      <3> HIDE DEF stale
      <3> QED BY <1>1, <3>1 DEF TokenRecord
    <2>2. tokens' = [tokens EXCEPT ![token] = r]
      BY <1>2 DEF saveAccessToken
    <2> HIDE DEF r
    <2> QED BY <2>1, <2>2 DEF GrantInv, TypedInv, TypeOK
  <1>8. families' \in [Families -> FamilyRecord \cup {None}]
    <2>1. CASE families' = families
      BY <2>1 DEF GrantInv, TypedInv, TypeOK
    <2>2. ASSUME NEW f \in Families, NEW rt \in RefreshTokens, saveRefreshTokenFamily(f, c, rt)
          PROVE  families' \in [Families -> FamilyRecord \cup {None}]
      <3> DEFINE r == [consent |-> c, current |-> rt, past |-> {}, revoked |-> FALSE,
                       reuseDetected |-> FALSE]
      <3>1. r \in FamilyRecord
        BY <1>1 DEF FamilyRecord
      <3>2. families' = [families EXCEPT ![f] = r]
        BY <2>2 DEF saveRefreshTokenFamily
      <3> HIDE DEF r
      <3> QED BY <3>1, <3>2 DEF GrantInv, TypedInv, TypeOK
    <2> QED BY <1>5, <2>1, <2>2
  <1>9. TypeOK'
    BY <1>2, <1>3, <1>4, <1>6, <1>7, <1>8 DEF GrantInv, TypedInv, TypeOK
  \* The new credentials are those of c, which is not stored as REVOKED any more.
  <1>10. ASSUME NEW d \in Consents, HasStatus(d, {"REVOKED"})'
         PROVE  HasStatus(d, {"REVOKED"}) /\ (Complete(d) => Complete(d)')
    <2>1. d # c /\ HasStatus(d, {"REVOKED"})
      BY <1>1, <1>2, <1>10, SavedOther DEF GrantInv
    <2>2. \A t \in Tokens : tokens'[t] = tokens[t] \/ tokens'[t].consent = c
      BY <1>2 DEF saveAccessToken, GrantInv, TypedInv, TypeOK
    <2>3. \A f \in Families : families'[f] = families[f] \/ families'[f].consent = c
      BY <1>5 DEF saveRefreshTokenFamily, GrantInv, TypedInv, TypeOK
    <2> QED BY <2>1, <2>2, <2>3 DEF Complete
  <1> QED BY <1>3, <1>6, <1>9, <1>10, StaysComplete DEF GrantInv, TypedInv

\* The refreshed token is stale if the consent is REVOKED by now: it was ACTIVE when
\* the call read it.
LEMMA RefreshCommitInv ==
    ASSUME GrantInv, NEW x \in Requests, NEW token \in Tokens, NEW f \in Families,
           NEW new \in RefreshTokens, RefreshCommit(x, token, f, new)
    PROVE  GrantInv'
  <1> DEFINE c == proc[x].consent
             stale == consents[c] # proc[x].base
  <1> x \in Procs
    BY DEF Procs
  <1>1. c \in Consents /\ proc[x].base.status \in {"AUTHORIZED", "ACTIVE"}
    BY InFlight DEF GrantInv, RefreshCommit
  <1>2. /\ rotateRefreshToken(f, new) /\ Finish(x)
        /\ saveAccessToken(token, c, f, stale)
        /\ UNCHANGED <<consents, lapsed, openReqs, codes, revoked>>
    BY DEF RefreshCommit
  <1>3. proc' \in [Procs -> Call] /\ CallsFit'
    BY <1>2, Ended DEF GrantInv, CodesKept
  <1>4. HasStatus(c, {"REVOKED"}) => stale
    BY <1>1 DEF HasStatus
  <1>5. families[f] # None
    BY DEF RefreshCommit, FamilyOf
  <1>6. stale \in BOOLEAN
    OBVIOUS
  <1> HIDE DEF c, stale
  <1>7. tokens' = [tokens EXCEPT ![token] =
                     [consent |-> c, revoked |-> FALSE, source |-> f, stale |-> stale]]
    BY <1>2 DEF saveAccessToken
  <1>8. tokens' \in [Tokens -> TokenRecord \cup {None}]
    BY <1>1, <1>6, <1>7 DEF TokenRecord, GrantInv, TypedInv, TypeOK
  <1>9. families' \in [Families -> FamilyRecord \cup {None}]
        /\ \A g \in Families : families'[g] # None =>
              /\ families[g] # None
              /\ families'[g].consent = families[g].consent
              /\ families'[g].revoked = families[g].revoked
    <2> DEFINE p == [families[f] EXCEPT !.past = @ \cup {families[f].current}]
               r == [p EXCEPT !.current = new]
    <2>1. families \in [Families -> FamilyRecord \cup {None}] /\ families[f] \in FamilyRecord
      BY <1>5 DEF GrantInv, TypedInv, TypeOK
    <2>2. /\ p \in FamilyRecord /\ p.consent = families[f].consent
          /\ p.revoked = families[f].revoked
      BY <2>1 DEF FamilyRecord
    <2>3. /\ r \in FamilyRecord /\ r.consent = families[f].consent
          /\ r.revoked = families[f].revoked
      <3> HIDE DEF p
      <3> QED BY <2>2 DEF FamilyRecord
    <2>4. families' = [families EXCEPT ![f] = r]
      BY <1>2, <2>1 DEF rotateRefreshToken
    <2> HIDE DEF p, r
    <2> QED BY <1>5, <2>1, <2>3, <2>4
  <1>10. TypeOK' /\ RowsDeep'
    BY <1>2, <1>3, <1>8, <1>9
    DEF GrantInv, TypedInv, TypeOK, RowsDeep, Exists
  <1>11. ASSUME NEW d \in Consents, HasStatus(d, {"REVOKED"})'
         PROVE  HasStatus(d, {"REVOKED"}) /\ (Complete(d) => Complete(d)')
    <2>1. HasStatus(d, {"REVOKED"})
      BY <1>2, <1>11 DEF HasStatus, Exists
    <2>2. \A t \in Tokens : \/ tokens'[t] = tokens[t]
                            \/ tokens'[t].consent = c /\ tokens'[t].stale = stale
      BY <1>7 DEF GrantInv, TypedInv, TypeOK
    <2> QED BY <1>4, <1>9, <2>1, <2>2 DEF Complete
  <1> QED BY <1>3, <1>10, <1>11, StaysComplete DEF GrantInv, TypedInv

LEMMA TokenInv ==
    ASSUME GrantInv, NEW x \in Requests, TokenStep(x)
    PROVE  GrantInv'
  <1> x \in Procs
    BY DEF Procs
  <1>1. ASSUME NEW code \in Codes, ExchangeRead(x, code) PROVE GrantInv'
    <2> DEFINE c == codes[code].consent
               row == IF consents[c].status = "AUTHORIZED"
                      THEN MovedTo(consents[c], "ACTIVE") ELSE consents[c]
    <2>1. /\ codes[code] # None /\ HasStatus(c, {"AUTHORIZED", "ACTIVE"})
          /\ Start(x, "exchange", c, row, code)
          /\ UNCHANGED <<consents, lapsed, credentials, revoked>>
      BY <1>1 DEF ExchangeRead, Redeemable
    <2>2. c \in Consents
      BY <2>1 DEF GrantInv, TypedInv, TypeOK, CodeRecord
    <2>3. /\ Exists(c) /\ consents[c].status \in {"AUTHORIZED", "ACTIVE"}
          /\ Deep(consents[c])
      BY <2>1, <2>2, StoredDeep DEF HasStatus, GrantInv
    <2>4. /\ Deep(row) /\ row.status # "REVOKED"
          /\ row = consents[c] \/ canTransitionConsent(consents[c].status, row.status)
      <3>1. canTransitionConsent("AUTHORIZED", "ACTIVE")
        BY DEF canTransitionConsent, CONSENT_TRANSITIONS, ConsentStatus
      <3> QED BY <2>3, <3>1, MovedDeep
    <2> HIDE DEF c, row
    <2>5. proc' \in [Procs -> Call] /\ CallsFit'
      BY <2>1, <2>2, <2>3, <2>4, Reads DEF GrantInv, credentials
    <2> QED BY <2>1, <2>5, OnlyCalls
  <1>2. ASSUME NEW token \in Tokens, ExchangeCommit(x, token) PROVE GrantInv'
    BY <1>2, ExchangeCommitInv
  <1>3. ASSUME NEW rt \in RefreshTokens, NEW f \in Families, RefreshRead(x, rt, f)
        PROVE  GrantInv'
    <2> DEFINE c == families[f].consent
    <2>1. /\ families[f] # None /\ HasStatus(c, {"ACTIVE"})
          /\ Start(x, "refresh", c, consents[c], rt)
          /\ UNCHANGED <<consents, lapsed, credentials, revoked>>
      BY <1>3 DEF RefreshRead, FamilyOf
    <2>2. c \in Consents
      BY <2>1 DEF GrantInv, TypedInv, TypeOK, FamilyRecord
    <2>3. Exists(c) /\ consents[c].status = "ACTIVE" /\ Deep(consents[c])
      BY <2>1, <2>2, StoredDeep DEF HasStatus, GrantInv
    <2> HIDE DEF c
    <2>4. proc' \in [Procs -> Call] /\ CallsFit'
      BY <2>1, <2>2, <2>3, Reads DEF GrantInv, credentials
    <2> QED BY <2>1, <2>4, OnlyCalls
  <1>4. ASSUME NEW token \in Tokens, NEW f \in Families, NEW new \in RefreshTokens,
               RefreshCommit(x, token, f, new)
        PROVE  GrantInv'
    BY <1>4, RefreshCommitInv
  <1> QED BY <1>1, <1>2, <1>3, <1>4 DEF TokenStep

\* Revocations of single credentials: they only revoke.
LEMMA RevokesInv ==
    ASSUME GrantInv, NEW rt \in RefreshTokens, NEW f \in Families,
           HandleReuse(rt, f) \/ RevokeRefreshToken(rt, f)
    PROVE  GrantInv'
  <1>1. /\ families[f] # None
        /\ \/ families' = [families EXCEPT ![f].revoked = TRUE, ![f].reuseDetected = TRUE]
           \/ families' = [families EXCEPT ![f].revoked = TRUE]
        /\ UNCHANGED <<consents, lapsed, openReqs, codes, tokens, proc, revoked>>
    BY DEF HandleReuse, RevokeRefreshToken, FamilyOf, markReuseDetected,
           revokeRefreshTokenFamily
  <1>2. families' \in [Families -> FamilyRecord \cup {None}]
        /\ \A g \in Families : families'[g] # None =>
              /\ families[g] # None
              /\ families'[g].consent = families[g].consent
              /\ families[g].revoked => families'[g].revoked
    <2> DEFINE p == [families[f] EXCEPT !.revoked = TRUE]
               r == [p EXCEPT !.reuseDetected = TRUE]
    <2>1. families \in [Families -> FamilyRecord \cup {None}] /\ families[f] \in FamilyRecord
      BY <1>1 DEF GrantInv, TypedInv, TypeOK
    <2>2. p \in FamilyRecord /\ p.consent = families[f].consent /\ p.revoked
      BY <2>1 DEF FamilyRecord
    <2>3. r \in FamilyRecord /\ r.consent = families[f].consent /\ r.revoked
      <3> HIDE DEF p
      <3> QED BY <2>2 DEF FamilyRecord
    <2>4. families' \in {[families EXCEPT ![f] = r], [families EXCEPT ![f] = p]}
      BY <1>1, <2>1
    <2> HIDE DEF p, r
    <2> QED BY <1>1, <2>1, <2>2, <2>3, <2>4
  <1>3. TypedInv'
    BY <1>1, <1>2 DEF GrantInv, TypedInv, TypeOK, RowsDeep, CallsFit, Exists
  <1>4. ASSUME NEW d \in Consents, HasStatus(d, {"REVOKED"})'
        PROVE  HasStatus(d, {"REVOKED"}) /\ (Complete(d) => Complete(d)')
    BY <1>1, <1>2, <1>4 DEF HasStatus, Exists, Complete
  <1> QED BY <1>3, <1>4, StaysComplete DEF GrantInv

LEMMA RevokeTokenInv ==
    ASSUME GrantInv, NEW token \in Tokens, RevokeAccessToken(token)
    PROVE  GrantInv'
  <1>1. /\ tokens[token] # None /\ tokens' = [tokens EXCEPT ![token].revoked = TRUE]
        /\ UNCHANGED <<consents, lapsed, openReqs, codes, families, proc, revoked>>
    BY DEF RevokeAccessToken, revokeAccessToken
  <1>2. tokens' \in [Tokens -> TokenRecord \cup {None}]
        /\ \A t \in Tokens : tokens'[t] # None =>
              /\ tokens[t] # None
              /\ tokens'[t].consent = tokens[t].consent
              /\ tokens'[t].stale = tokens[t].stale
              /\ tokens[t].revoked => tokens'[t].revoked
    <2> DEFINE r == [tokens[token] EXCEPT !.revoked = TRUE]
    <2>1. tokens \in [Tokens -> TokenRecord \cup {None}] /\ tokens[token] \in TokenRecord
      BY <1>1 DEF GrantInv, TypedInv, TypeOK
    <2>2. /\ r \in TokenRecord /\ r.consent = tokens[token].consent
          /\ r.stale = tokens[token].stale /\ r.revoked
      BY <2>1 DEF TokenRecord
    <2>3. tokens' = [tokens EXCEPT ![token] = r]
      BY <1>1
    <2> HIDE DEF r
    <2> QED BY <1>1, <2>1, <2>2, <2>3
  <1>3. TypedInv'
    BY <1>1, <1>2 DEF GrantInv, TypedInv, TypeOK, RowsDeep, CallsFit, Exists
  <1>4. ASSUME NEW d \in Consents, HasStatus(d, {"REVOKED"})'
        PROVE  HasStatus(d, {"REVOKED"}) /\ (Complete(d) => Complete(d)')
    BY <1>1, <1>2, <1>4 DEF HasStatus, Exists, Complete
  <1> QED BY <1>3, <1>4, StaysComplete DEF GrantInv

LEMMA GrantInvStep == GrantInv /\ [Next]_vars => GrantInv'
  <1> SUFFICES ASSUME GrantInv, [Next]_vars PROVE GrantInv'
    OBVIOUS
  <1>1. ASSUME NEW c \in Consents, ConsentLapses(c) PROVE GrantInv'
    BY <1>1 DEF ConsentLapses, GrantInv, TypedInv, TypeOK, RowsDeep, CallsFit,
                RevocationIsComplete, HasStatus, Exists, credentials
  <1>2. ASSUME NEW x \in Procs, Abort(x) PROVE GrantInv'
    <2>1. proc' \in [Procs -> Call] /\ CallsFit'
      BY <1>2, Ended DEF Abort, GrantInv, CodesKept, credentials
    <2> QED BY <1>2, <2>1, OnlyCalls DEF Abort
  <1>3. CASE UNCHANGED vars
    BY <1>3 DEF vars, GrantInv, TypedInv, TypeOK, RowsDeep, CallsFit,
                RevocationIsComplete, HasStatus, Exists, credentials
  <1> QED BY <1>1, <1>2, <1>3, CreateInv, ConsentInv, TokenInv, ExpireInv, RevokesInv,
             RevokeTokenInv DEF Next

LEMMA GrantInvariant == Spec => []GrantInv
  BY GrantInvInit, GrantInvStep, PTL DEF Spec

-----------------------------------------------------------------------------
\* The types of tables and calls: stale saves included, no version of a consent goes
\* beyond the longest path of its graph.
THEOREM IdentityTypeCorrect == Spec => []TypeOK
  <1>1. GrantInv => TypeOK
    BY DEF GrantInv, TypedInv
  <1> QED BY <1>1, GrantInvariant, PTL

\* Whatever overlaps with it: what a revocation leaves usable are the tokens of calls
\* that had read the consent before.
THEOREM RevocationsAreComplete == Spec => []RevocationIsComplete
  <1>1. GrantInv => RevocationIsComplete
    BY DEF GrantInv
  <1> QED BY <1>1, GrantInvariant, PTL

-----------------------------------------------------------------------------
\* Consents change when a call saves its copy and ends.

SavesItsCopy(x) ==
    proc[x].op # "none" /\ save(proc[x].consent, proc[x].row) /\ Finish(x)

LEMMA ChangesAreSaves ==
    ASSUME GrantInv, [Next]_vars, NEW c \in Consents, Exists(c), consents'[c] # consents[c]
    PROVE  \E x \in Procs : SavesItsCopy(x)
  <1>1. ASSUME NEW d \in Consents,
               CreateConsent(d) \/ CreateAuthorizationRequest(d) \/ ConsentLapses(d)
        PROVE  FALSE
    <2>1. consents' = consents \/ (~Exists(d) /\ save(d, NewConsent))
      BY <1>1 DEF CreateConsent, CreateAuthorizationRequest, ConsentLapses
    <2> QED BY <2>1 DEF save, Exists, GrantInv, TypedInv, TypeOK
  <1>2. ASSUME NEW x \in Requests, ConsentStep(x) PROVE SavesItsCopy(x)
    BY <1>2 DEF ConsentStep, AuthorizeRead, ActivateRead, RevokeRead, StartMove,
                AuthorizeCommit, ActivateCommit, SaveOnly, RevokeCommit, SavesItsCopy
  <1>3. ASSUME NEW x \in Requests, TokenStep(x) PROVE SavesItsCopy(x)
    BY <1>3 DEF TokenStep, ExchangeRead, ExchangeCommit, RefreshRead, RefreshCommit,
                SavesItsCopy
  <1>4. ASSUME NEW x \in Workers, ExpireStep(x) PROVE SavesItsCopy(x)
    BY <1>4 DEF ExpireStep, ExpireRead, StartMove, ExpireCommit, SaveOnly, SavesItsCopy
  <1>5. ASSUME NEW x \in Procs, Abort(x) PROVE FALSE
    BY <1>5 DEF Abort
  <1>6. ASSUME NEW rt \in RefreshTokens, NEW f \in Families,
               HandleReuse(rt, f) \/ RevokeRefreshToken(rt, f)
        PROVE  FALSE
    BY <1>6 DEF HandleReuse, RevokeRefreshToken
  <1>7. ASSUME NEW token \in Tokens, RevokeAccessToken(token) PROVE FALSE
    BY <1>7 DEF RevokeAccessToken
  <1>8. CASE UNCHANGED vars
    BY <1>8 DEF vars
  <1> QED BY <1>1, <1>2, <1>3, <1>4, <1>5, <1>6, <1>7, <1>8 DEF Next, Procs

\* A step that changes a stored consent ends a call on it, and if that call had read
\* the row that is there now, it follows an edge of the graph.
THEOREM ConsentsFollowTheGraph == Spec => ConsentLegalUnlessStale
  <1>1. ASSUME GrantInv, [Next]_vars, NEW c \in Consents, Exists(c),
               consents'[c] # consents[c]
        PROVE  \E x \in Procs :
                  /\ proc[x].consent = c /\ proc[x].row = consents'[c] /\ proc'[x] = Idle
                  /\ proc[x].base = consents[c] =>
                        consents'[c].status \in CONSENT_TRANSITIONS[consents[c].status]
    <2> PICK x \in Procs : SavesItsCopy(x)
      BY <1>1, ChangesAreSaves
    <2>1. /\ consents' = [consents EXCEPT ![proc[x].consent] = proc[x].row]
          /\ proc' = [proc EXCEPT ![x] = Idle] /\ proc[x].op # "none"
      BY DEF SavesItsCopy, save, Finish
    <2>2. proc[x].consent = c /\ proc[x].row = consents'[c] /\ proc'[x] = Idle
      BY <1>1, <2>1 DEF GrantInv, TypedInv, TypeOK
    <2>3. \/ proc[x].row = proc[x].base
          \/ canTransitionConsent(proc[x].base.status, proc[x].row.status)
      BY <1>1, <2>1, InFlight DEF GrantInv
    <2> QED BY <1>1, <2>2, <2>3 DEF canTransitionConsent
  <1>2. GrantInv /\ [Next]_vars =>
           [\A c \in Consents : Exists(c) /\ consents'[c] # consents[c] =>
               \E x \in Procs :
                  /\ proc[x].consent = c /\ proc[x].row = consents'[c] /\ proc'[x] = Idle
                  /\ proc[x].base = consents[c] =>
                        consents'[c].status \in CONSENT_TRANSITIONS[consents[c].status]]_vars
    BY <1>1
  <1> QED BY <1>2, GrantInvariant, PTL DEF Spec, ConsentLegalUnlessStale

\* A call saves a copy of another row than the one it replaces.
StaleSave ==
    /\ consents' # consents
    /\ \E x \in Procs : SavesItsCopy(x) /\ proc[x].base # consents[proc[x].consent]

\* A revocation in flight will save REVOKED.
RevocationsFit == \A x \in Procs : proc[x].op = "revoke" => proc[x].row.status = "REVOKED"

\* As long as no save was stale, what was revoked is stored as REVOKED.
RevokedInv == RevocationsFit /\ \A c \in revoked : HasStatus(c, {"REVOKED"})

\* A call that starts is no revocation, or it is one that fits; others go on or end.
LEMMA RevocationsStart ==
    ASSUME TypedInv, RevocationsFit, NEW x \in Procs, NEW c, proc' = [proc EXCEPT ![x] = c],
           c.op = "revoke" => c.row.status = "REVOKED"
    PROVE  RevocationsFit'
  BY DEF TypedInv, TypeOK, RevocationsFit

LEMMA RevocationsStay ==
    ASSUME TypedInv, RevocationsFit, [Next]_vars
    PROVE  RevocationsFit'
  <1>1. ASSUME UNCHANGED proc PROVE RevocationsFit'
    BY <1>1 DEF RevocationsFit
  <1>2. ASSUME NEW x \in Procs, Finish(x) PROVE RevocationsFit'
    BY <1>2, IdleFits, RevocationsStart DEF Finish
  <1>3. ASSUME NEW x \in Procs, NEW op, NEW c, NEW row, NEW uses, Start(x, op, c, row, uses),
               op # "revoke"
        PROVE  RevocationsFit'
    BY <1>3, RevocationsStart DEF Start
  <1>4. ASSUME NEW x \in Procs, NEW c \in Consents, RevokeRead(x, c)
        PROVE  RevocationsFit'
    <2>1. Start(x, "revoke", c, MovedTo(consents[c], "REVOKED"), None)
      BY <1>4 DEF RevokeRead, StartMove
    <2>2. MovedTo(consents[c], "REVOKED").status = "REVOKED"
      BY DEF MovedTo
    <2> QED BY <2>1, <2>2, RevocationsStart DEF Start
  <1>5. ASSUME NEW x \in Requests, ConsentStep(x) PROVE RevocationsFit'
    <2>1. x \in Procs
      BY DEF Procs
    <2>2. ASSUME NEW c \in Consents, AuthorizeRead(x, c) \/ ActivateRead(x, c)
          PROVE  RevocationsFit'
      BY <1>3, <2>1, <2>2 DEF AuthorizeRead, ActivateRead, StartMove
    <2>3. ASSUME NEW code \in Codes,
                 AuthorizeCommit(x, code) \/ ActivateCommit(x) \/ RevokeCommit(x)
          PROVE  RevocationsFit'
      BY <1>2, <2>1, <2>3 DEF AuthorizeCommit, ActivateCommit, SaveOnly, RevokeCommit
    <2>4. CASE ActivateCommit(x) \/ RevokeCommit(x)
      BY <1>2, <2>1, <2>4 DEF ActivateCommit, SaveOnly, RevokeCommit
    <2> QED BY <1>4, <1>5, <2>1, <2>2, <2>3, <2>4 DEF ConsentStep
  <1>6. ASSUME NEW x \in Requests, TokenStep(x) PROVE RevocationsFit'
    <2>1. x \in Procs
      BY DEF Procs
    <2>2. ASSUME NEW code \in Codes, ExchangeRead(x, code) PROVE RevocationsFit'
      BY <1>3, <2>1, <2>2 DEF ExchangeRead
    <2>3. ASSUME NEW rt \in RefreshTokens, NEW f \in Families, RefreshRead(x, rt, f)
          PROVE  RevocationsFit'
      BY <1>3, <2>1, <2>3 DEF RefreshRead
    <2>4. ASSUME NEW token \in Tokens, ExchangeCommit(x, token) PROVE RevocationsFit'
      BY <1>2, <2>1, <2>4 DEF ExchangeCommit
    <2>5. ASSUME NEW token \in Tokens, NEW f \in Families, NEW new \in RefreshTokens,
                 RefreshCommit(x, token, f, new)
          PROVE  RevocationsFit'
      BY <1>2, <2>1, <2>5 DEF RefreshCommit
    <2> QED BY <1>6, <2>2, <2>3, <2>4, <2>5 DEF TokenStep
  <1>7. ASSUME NEW x \in Workers, ExpireStep(x) PROVE RevocationsFit'
    <2>1. x \in Procs
      BY DEF Procs
    <2> QED BY <1>2, <1>3, <1>7, <2>1 DEF ExpireStep, ExpireRead, StartMove, ExpireCommit, SaveOnly
  <1>8. ASSUME NEW x \in Procs, Abort(x) PROVE RevocationsFit'
    BY <1>2, <1>8 DEF Abort
  <1>9. ASSUME NEW c \in Consents,
               CreateConsent(c) \/ CreateAuthorizationRequest(c) \/ ConsentLapses(c)
        PROVE  RevocationsFit'
    BY <1>1, <1>9 DEF CreateConsent, CreateAuthorizationRequest, ConsentLapses
  <1>10. ASSUME NEW rt \in RefreshTokens, NEW f \in Families,
                HandleReuse(rt, f) \/ RevokeRefreshToken(rt, f)
         PROVE  RevocationsFit'
    BY <1>1, <1>10 DEF HandleReuse, RevokeRefreshToken
  <1>11. ASSUME NEW token \in Tokens, RevokeAccessToken(token) PROVE RevocationsFit'
    BY <1>1, <1>11 DEF RevokeAccessToken
  <1>12. CASE UNCHANGED vars
    BY <1>1, <1>12 DEF vars
  <1> QED BY <1>5, <1>6, <1>7, <1>8, <1>9, <1>10, <1>11, <1>12 DEF Next

\* Only the commit of a revocation adds to the history.
LEMMA RevokedGrows ==
    ASSUME [Next]_vars
    PROVE  revoked' = revoked \/ \E x \in Requests : RevokeCommit(x)
  <1>1. ASSUME NEW x \in Requests, ConsentStep(x)
        PROVE  revoked' = revoked \/ RevokeCommit(x)
    BY <1>1 DEF ConsentStep, AuthorizeRead, ActivateRead, RevokeRead, StartMove,
                AuthorizeCommit, ActivateCommit, SaveOnly
  <1>2. ASSUME NEW x \in Requests, TokenStep(x) PROVE revoked' = revoked
    BY <1>2 DEF TokenStep, ExchangeRead, ExchangeCommit, RefreshRead, RefreshCommit
  <1>3. ASSUME NEW x \in Workers, ExpireStep(x) PROVE revoked' = revoked
    BY <1>3 DEF ExpireStep, ExpireRead, StartMove, ExpireCommit, SaveOnly
  <1>4. ASSUME NEW c \in Consents,
               CreateConsent(c) \/ CreateAuthorizationRequest(c) \/ ConsentLapses(c)
        PROVE  revoked' = revoked
    BY <1>4 DEF CreateConsent, CreateAuthorizationRequest, ConsentLapses
  <1>5. ASSUME NEW rt \in RefreshTokens, NEW f \in Families,
               HandleReuse(rt, f) \/ RevokeRefreshToken(rt, f)
        PROVE  revoked' = revoked
    BY <1>5 DEF HandleReuse, RevokeRefreshToken
  <1>6. CASE (\E x \in Procs : Abort(x)) \/ (\E token \in Tokens : RevokeAccessToken(token))
             \/ UNCHANGED vars
    BY <1>6 DEF Abort, RevokeAccessToken, vars
  <1> QED BY <1>1, <1>2, <1>3, <1>4, <1>5, <1>6 DEF Next

\* REVOKED is terminal for a call that read it.
LEMMA RevokedStaysStored ==
    ASSUME GrantInv, [Next]_vars, [~StaleSave]_vars, NEW c \in Consents, HasStatus(c, {"REVOKED"})
    PROVE  HasStatus(c, {"REVOKED"})'
  <1>1. CASE consents'[c] = consents[c]
    BY <1>1 DEF HasStatus, Exists
  <1>2. CASE consents'[c] # consents[c]
    <2> PICK x \in Procs : SavesItsCopy(x)
      BY <1>2, ChangesAreSaves DEF HasStatus
    <2>1. /\ consents' = [consents EXCEPT ![proc[x].consent] = proc[x].row]
          /\ proc[x].op # "none"
      BY DEF SavesItsCopy, save
    <2>2. proc[x].consent = c /\ proc[x].row = consents'[c]
      BY <1>2, <2>1 DEF GrantInv, TypedInv, TypeOK
    <2>3. proc[x].base = consents[c]
      BY <1>2, <2>2 DEF StaleSave, vars
    <2>4. canTransitionConsent(consents[c].status, proc[x].row.status)
      BY <1>2, <2>1, <2>2, <2>3, InFlight DEF GrantInv
    <2>5. CONSENT_TRANSITIONS["REVOKED"] = {}
      BY DEF CONSENT_TRANSITIONS, ConsentStatus
    <2> QED BY <2>4, <2>5 DEF HasStatus, canTransitionConsent
  <1> QED BY <1>1, <1>2

LEMMA RevokedInvStep ==
    ASSUME GrantInv, RevokedInv, [Next]_vars, [~StaleSave]_vars
    PROVE  RevokedInv'
  <1>1. RevocationsFit'
    BY RevocationsStay DEF GrantInv, RevokedInv
  <1>2. revoked \in SUBSET Consents
    BY DEF GrantInv, TypedInv, TypeOK
  <1>3. \A c \in revoked : HasStatus(c, {"REVOKED"})'
    BY <1>2, RevokedStaysStored DEF RevokedInv
  <1>4. ASSUME NEW x \in Requests, RevokeCommit(x)
        PROVE  \E c \in Consents : HasStatus(c, {"REVOKED"})' /\ revoked' = revoked \cup {c}
    <2>1. /\ x \in Procs /\ proc[x].op = "revoke" /\ revoked' = revoked \cup {proc[x].consent}
          /\ consents' = [consents EXCEPT ![proc[x].consent] = proc[x].row]
      BY <1>4 DEF RevokeCommit, save, Procs
    <2>2. proc[x].consent \in Consents /\ proc[x].row \in ConsentRow
      BY <2>1, InFlight DEF GrantInv, Deep
    <2>3. proc[x].row.status = "REVOKED"
      BY <2>1 DEF RevokedInv, RevocationsFit
    <2> PICK c \in Consents : c = proc[x].consent
      BY <2>2
    <2>4. consents'[c] = proc[x].row
      BY <2>1, <2>2 DEF GrantInv, TypedInv, TypeOK
    <2>5. HasStatus(c, {"REVOKED"})'
      BY <2>2, <2>3, <2>4, NoneIsNoRecord DEF HasStatus, Exists
    <2> QED BY <2>1, <2>5
  <1>5. \A c \in revoked' : HasStatus(c, {"REVOKED"})'
    BY <1>3, <1>4, RevokedGrows
  <1> QED BY <1>1, <1>5 DEF RevokedInv

\* Blind saves are the only way past a revocation: were a save refused when the consent is
\* no longer the one that was read, no overlap of calls would leave a token of a revoked
\* consent that opens anything.
THEOREM RevokedUnlessStale == Spec /\ [][~StaleSave]_vars => []RevokedStaysIneffective
  <1>1. Init => RevokedInv
    BY DEF Init, RevokedInv, RevocationsFit, Idle
  <1>2. GrantInv /\ RevokedInv /\ [Next]_vars /\ [~StaleSave]_vars => RevokedInv'
    BY RevokedInvStep
  <1>3. RevokedInv => RevokedStaysIneffective
    BY DEF RevokedInv, RevokedStaysIneffective, CanAccess, decideAccountAccess, HasStatus,
           isAccessGrantingConsent
  <1> QED BY <1>1, <1>2, <1>3, GrantInvariant, PTL DEF Spec

-----------------------------------------------------------------------------
\* What a step does to credentials, by what it is.

\* No access token record appears or changes its source.
IssuesNothing == \A t \in Tokens :
    /\ tokens'[t] # None <=> tokens[t] # None
    /\ tokens[t] # None => tokens'[t].source = tokens[t].source

\* One access token record appears.
Issues(token, source) ==
    /\ tokens[token] = None /\ tokens'[token] # None /\ tokens'[token].source = source
    /\ \A t \in Tokens \ {token} : tokens'[t] = tokens[t]

UsedStays == \A code \in Codes : codes[code] # None /\ codes[code].used =>
                codes'[code] # None /\ codes'[code].used

\* No refresh token changes hands, and what is revoked stays revoked.
SameHolders == \A f \in Families :
    /\ families'[f] # None <=> families[f] # None
    /\ families[f] # None => /\ families'[f].current = families[f].current
                             /\ families'[f].past = families[f].past
                             /\ families[f].revoked => families'[f].revoked

\* No call begins that presents a credential.
NothingPresented == \A x \in Requests :
    proc'[x] = proc[x] \/ (proc'[x].uses = None /\ proc'[x].op # "refresh")

Presents(x) ==
    \/ \E code \in Codes : ExchangeRead(x, code)
    \/ \E rt \in RefreshTokens, f \in Families : RefreshRead(x, rt, f)

Quiet == UsedStays /\ IssuesNothing /\ SameHolders

LEMMA Untouched ==
    /\ tokens' = tokens => IssuesNothing
    /\ families' = families => SameHolders
    /\ codes' = codes => UsedStays
    /\ proc' = proc => NothingPresented
  BY DEF IssuesNothing, SameHolders, UsedStays, NothingPresented

LEMMA EndingPresentsNothing ==
    ASSUME GrantInv, NEW x \in Procs, Finish(x)
    PROVE  NothingPresented
  BY DEF Finish, Idle, NothingPresented, GrantInv, TypedInv, TypeOK, Procs

LEMMA MovePresentsNothing ==
    ASSUME GrantInv, NEW x \in Procs, NEW c, NEW status,
           NEW op \in {"authorize", "activate", "revoke", "expire"},
           StartMove(x, op, c, status)
    PROVE  NothingPresented /\ Quiet
  <1>1. NothingPresented
    BY DEF StartMove, Start, NothingPresented, GrantInv, TypedInv, TypeOK, Procs
  <1> QED BY <1>1, Untouched DEF StartMove, credentials, Quiet

LEMMA RevocationKeeps ==
    ASSUME GrantInv, NEW c, tokens' = RevokedForConsent(tokens, c),
           families' = RevokedForConsent(families, c)
    PROVE  IssuesNothing /\ SameHolders
  <1>1. /\ tokens \in [Tokens -> TokenRecord \cup {None}]
        /\ families \in [Families -> FamilyRecord \cup {None}]
    BY DEF GrantInv, TypedInv, TypeOK
  <1>2. \A r \in TokenRecord : /\ [r EXCEPT !.revoked = TRUE] # None
                               /\ [r EXCEPT !.revoked = TRUE].source = r.source
    <2>1. \A r \in TokenRecord : [r EXCEPT !.revoked = TRUE] \in TokenRecord
      BY DEF TokenRecord
    <2> QED BY <2>1, NoneIsNoRecord DEF TokenRecord
  <1>3. \A r \in FamilyRecord : /\ [r EXCEPT !.revoked = TRUE] # None
                                /\ [r EXCEPT !.revoked = TRUE].current = r.current
                                /\ [r EXCEPT !.revoked = TRUE].past = r.past
                                /\ [r EXCEPT !.revoked = TRUE].revoked
    <2>1. \A r \in FamilyRecord : [r EXCEPT !.revoked = TRUE] \in FamilyRecord
      BY DEF FamilyRecord
    <2> QED BY <2>1, NoneIsNoRecord DEF FamilyRecord
  <1>4. IssuesNothing
    BY <1>1, <1>2 DEF RevokedForConsent, IssuesNothing
  <1>5. SameHolders
    BY <1>1, <1>3 DEF RevokedForConsent, SameHolders
  <1> QED BY <1>4, <1>5

LEMMA ConsentStepQuiet ==
    ASSUME GrantInv, NEW x \in Requests, ConsentStep(x)
    PROVE  NothingPresented /\ Quiet
  <1> x \in Procs
    BY DEF Procs
  <1>1. ASSUME NEW c \in Consents, AuthorizeRead(x, c) \/ ActivateRead(x, c) \/ RevokeRead(x, c)
        PROVE  NothingPresented /\ Quiet
    BY <1>1, MovePresentsNothing DEF AuthorizeRead, ActivateRead, RevokeRead
  <1>2. ASSUME NEW code \in Codes, AuthorizeCommit(x, code)
        PROVE  NothingPresented /\ Quiet
    <2>1. UsedStays
      BY <1>2 DEF AuthorizeCommit, saveAuthorizationCode, UsedStays, GrantInv, TypedInv, TypeOK
    <2> QED BY <1>2, <2>1, Untouched, EndingPresentsNothing DEF AuthorizeCommit, Quiet
  <1>3. CASE ActivateCommit(x)
    BY <1>3, Untouched, EndingPresentsNothing DEF ActivateCommit, SaveOnly, credentials, Quiet
  <1>4. CASE RevokeCommit(x)
    BY <1>4, Untouched, EndingPresentsNothing, RevocationKeeps DEF RevokeCommit, Quiet
  <1> QED BY <1>1, <1>2, <1>3, <1>4 DEF ConsentStep

LEMMA RevokesQuiet ==
    ASSUME GrantInv, NEW rt \in RefreshTokens, NEW f \in Families,
           HandleReuse(rt, f) \/ RevokeRefreshToken(rt, f)
    PROVE  NothingPresented /\ Quiet
  <1>1. /\ families[f] # None
        /\ \/ families' = [families EXCEPT ![f].revoked = TRUE, ![f].reuseDetected = TRUE]
           \/ families' = [families EXCEPT ![f].revoked = TRUE]
        /\ UNCHANGED <<consents, lapsed, openReqs, codes, tokens, proc, revoked>>
    BY DEF HandleReuse, RevokeRefreshToken, FamilyOf, markReuseDetected,
           revokeRefreshTokenFamily
  <1>2. SameHolders
    <2> DEFINE p == [families[f] EXCEPT !.revoked = TRUE]
               r == [p EXCEPT !.reuseDetected = TRUE]
    <2>1. families \in [Families -> FamilyRecord \cup {None}] /\ families[f] \in FamilyRecord
      BY <1>1 DEF GrantInv, TypedInv, TypeOK
    <2>2. /\ p \in FamilyRecord /\ p.current = families[f].current
          /\ p.past = families[f].past /\ p.revoked
      BY <2>1 DEF FamilyRecord
    <2>3. /\ r \in FamilyRecord /\ r.current = families[f].current
          /\ r.past = families[f].past /\ r.revoked
      <3> HIDE DEF p
      <3> QED BY <2>2 DEF FamilyRecord
    <2>4. families' \in {[families EXCEPT ![f] = r], [families EXCEPT ![f] = p]}
      BY <1>1, <2>1
    <2> HIDE DEF p, r
    <2> QED BY <1>1, <2>1, <2>2, <2>3, <2>4, NoneIsNoRecord DEF SameHolders
  <1> QED BY <1>1, <1>2, Untouched DEF Quiet

LEMMA RevokeTokenQuiet ==
    ASSUME GrantInv, NEW token \in Tokens, RevokeAccessToken(token)
    PROVE  NothingPresented /\ Quiet
  <1>1. /\ tokens[token] # None /\ tokens' = [tokens EXCEPT ![token].revoked = TRUE]
        /\ UNCHANGED <<consents, lapsed, openReqs, codes, families, proc, revoked>>
    BY DEF RevokeAccessToken, revokeAccessToken
  <1>2. IssuesNothing
    <2> DEFINE r == [tokens[token] EXCEPT !.revoked = TRUE]
    <2>1. tokens \in [Tokens -> TokenRecord \cup {None}] /\ tokens[token] \in TokenRecord
      BY <1>1 DEF GrantInv, TypedInv, TypeOK
    <2>2. r \in TokenRecord /\ r.source = tokens[token].source
      BY <2>1 DEF TokenRecord
    <2>3. tokens' = [tokens EXCEPT ![token] = r]
      BY <1>1
    <2> HIDE DEF r
    <2> QED BY <1>1, <2>1, <2>2, <2>3, NoneIsNoRecord DEF IssuesNothing
  <1> QED BY <1>1, <1>2, Untouched DEF Quiet

\* Of all steps only a redemption or a refresh issues, and only these present.
LEMMA WhatAStepIs ==
    ASSUME GrantInv, [Next]_vars
    PROVE  \/ Quiet /\ NothingPresented
           \/ \E x \in Requests : Presents(x)
           \/ \E x \in Requests, token \in Tokens : ExchangeCommit(x, token)
           \/ \E x \in Requests, token \in Tokens, f \in Families, new \in RefreshTokens :
                 RefreshCommit(x, token, f, new)
  <1>1. ASSUME NEW c \in Consents,
               CreateConsent(c) \/ CreateAuthorizationRequest(c) \/ ConsentLapses(c)
        PROVE  Quiet /\ NothingPresented
    BY <1>1, Untouched DEF CreateConsent, CreateAuthorizationRequest, ConsentLapses,
                           credentials, Quiet
  <1>2. ASSUME NEW x \in Workers, ExpireStep(x) PROVE Quiet /\ NothingPresented
    <2> x \in Procs
      BY DEF Procs
    <2>1. ASSUME NEW c \in Consents, ExpireRead(x, c) PROVE Quiet /\ NothingPresented
      BY <2>1, MovePresentsNothing DEF ExpireRead
    <2>2. CASE ExpireCommit(x)
      BY <2>2, Untouched, EndingPresentsNothing DEF ExpireCommit, SaveOnly, credentials, Quiet
    <2> QED BY <1>2, <2>1, <2>2 DEF ExpireStep
  <1>3. ASSUME NEW x \in Procs, Abort(x) PROVE Quiet /\ NothingPresented
    BY <1>3, Untouched, EndingPresentsNothing DEF Abort, credentials, Quiet
  <1>4. CASE UNCHANGED vars
    BY <1>4, Untouched DEF vars, credentials, Quiet
  <1> QED BY <1>1, <1>2, <1>3, <1>4, ConsentStepQuiet, RevokesQuiet, RevokeTokenQuiet
          DEF Next, TokenStep, Presents

-----------------------------------------------------------------------------
\* Counting the tokens of a source.

Issued == {t \in Tokens : tokens[t] # None}

\* The calls that carry a code.
Carriers(code) == {x \in Requests : proc[x].uses = code}

LEMMA TokensStay ==
    ASSUME IssuesNothing, NEW source
    PROVE  Issued' = Issued /\ TokensFrom(source)' = TokensFrom(source)
  BY DEF IssuesNothing, Issued, TokensFrom

LEMMA TokensGrow ==
    ASSUME NEW token \in Tokens, NEW from, Issues(token, from), NEW source
    PROVE  /\ Issued' = Issued \cup {token}
           /\ token \notin TokensFrom(source)
           /\ TokensFrom(source)' = IF source = from THEN TokensFrom(source) \cup {token}
                                                     ELSE TokensFrom(source)
  BY DEF Issues, Issued, TokensFrom

LEMMA TokensCounted ==
    ASSUME IsFiniteSet(Issued), NEW source
    PROVE  IsFiniteSet(TokensFrom(source)) /\ Cardinality(TokensFrom(source)) \in Nat
  BY FS_Subset, FS_CardinalityType DEF Issued, TokensFrom

LEMMA RequestsCounted ==
    ASSUME NEW A \in SUBSET Requests
    PROVE  /\ IsFiniteSet(A) /\ Cardinality(A) \in Nat /\ Cardinality(Requests) \in Nat
           /\ Cardinality(A) <= Cardinality(Requests)
  BY IdentityAssumption, FS_Subset, FS_CardinalityType

\* One call ends and one token appears: the sum is the same.
LEMMA OneForOne ==
    ASSUME NEW A, IsFiniteSet(A), NEW a, a \notin A, NEW B \in SUBSET Requests, NEW b \in B
    PROVE  Cardinality(A \cup {a}) + Cardinality(B \ {b}) = Cardinality(A) + Cardinality(B)
  <1>1. Cardinality(A) \in Nat /\ IsFiniteSet(B) /\ Cardinality(B) \in Nat
    BY RequestsCounted, FS_CardinalityType
  <1>2. Cardinality(A \cup {a}) = Cardinality(A) + 1
    BY FS_AddElement
  <1>3. Cardinality(B \ {b}) = Cardinality(B) - 1
    BY <1>1, FS_RemoveElement
  <1> QED BY <1>1, <1>2, <1>3

LEMMA FewerCalls ==
    ASSUME NEW B \in SUBSET Requests, NEW A \in SUBSET B
    PROVE  Cardinality(A) \in Nat /\ Cardinality(B) \in Nat
           /\ Cardinality(A) <= Cardinality(B)
  BY RequestsCounted, FS_Subset

-----------------------------------------------------------------------------
\* Codes.

\* A code that has yielded a token is used up: only calls that carry it already can
\* yield another.
Redeemed(code) ==
    /\ TokensFrom(code) = {} \/ (codes[code] # None /\ codes[code].used)
    /\ Cardinality(TokensFrom(code)) + Cardinality(Carriers(code)) <= Cardinality(Requests)

RedeemInv == IsFiniteSet(Issued) /\ \A code \in Codes : Redeemed(code)

\* What the two commits do to the credentials.
LEMMA ExchangeIssues ==
    ASSUME GrantInv, NEW x \in Requests, NEW token \in Tokens, ExchangeCommit(x, token)
    PROVE  /\ Issues(token, proc[x].uses) /\ proc[x].uses \in Codes
           /\ codes'[proc[x].uses] # None /\ codes'[proc[x].uses].used
           /\ UsedStays /\ proc' = [proc EXCEPT ![x] = Idle]
  <1> DEFINE code == proc[x].uses
             c == proc[x].consent
             stale == consents[c] # proc[x].base
             r == [consent |-> c, revoked |-> FALSE, source |-> code, stale |-> stale]
  <1> x \in Procs
    BY DEF Procs
  <1>1. code \in Codes /\ codes[code] # None /\ c \in Consents
    BY InFlight DEF GrantInv, ExchangeCommit
  <1>2. /\ codes' = [codes EXCEPT ![code].used = TRUE]
        /\ tokens[token] = None /\ tokens' = [tokens EXCEPT ![token] = r]
        /\ proc' = [proc EXCEPT ![x] = Idle]
    BY DEF ExchangeCommit, markAuthorizationCodeUsed, saveAccessToken, Finish
  <1>3. stale \in BOOLEAN
    OBVIOUS
  <1> HIDE DEF c, stale
  <1>4. r \in TokenRecord /\ r.source = code
    BY <1>1, <1>3 DEF TokenRecord
  <1> HIDE DEF code, r
  <1>5. Issues(token, code)
    BY <1>2, <1>4, NoneIsNoRecord DEF Issues, GrantInv, TypedInv, TypeOK
  <1>6. codes'[code] # None /\ codes'[code].used /\ UsedStays
    <2> DEFINE k == [codes[code] EXCEPT !.used = TRUE]
    <2>1. codes \in [Codes -> CodeRecord \cup {None}] /\ codes[code] \in CodeRecord
      BY <1>1 DEF GrantInv, TypedInv, TypeOK
    <2>2. k \in CodeRecord /\ k.used
      BY <2>1 DEF CodeRecord
    <2>3. codes' = [codes EXCEPT ![code] = k]
      BY <1>2
    <2> HIDE DEF k
    <2> QED BY <1>1, <2>1, <2>2, <2>3, NoneIsNoRecord DEF UsedStays
  <1> QED BY <1>1, <1>2, <1>5, <1>6 DEF code

LEMMA RefreshIssues ==
    ASSUME GrantInv, NEW x \in Requests, NEW token \in Tokens, NEW f \in Families,
           NEW new \in RefreshTokens, RefreshCommit(x, token, f, new)
    PROVE  /\ Issues(token, f) /\ codes' = codes
           /\ proc' = [proc EXCEPT ![x] = Idle]
  <1> DEFINE c == proc[x].consent
             stale == consents[c] # proc[x].base
             r == [consent |-> c, revoked |-> FALSE, source |-> f, stale |-> stale]
  <1> x \in Procs
    BY DEF Procs
  <1>1. c \in Consents
    BY InFlight DEF GrantInv, RefreshCommit
  <1>2. /\ tokens[token] = None /\ tokens' = [tokens EXCEPT ![token] = r]
        /\ proc' = [proc EXCEPT ![x] = Idle] /\ codes' = codes
    BY DEF RefreshCommit, saveAccessToken, Finish
  <1>3. stale \in BOOLEAN
    OBVIOUS
  <1> HIDE DEF c, stale
  <1>4. r \in TokenRecord /\ r.source = f
    BY <1>1, <1>3 DEF TokenRecord
  <1> HIDE DEF r
  <1> QED BY <1>2, <1>4, NoneIsNoRecord DEF Issues, GrantInv, TypedInv, TypeOK

\* Call x is over or begins; the others are as they were.
LEMMA OthersStay ==
    ASSUME GrantInv, NEW x \in Procs, NEW c, proc' = [proc EXCEPT ![x] = c]
    PROVE  proc'[x] = c /\ \A y \in Procs \ {x} : proc'[y] = proc[y]
  BY DEF GrantInv, TypedInv, TypeOK

LEMMA Presented ==
    ASSUME GrantInv, NEW x \in Procs, NEW op, NEW c, NEW row, NEW uses,
           Start(x, op, c, row, uses)
    PROVE  /\ proc'[x].uses = uses /\ proc'[x].op = op
           /\ \A y \in Procs \ {x} : proc'[y] = proc[y]
  BY DEF Start, GrantInv, TypedInv, TypeOK

LEMMA RedeemInvInit == Init => RedeemInv
  <1> SUFFICES ASSUME Init PROVE RedeemInv
    OBVIOUS
  <1>1. Issued = {} /\ \A code \in Codes : TokensFrom(code) = {}
    BY DEF Init, Issued, TokensFrom
  <1>2. \A code \in Codes : Cardinality(Carriers(code)) \in Nat
           /\ Cardinality(Carriers(code)) <= Cardinality(Requests)
    BY RequestsCounted DEF Carriers
  <1> QED BY <1>1, <1>2, FS_EmptySet, RequestsCounted DEF RedeemInv, Redeemed

LEMMA RedeemInvStep == GrantInv /\ RedeemInv /\ [Next]_vars => RedeemInv'
  <1> SUFFICES ASSUME GrantInv, RedeemInv, [Next]_vars PROVE RedeemInv'
    OBVIOUS
  <1> IsFiniteSet(Issued)
    BY DEF RedeemInv
  \* Nothing is issued and no call takes up the code, or none of its tokens exists.
  <1>1. ASSUME UsedStays, IssuesNothing, NEW code \in Codes,
               Carriers(code)' \subseteq Carriers(code) \/ TokensFrom(code) = {}
        PROVE  Redeemed(code)'
    <2>1. TokensFrom(code)' = TokensFrom(code)
      BY <1>1, TokensStay
    <2>2. TokensFrom(code)' = {} \/ (codes'[code] # None /\ codes'[code].used)
      BY <1>1, <2>1 DEF RedeemInv, Redeemed, UsedStays
    <2>3. Cardinality(TokensFrom(code)) \in Nat
      BY TokensCounted
    <2>4. Carriers(code) \subseteq Requests /\ Carriers(code)' \subseteq Requests
      BY DEF Carriers
    <2>5. CASE TokensFrom(code) = {}
      BY <2>1, <2>2, <2>4, <2>5, RequestsCounted, FS_EmptySet DEF Redeemed
    <2>6. CASE Carriers(code)' \subseteq Carriers(code)
      <3>1. /\ Cardinality(Carriers(code)') \in Nat /\ Cardinality(Carriers(code)) \in Nat
            /\ Cardinality(Carriers(code)') <= Cardinality(Carriers(code))
        BY <2>4, <2>6, FewerCalls
      <3>2. Cardinality(TokensFrom(code)) + Cardinality(Carriers(code))
               <= Cardinality(Requests)
            /\ Cardinality(Requests) \in Nat
        BY <2>4, RequestsCounted DEF RedeemInv, Redeemed
      <3>3. Cardinality(TokensFrom(code)') + Cardinality(Carriers(code)')
               <= Cardinality(Requests)
        BY <2>1, <2>3, <3>1, <3>2
      <3> QED BY <2>2, <3>3 DEF Redeemed
    <2> QED BY <1>1, <2>5, <2>6
  <1>2. CASE Quiet /\ NothingPresented
    <2>1. ASSUME NEW code \in Codes PROVE Carriers(code)' \subseteq Carriers(code)
      BY <1>2, IdentityAssumption DEF NothingPresented, Carriers
    <2> QED BY <1>1, <1>2, <2>1, TokensStay DEF Quiet, RedeemInv
  <1>3. ASSUME NEW x \in Requests, NEW read \in Codes, ExchangeRead(x, read)
        PROVE  RedeemInv'
    <2> x \in Procs
      BY DEF Procs
    <2>1. /\ codes[read] # None /\ ~codes[read].used
          /\ UNCHANGED <<consents, lapsed, credentials, revoked>>
      BY <1>3 DEF ExchangeRead, Redeemable
    <2>2. proc'[x].uses = read /\ \A y \in Procs \ {x} : proc'[y] = proc[y]
      BY <1>3, Presented DEF ExchangeRead
    <2>3. ASSUME NEW code \in Codes
          PROVE  Carriers(code)' \subseteq Carriers(code) \/ TokensFrom(code) = {}
      <3>1. CASE code = read
        BY <2>1, <3>1 DEF RedeemInv, Redeemed
      <3>2. CASE code # read
        BY <2>2, <3>2 DEF Carriers, Procs
      <3> QED BY <3>1, <3>2
    <2> QED BY <1>1, <2>1, <2>3, Untouched, TokensStay DEF RedeemInv, credentials
  <1>4. ASSUME NEW x \in Requests, NEW rt \in RefreshTokens, NEW f \in Families,
               RefreshRead(x, rt, f)
        PROVE  RedeemInv'
    <2> x \in Procs
      BY DEF Procs
    <2>1. UNCHANGED <<consents, lapsed, credentials, revoked>>
      BY <1>4 DEF RefreshRead
    <2>2. proc'[x].uses = rt /\ \A y \in Procs \ {x} : proc'[y] = proc[y]
      BY <1>4, Presented DEF RefreshRead
    <2>3. ASSUME NEW code \in Codes PROVE Carriers(code)' \subseteq Carriers(code)
      BY <2>2, IdentityAssumption DEF Carriers, Procs
    <2> QED BY <1>1, <2>1, <2>3, Untouched, TokensStay DEF RedeemInv, credentials
  <1>5. ASSUME NEW x \in Requests, NEW token \in Tokens, ExchangeCommit(x, token)
        PROVE  RedeemInv'
    <2> PICK from \in Codes : from = proc[x].uses
      BY <1>5, ExchangeIssues
    <2>1. /\ Issues(token, from) /\ codes'[from] # None /\ codes'[from].used
          /\ UsedStays /\ proc' = [proc EXCEPT ![x] = Idle]
      BY <1>5, ExchangeIssues
    <2>2. proc'[x] = Idle /\ \A y \in Procs \ {x} : proc'[y] = proc[y]
      BY <2>1, OthersStay DEF Procs
    <2>3. IsFiniteSet(Issued')
      BY <2>1, TokensGrow, FS_AddElement
    <2>4. ASSUME NEW code \in Codes PROVE Redeemed(code)'
      <3>1. /\ token \notin TokensFrom(code)
            /\ TokensFrom(code)' = IF code = from THEN TokensFrom(code) \cup {token}
                                                  ELSE TokensFrom(code)
        BY <2>1, TokensGrow
      <3>2. Carriers(code)' = IF code = from THEN Carriers(code) \ {x} ELSE Carriers(code)
        BY <2>2, IdentityAssumption DEF Carriers, Idle, Procs
      <3>3. Carriers(code) \subseteq Requests /\ (code = from => x \in Carriers(code))
        BY DEF Carriers
      <3>4. Cardinality(TokensFrom(code)') + Cardinality(Carriers(code)')
               = Cardinality(TokensFrom(code)) + Cardinality(Carriers(code))
        BY <3>1, <3>2, <3>3, OneForOne, TokensCounted
      <3>5. TokensFrom(code)' = {} \/ (codes'[code] # None /\ codes'[code].used)
        BY <2>1, <3>1 DEF RedeemInv, Redeemed, UsedStays
      <3> QED BY <3>4, <3>5 DEF RedeemInv, Redeemed
    <2> QED BY <2>3, <2>4 DEF RedeemInv
  <1>6. ASSUME NEW x \in Requests, NEW token \in Tokens, NEW f \in Families,
               NEW new \in RefreshTokens, RefreshCommit(x, token, f, new)
        PROVE  RedeemInv'
    <2>1. /\ Issues(token, f) /\ codes' = codes /\ proc' = [proc EXCEPT ![x] = Idle]
      BY <1>6, RefreshIssues
    <2>2. proc'[x] = Idle /\ \A y \in Procs \ {x} : proc'[y] = proc[y]
      BY <2>1, OthersStay DEF Procs
    <2>3. IsFiniteSet(Issued')
      BY <2>1, TokensGrow, FS_AddElement
    <2>4. ASSUME NEW code \in Codes PROVE Redeemed(code)'
      <3>1. TokensFrom(code)' = TokensFrom(code)
        BY <2>1, TokensGrow, IdentityAssumption
      <3>2. Carriers(code)' \subseteq Carriers(code) /\ Carriers(code) \subseteq Requests
        BY <2>2, IdentityAssumption DEF Carriers, Idle, Procs
      <3>3. /\ Cardinality(Carriers(code)') \in Nat /\ Cardinality(Carriers(code)) \in Nat
            /\ Cardinality(Carriers(code)') <= Cardinality(Carriers(code))
        BY <3>2, FewerCalls
      <3>4. /\ Cardinality(TokensFrom(code)) \in Nat /\ Cardinality(Requests) \in Nat
            /\ Cardinality(TokensFrom(code)) + Cardinality(Carriers(code))
                  <= Cardinality(Requests)
        BY <3>2, TokensCounted, RequestsCounted DEF RedeemInv, Redeemed
      <3>5. Cardinality(TokensFrom(code)') + Cardinality(Carriers(code)')
               <= Cardinality(Requests)
        BY <3>1, <3>3, <3>4
      <3> QED BY <2>1, <3>1, <3>5 DEF RedeemInv, Redeemed
    <2> QED BY <2>3, <2>4 DEF RedeemInv
  <1> QED BY <1>2, <1>3, <1>4, <1>5, <1>6, WhatAStepIs DEF Presents

LEMMA RedeemInvariant == Spec => [](GrantInv /\ RedeemInv)
  BY GrantInvInit, GrantInvStep, RedeemInvInit, RedeemInvStep, PTL DEF Spec

\* However redemptions overlap: the tokens a code has yielded and the calls that still
\* carry it are never more than the calls that can overlap.
THEOREM CodesYieldOnlyByOverlap == Spec => []RedeemedOnlyByOverlap
  <1>1. RedeemInv => RedeemedOnlyByOverlap
    BY DEF RedeemInv, Redeemed, RedeemedOnlyByOverlap, Carriers
  <1> QED BY <1>1, RedeemInvariant, PTL

-----------------------------------------------------------------------------
\* Refresh token families.

\* A refresh token is of one family, and a refresh in flight presents a known one.
OneFamily == \A rt \in RefreshTokens : \A f, g \in FamilyOf(rt) : f = g

UsesKnown == \A x \in Requests : proc[x].op = "refresh" => FamilyOf(proc[x].uses) # {}

HolderInv == OneFamily /\ UsesKnown

SameFamilies == \A rt \in RefreshTokens : FamilyOf(rt)' = FamilyOf(rt)

\* Family f gets a token that no family knew.
Adds(f, new) ==
    /\ FamilyOf(new) = {} /\ FamilyOf(new)' = {f}
    /\ \A rt \in RefreshTokens \ {new} : FamilyOf(rt)' = FamilyOf(rt)

DeadStays == \A f \in Families : IsDead(f) => IsDead(f)'

LEMMA HoldersStay == ASSUME SameHolders PROVE SameFamilies /\ DeadStays
  BY DEF SameHolders, SameFamilies, FamilyOf, DeadStays, IsDead

LEMMA UnknownToken ==
    ASSUME NEW rt, NoRefreshToken(rt)
    PROVE  FamilyOf(rt) = {}
  BY DEF NoRefreshToken, FamilyOf

LEMMA NewFamily ==
    ASSUME GrantInv, NEW f \in Families, NEW rt \in RefreshTokens, NEW c \in Consents,
           NoRefreshToken(rt), saveRefreshTokenFamily(f, c, rt)
    PROVE  Adds(f, rt) /\ DeadStays
  <1> DEFINE r == [consent |-> c, current |-> rt, past |-> {}, revoked |-> FALSE,
                   reuseDetected |-> FALSE]
  <1>1. families[f] = None /\ families' = [families EXCEPT ![f] = r]
    BY DEF saveRefreshTokenFamily
  <1>2. r # None /\ r.current = rt /\ r.past = {}
    <2>1. r \in FamilyRecord
      BY DEF FamilyRecord
    <2> QED BY <2>1, NoneIsNoRecord
  <1> HIDE DEF r
  <1>3. families'[f] = r /\ \A g \in Families \ {f} : families'[g] = families[g]
    BY <1>1 DEF GrantInv, TypedInv, TypeOK
  <1>4. FamilyOf(rt) = {}
    BY UnknownToken
  <1>5. \A t \in RefreshTokens \ {rt} : FamilyOf(t)' = FamilyOf(t)
    BY <1>1, <1>2, <1>3 DEF FamilyOf
  <1>6. FamilyOf(rt)' = {f}
    BY <1>2, <1>3, <1>4 DEF FamilyOf
  <1>7. DeadStays
    BY <1>1, <1>3 DEF DeadStays, IsDead
  <1> QED BY <1>4, <1>5, <1>6, <1>7 DEF Adds

LEMMA Rotation ==
    ASSUME GrantInv, NEW f \in Families, NEW new \in RefreshTokens, families[f] # None,
           NoRefreshToken(new), rotateRefreshToken(f, new)
    PROVE  Adds(f, new) /\ DeadStays
  <1> DEFINE p == [families[f] EXCEPT !.past = @ \cup {families[f].current}]
             r == [p EXCEPT !.current = new]
  <1>1. families \in [Families -> FamilyRecord \cup {None}] /\ families[f] \in FamilyRecord
    BY DEF GrantInv, TypedInv, TypeOK
  <1>2. /\ p \in FamilyRecord /\ p.past = families[f].past \cup {families[f].current}
        /\ p.revoked = families[f].revoked
    BY <1>1 DEF FamilyRecord
  <1>3. /\ r \in FamilyRecord /\ r.past = families[f].past \cup {families[f].current}
        /\ r.current = new /\ r.revoked = families[f].revoked
    <2> HIDE DEF p
    <2> QED BY <1>2 DEF FamilyRecord
  <1>4. families' = [families EXCEPT ![f] = r]
    BY <1>1 DEF rotateRefreshToken
  <1> HIDE DEF p, r
  <1>5. /\ families'[f] = r /\ r # None
        /\ \A g \in Families \ {f} : families'[g] = families[g]
    BY <1>1, <1>3, <1>4, NoneIsNoRecord
  <1>6. FamilyOf(new) = {}
    BY UnknownToken
  <1>7. \A t \in RefreshTokens \ {new} : FamilyOf(t)' = FamilyOf(t)
    BY <1>3, <1>5 DEF FamilyOf
  <1>8. FamilyOf(new)' = {f}
    BY <1>3, <1>5, <1>6 DEF FamilyOf
  <1>9. DeadStays
    BY <1>3, <1>5 DEF DeadStays, IsDead
  <1> QED BY <1>6, <1>7, <1>8, <1>9 DEF Adds

\* What a step does to families: at most one new token.
FamiliesStep ==
    SameFamilies \/ \E f \in Families, new \in RefreshTokens : Adds(f, new)

\* The calls of a step: none begins a refresh, or x reads one that is current.
ReadsCurrent(x) == \E rt \in RefreshTokens, f \in Families :
    /\ families[f] # None /\ families[f].current = rt /\ ~families[f].revoked
    /\ proc'[x].uses = rt
    /\ \A y \in Procs \ {x} : proc'[y] = proc[y]

LEMMA FamilySteps ==
    ASSUME GrantInv, [Next]_vars
    PROVE  /\ FamiliesStep /\ DeadStays
           /\ \/ NothingPresented
              \/ \E x \in Requests : proc'[x].op # "refresh"
                                     /\ \A y \in Procs \ {x} : proc'[y] = proc[y]
              \/ \E x \in Requests : ReadsCurrent(x) /\ SameFamilies
  <1>1. CASE Quiet /\ NothingPresented
    BY <1>1, HoldersStay DEF Quiet, FamiliesStep
  <1>2. ASSUME NEW x \in Requests, NEW code \in Codes, ExchangeRead(x, code)
        PROVE  /\ SameFamilies /\ DeadStays /\ proc'[x].op # "refresh"
               /\ \A y \in Procs \ {x} : proc'[y] = proc[y]
    <2>1. families' = families
      BY <1>2 DEF ExchangeRead, credentials
    <2>2. proc'[x].op = "exchange" /\ \A y \in Procs \ {x} : proc'[y] = proc[y]
      BY <1>2, Presented DEF ExchangeRead, Procs
    <2> QED BY <2>1, <2>2, HoldersStay, Untouched
  <1>3. ASSUME NEW x \in Requests, NEW rt \in RefreshTokens, NEW f \in Families,
               RefreshRead(x, rt, f)
        PROVE  SameFamilies /\ DeadStays /\ ReadsCurrent(x)
    <2>1. families' = families
      BY <1>3 DEF RefreshRead, credentials
    <2>2. proc'[x].uses = rt /\ \A y \in Procs \ {x} : proc'[y] = proc[y]
      BY <1>3, Presented DEF RefreshRead, Procs
    <2>3. families[f] # None /\ families[f].current = rt /\ ~families[f].revoked
      BY <1>3 DEF RefreshRead, IsReuse, FamilyOf
    <2> QED BY <2>1, <2>2, <2>3, HoldersStay, Untouched DEF ReadsCurrent
  <1>4. ASSUME NEW x \in Requests, NEW token \in Tokens, ExchangeCommit(x, token)
        PROVE  FamiliesStep /\ DeadStays /\ NothingPresented
    <2>1. NothingPresented
      BY <1>4, EndingPresentsNothing DEF ExchangeCommit, Procs
    <2> PICK c : c = proc[x].consent
      OBVIOUS
    <2>2. c \in Consents
      BY <1>4, InFlight DEF ExchangeCommit, GrantInv, Procs
    <2>3. \/ families' = families
          \/ \E f \in Families, rt \in RefreshTokens :
                NoRefreshToken(rt) /\ saveRefreshTokenFamily(f, c, rt)
      BY <1>4 DEF ExchangeCommit
    <2> QED BY <2>1, <2>2, <2>3, NewFamily, HoldersStay, Untouched DEF FamiliesStep
  <1>5. ASSUME NEW x \in Requests, NEW token \in Tokens, NEW f \in Families,
               NEW new \in RefreshTokens, RefreshCommit(x, token, f, new)
        PROVE  FamiliesStep /\ DeadStays /\ NothingPresented
    <2>1. NothingPresented
      BY <1>5, EndingPresentsNothing DEF RefreshCommit, Procs
    <2>2. families[f] # None /\ NoRefreshToken(new) /\ rotateRefreshToken(f, new)
      BY <1>5 DEF RefreshCommit, FamilyOf
    <2> QED BY <2>1, <2>2, Rotation DEF FamiliesStep
  <1> QED BY <1>1, <1>2, <1>3, <1>4, <1>5, WhatAStepIs DEF Presents, FamiliesStep

LEMMA HolderInvInit == Init => HolderInv
  <1> SUFFICES ASSUME Init PROVE HolderInv
    OBVIOUS
  <1>1. \A rt : FamilyOf(rt) = {}
    BY DEF Init, FamilyOf
  <1>2. \A x \in Requests : proc[x].op # "refresh"
    BY DEF Init, Idle, Procs
  <1> QED BY <1>1, <1>2 DEF HolderInv, OneFamily, UsesKnown

\* A refresh in flight has presented a refresh token.
LEMMA RefreshUses ==
    ASSUME GrantInv, NEW x \in Requests, proc[x].op = "refresh"
    PROVE  proc[x].uses \in RefreshTokens
  BY InFlight DEF GrantInv, Procs

LEMMA HolderInvStep == GrantInv /\ HolderInv /\ [Next]_vars => HolderInv'
  <1> SUFFICES ASSUME GrantInv, HolderInv, [Next]_vars PROVE HolderInv'
    OBVIOUS
  <1>1. FamiliesStep
    BY FamilySteps
  <1>2. OneFamily'
    BY <1>1 DEF FamiliesStep, SameFamilies, Adds, HolderInv, OneFamily
  <1>3. ASSUME NEW x \in Requests, proc'[x].op = "refresh", NEW rt, proc'[x].uses = rt
        PROVE  FamilyOf(rt)' # {}
    <2>1. ASSUME proc'[x] = proc[x]
          PROVE  FamilyOf(rt)' # {}
      <3>1. rt \in RefreshTokens /\ FamilyOf(rt) # {}
        BY <1>3, <2>1, RefreshUses DEF HolderInv, UsesKnown
      <3> QED BY <1>1, <3>1 DEF FamiliesStep, SameFamilies, Adds
    <2>2. ASSUME ReadsCurrent(x), SameFamilies
          PROVE  FamilyOf(rt)' # {}
      <3> PICK f \in Families :
                 families[f] # None /\ families[f].current = rt /\ rt \in RefreshTokens
        BY <1>3, <2>2 DEF ReadsCurrent
      <3>1. f \in FamilyOf(rt)
        BY DEF FamilyOf
      <3> QED BY <2>2, <3>1 DEF SameFamilies
    <2> QED BY <1>3, <2>1, <2>2, FamilySteps DEF NothingPresented, ReadsCurrent, Procs
  <1>4. \A x \in Requests : proc'[x].op = "refresh" => \E f \in Families :
           /\ families'[f] # None
           /\ proc'[x].uses = families'[f].current \/ proc'[x].uses \in families'[f].past
    BY <1>3 DEF FamilyOf
  <1>5. UsesKnown'
    BY <1>4 DEF UsesKnown, FamilyOf
  <1> QED BY <1>2, <1>5 DEF HolderInv

LEMMA HolderInvariant == Spec => [](GrantInv /\ RedeemInv /\ HolderInv)
  BY GrantInvInit, GrantInvStep, RedeemInvInit, RedeemInvStep, HolderInvInit, HolderInvStep,
     PTL DEF Spec

\* No call begins to refresh under a dead family.
LEMMA DeadIsNotRead ==
    ASSUME GrantInv, HolderInv, [Next]_vars, NEW f \in Families, IsDead(f)
    PROVE  RefreshesUnder(f)' \subseteq RefreshesUnder(f)
  <1>1. ASSUME NEW x \in Requests, proc'[x].op = "refresh",
               NEW rt, proc'[x].uses = rt, f \in FamilyOf(rt)'
        PROVE  proc[x].op = "refresh" /\ f \in FamilyOf(proc[x].uses)
    <2>1. CASE proc'[x] = proc[x]
      <3>1. rt \in RefreshTokens /\ FamilyOf(rt) # {}
        BY <1>1, <2>1, RefreshUses DEF HolderInv, UsesKnown
      <3>2. FamilyOf(rt)' = FamilyOf(rt)
        BY <3>1, FamilySteps DEF FamiliesStep, SameFamilies, Adds
      <3> QED BY <1>1, <2>1, <3>2
    <2>2. ASSUME ReadsCurrent(x), SameFamilies
          PROVE  FALSE
      <3> PICK g \in Families : /\ families[g] # None /\ families[g].current = rt
                                /\ ~families[g].revoked /\ rt \in RefreshTokens
        BY <1>1, <2>2 DEF ReadsCurrent
      <3>1. f \in FamilyOf(rt) /\ g \in FamilyOf(rt)
        BY <1>1, <2>2 DEF SameFamilies, FamilyOf
      <3> QED BY <3>1 DEF HolderInv, OneFamily, IsDead
    <2> QED BY <1>1, <2>1, <2>2, FamilySteps DEF NothingPresented, ReadsCurrent, Procs
  <1>2. ASSUME NEW x \in RefreshesUnder(f)' PROVE x \in RefreshesUnder(f)
    <2>1. x \in Requests /\ proc'[x].op = "refresh" /\ f \in FamilyOf(proc[x].uses)'
      BY <1>2 DEF RefreshesUnder
    <2> PICK rt : rt = proc'[x].uses
      OBVIOUS
    <2>2. f \in FamilyOf(rt)'
      BY <2>1 DEF FamilyOf
    <2> QED BY <1>1, <2>1, <2>2 DEF RefreshesUnder
  <1> QED BY <1>2

\* A token taken from a dead family costs it one of the calls that had read it.
LEMMA DeadYieldsNoMore ==
    ASSUME GrantInv, RedeemInv, HolderInv, [Next]_vars, NEW f \in Families, IsDead(f)
    PROVE  Cardinality(TokensFrom(f)') + Cardinality(RefreshesUnder(f)')
              <= Cardinality(TokensFrom(f)) + Cardinality(RefreshesUnder(f))
  <1>1. /\ RefreshesUnder(f)' \subseteq RefreshesUnder(f)
        /\ RefreshesUnder(f) \subseteq Requests
    BY DeadIsNotRead DEF RefreshesUnder
  <1>2. /\ IsFiniteSet(TokensFrom(f)) /\ Cardinality(TokensFrom(f)) \in Nat
    BY TokensCounted DEF RedeemInv
  <1>3. ASSUME TokensFrom(f)' = TokensFrom(f)
        PROVE  Cardinality(TokensFrom(f)') + Cardinality(RefreshesUnder(f)')
                  <= Cardinality(TokensFrom(f)) + Cardinality(RefreshesUnder(f))
    <2>1. /\ Cardinality(RefreshesUnder(f)') \in Nat /\ Cardinality(RefreshesUnder(f)) \in Nat
          /\ Cardinality(RefreshesUnder(f)') <= Cardinality(RefreshesUnder(f))
      BY <1>1, FewerCalls
    <2> QED BY <1>2, <1>3, <2>1
  <1>4. CASE Quiet
    BY <1>3, <1>4, TokensStay DEF Quiet
  <1>5. ASSUME NEW x \in Requests, Presents(x) PROVE TokensFrom(f)' = TokensFrom(f)
    <2>1. tokens' = tokens
      BY <1>5 DEF Presents, ExchangeRead, RefreshRead, credentials
    <2> QED BY <2>1, Untouched, TokensStay
  <1>6. ASSUME NEW x \in Requests, NEW token \in Tokens, ExchangeCommit(x, token)
        PROVE  TokensFrom(f)' = TokensFrom(f)
    <2> PICK from \in Codes : from = proc[x].uses /\ Issues(token, from)
      BY <1>6, ExchangeIssues
    <2> QED BY TokensGrow, IdentityAssumption
  <1>7. ASSUME NEW x \in Requests, NEW token \in Tokens, NEW g \in Families,
               NEW new \in RefreshTokens, RefreshCommit(x, token, g, new)
        PROVE  Cardinality(TokensFrom(f)') + Cardinality(RefreshesUnder(f)')
                  <= Cardinality(TokensFrom(f)) + Cardinality(RefreshesUnder(f))
    <2>1. Issues(token, g) /\ proc' = [proc EXCEPT ![x] = Idle]
      BY <1>7, RefreshIssues
    <2>2. /\ token \notin TokensFrom(f)
          /\ TokensFrom(f)' = IF f = g THEN TokensFrom(f) \cup {token} ELSE TokensFrom(f)
      BY <2>1, TokensGrow
    <2>3. CASE f = g
      <3>1. x \in RefreshesUnder(f)
        BY <1>7, <2>3 DEF RefreshCommit, RefreshesUnder
      <3>2. x \notin RefreshesUnder(f)'
        <4>1. proc'[x] = Idle
          BY <2>1, OthersStay DEF Procs
        <4> QED BY <4>1 DEF Idle, RefreshesUnder
      <3>3. RefreshesUnder(f)' \subseteq RefreshesUnder(f) \ {x}
        BY <1>1, <3>2
      <3>4. /\ Cardinality(RefreshesUnder(f)') \in Nat
            /\ Cardinality(RefreshesUnder(f) \ {x}) \in Nat
            /\ Cardinality(RefreshesUnder(f)') <= Cardinality(RefreshesUnder(f) \ {x})
        BY <1>1, <3>3, FewerCalls
      <3>5. Cardinality(TokensFrom(f) \cup {token}) + Cardinality(RefreshesUnder(f) \ {x})
               = Cardinality(TokensFrom(f)) + Cardinality(RefreshesUnder(f))
        BY <1>1, <1>2, <2>2, <3>1, OneForOne
      <3>6. Cardinality(TokensFrom(f) \cup {token}) \in Nat
        BY <1>2, FS_AddElement, FS_CardinalityType
      <3>7. TokensFrom(f)' = TokensFrom(f) \cup {token}
        BY <2>2, <2>3
      <3> QED BY <3>4, <3>5, <3>6, <3>7
    <2>4. CASE f # g
      BY <1>3, <2>2, <2>4
    <2> QED BY <2>3, <2>4
  <1> QED BY <1>3, <1>4, <1>5, <1>6, <1>7, WhatAStepIs

\* Revoked for reuse, by its client or with its consent: a family stays so, only the
\* refreshes that had read it before still take a token, and none of its refresh tokens
\* is active by introspection.
THEOREM DeadFamiliesAreNotRevived == Spec => DeadFamiliesStayDead
  <1>1. ASSUME GrantInv, RedeemInv, HolderInv, [Next]_vars, NEW f \in Families, IsDead(f)
        PROVE  /\ IsDead(f)'
               /\ (Cardinality(TokensFrom(f)) + Cardinality(RefreshesUnder(f)))'
                     <= Cardinality(TokensFrom(f)) + Cardinality(RefreshesUnder(f))
               /\ \A rt \in RefreshTokens : (f \in FamilyOf(rt) => ~introspect(rt))'
    <2>1. IsDead(f)'
      BY <1>1, FamilySteps DEF DeadStays
    <2>2. OneFamily'
      BY <1>1, HolderInvStep DEF HolderInv
    <2>3. ASSUME NEW rt \in RefreshTokens, f \in FamilyOf(rt)' PROVE ~introspect(rt)'
      <3>1. \A g \in FamilyOf(rt)' : g = f
        BY <2>2, <2>3 DEF OneFamily
      <3>2. families'[f].revoked
        BY <2>1 DEF IsDead
      <3>3. rt \notin Tokens
        BY IdentityAssumption
      <3> QED BY <3>1, <3>2, <3>3 DEF introspect
    <2>4. (Cardinality(TokensFrom(f)) + Cardinality(RefreshesUnder(f)))'
             <= Cardinality(TokensFrom(f)) + Cardinality(RefreshesUnder(f))
      BY <1>1, DeadYieldsNoMore
    <2> QED BY <2>1, <2>3, <2>4
  <1>2. GrantInv /\ RedeemInv /\ HolderInv /\ [Next]_vars =>
           [\A f \in Families : IsDead(f) =>
               /\ IsDead(f)'
               /\ (Cardinality(TokensFrom(f)) + Cardinality(RefreshesUnder(f)))'
                     <= Cardinality(TokensFrom(f)) + Cardinality(RefreshesUnder(f))
               /\ \A rt \in RefreshTokens : (f \in FamilyOf(rt) => ~introspect(rt))']_vars
    BY <1>1
  <1> QED BY <1>2, HolderInvariant, PTL DEF Spec, DeadFamiliesStayDead

=============================================================================
