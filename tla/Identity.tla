------------------------------- MODULE Identity -------------------------------
(***************************************************************************)
(* Consents and the credentials issued under them: authorization codes,    *)
(* access tokens and refresh token families.                               *)
(*                                                                         *)
(* As with payments, a use case reads outside any transaction and saves    *)
(* the whole consent it read, changed or not, in a later transaction with  *)
(* whatever it issues.  Calls in flight are processes.                     *)
(*                                                                         *)
(* The reads of one call are one step, at the time of the first of them.   *)
(*                                                                         *)
(* A refused call changes nothing and is not a step; client secrets, PKCE, *)
(* redirect URIs and the lifetimes of requests, codes and tokens only      *)
(* refuse, so a behaviour here is one in which the caller passed them.     *)
(* Scopes matter here only for offline_access.                             *)
(***************************************************************************)
EXTENDS Naturals, FiniteSets, StateMachines

CONSTANTS
    Consents,       \* consent identifiers
    Codes,          \* authorization codes
    Tokens,         \* access token records, by jti
    Families,       \* refresh token families
    RefreshTokens,  \* opaque refresh tokens
    Requests,       \* API calls that can be in flight at once
    Workers,        \* candidates the consent expiration workers have in hand: a batch
                    \* is read at once and saved one consent after the other
    None

Procs == Requests \cup Workers

\* Identifiers of different kinds differ; finitely many calls overlap.
ASSUME IdentityAssumption ==
    /\ Requests \cap Workers = {} /\ IsFiniteSet(Requests)
    /\ Tokens \cap RefreshTokens = {} /\ Codes \cap (RefreshTokens \cup Families) = {}
    /\ None \notin Consents \cup Codes \cup Tokens \cup Families \cup RefreshTokens

VARIABLES
    consents,   \* table consents: [Consents -> row or None]
    lapsed,     \* the consents whose expiresAt has passed
    openReqs,   \* the consents with an authorization request not yet consumed
    codes,      \* table authorization_codes: [Codes -> record or None]
    tokens,     \* table access_token_records: [Tokens -> record or None]
    families,   \* refresh token families with their tokens: [Families -> record or None]
    proc,       \* the call each process has in flight
    revoked     \* history: the consents whose revocation has been committed

credentials == <<openReqs, codes, tokens, families>>
vars == <<consents, lapsed, credentials, proc, revoked>>

-----------------------------------------------------------------------------
\* The consent aggregate (domain/entities).

MaxVersion == 5   \* the longest path of the status graph, starting at 1

ConsentRow == [status: ConsentStatus, version: 1..MaxVersion]

MovedTo(row, status) == [status |-> status, version |-> row.version + 1]

\* Consent.create and submitForAuthorization: the row as it is first saved.
NewConsent == MovedTo([status |-> "DRAFT", version |-> 1], "AWAITING_AUTHORIZATION")

Exists(c) == consents[c] # None

HasStatus(c, statuses) == Exists(c) /\ consents[c].status \in statuses

\* The records of a code, of an access token and of a refresh token family.
CodeRecord == [consent: Consents, used: BOOLEAN]

TokenRecord == [consent: Consents, revoked: BOOLEAN, source: Codes \cup Families,
                stale: BOOLEAN]

FamilyRecord == [consent: Consents, current: RefreshTokens, past: SUBSET RefreshTokens,
                 revoked: BOOLEAN, reuseDetected: BOOLEAN]

ASSUME NoneIsNoRecord == None \notin ConsentRow \cup CodeRecord \cup TokenRecord \cup FamilyRecord

-----------------------------------------------------------------------------
\* Calls in flight: base is the consent as read, row the copy to save.

Idle == [op |-> "none", consent |-> None, base |-> None, row |-> None, uses |-> None]

Call == [op: {"none", "authorize", "activate", "exchange", "refresh", "revoke", "expire"},
         consent: Consents \cup {None}, base: ConsentRow \cup {None},
         row: ConsentRow \cup {None}, uses: Codes \cup RefreshTokens \cup {None}]

IsIdle(x) == proc[x] = Idle

\* Process x has read consent c and will save row; uses is the credential presented.
Start(x, op, c, row, uses) ==
    proc' = [proc EXCEPT ![x] = [op |-> op, consent |-> c, base |-> consents[c],
                                 row |-> row, uses |-> uses]]

Finish(x) == proc' = [proc EXCEPT ![x] = Idle]

\* A call that moves the consent along an edge, or is refused.
StartMove(x, op, c, status) ==
    /\ canTransitionConsent(consents[c].status, status)
    /\ Start(x, op, c, MovedTo(consents[c], status), None)
    /\ UNCHANGED <<consents, lapsed, credentials, revoked>>

\* The database counts the version up instead of storing the one in memory.
save_CountsVersion(c, row) ==
    consents' = [consents EXCEPT ![c] =
        IF Exists(c) THEN [row EXCEPT !.version = consents[c].version + 1] ELSE row]

\* ConsentRepository.save: an upsert on the id alone.
save(c, row) == consents' = [consents EXCEPT ![c] = row]

-----------------------------------------------------------------------------
\* TokenRepository, one operator per method.  No update looks at what the row says
\* by then.

saveAuthorizationRequest(c) == openReqs' = openReqs \cup {c}

findOpenAuthorizationRequestByConsentId(c) == openReqs \cap {c}

markAuthorizationRequestConsumed(c) == openReqs' = openReqs \ {c}

saveAuthorizationCode(code, c) ==
    /\ codes[code] = None
    /\ codes' = [codes EXCEPT ![code] = [consent |-> c, used |-> FALSE]]

markAuthorizationCodeUsed(code) == codes' = [codes EXCEPT ![code].used = TRUE]

\* Where a token came from is history: the code or family, and whether the issuing
\* call's view of the consent was out of date.
saveAccessToken(token, c, source, stale) ==
    /\ tokens[token] = None
    /\ tokens' = [tokens EXCEPT ![token] =
          [consent |-> c, revoked |-> FALSE, source |-> source, stale |-> stale]]

revokeAccessToken(token) == tokens' = [tokens EXCEPT ![token].revoked = TRUE]

\* The tokens are forgotten.
RevokedForConsent_None(records, c) == records

\* revokeAccessTokensForConsent, revokeRefreshTokenFamiliesForConsent
RevokedForConsent(records, c) ==
    [i \in DOMAIN records |->
        IF records[i] # None /\ records[i].consent = c
        THEN [records[i] EXCEPT !.revoked = TRUE] ELSE records[i]]

saveRefreshTokenFamily(f, c, rt) ==
    /\ families[f] = None
    /\ families' = [families EXCEPT ![f] =
          [consent |-> c, current |-> rt, past |-> {}, revoked |-> FALSE,
           reuseDetected |-> FALSE]]

\* findRefreshTokenFamilyByHash: by the current token, else by the ones it replaced.
FamilyOf(rt) == {f \in Families : /\ families[f] # None
                                  /\ rt = families[f].current \/ rt \in families[f].past}

\* The family is written back as it was read, which was before it was revoked.
rotateRefreshToken_WholeRow(f, new) ==
    families' = [families EXCEPT ![f].past = @ \cup {families[f].current},
                                 ![f].current = new,
                                 ![f].revoked = FALSE, ![f].reuseDetected = FALSE]

\* Replaces whatever token is current by now; the revocation columns stay.
rotateRefreshToken(f, new) ==
    families' = [families EXCEPT ![f].past = @ \cup {families[f].current},
                                 ![f].current = new]

revokeRefreshTokenFamily(f) == families' = [families EXCEPT ![f].revoked = TRUE]

markReuseDetected(f) ==
    families' = [families EXCEPT ![f].revoked = TRUE, ![f].reuseDetected = TRUE]

-----------------------------------------------------------------------------
\* Creation.  Nothing is read that could become stale, so it is one step.

\* create-consent.use-case.ts: no authorization request comes with it.
CreateConsent(c) ==
    /\ ~Exists(c)
    /\ save(c, NewConsent)
    /\ UNCHANGED <<lapsed, credentials, proc, revoked>>

\* create-authorization-request.use-case.ts
CreateAuthorizationRequest(c) ==
    /\ ~Exists(c)
    /\ save(c, NewConsent)
    /\ saveAuthorizationRequest(c)
    /\ UNCHANGED <<lapsed, codes, tokens, families, proc, revoked>>

-----------------------------------------------------------------------------
\* authorize-consent.use-case.ts

AuthorizeRead(x, c) ==
    /\ IsIdle(x) /\ HasStatus(c, {"AWAITING_AUTHORIZATION"})
    /\ findOpenAuthorizationRequestByConsentId(c) # {}
    /\ StartMove(x, "authorize", c, "AUTHORIZED")

\* The request is consumed and the code is created with the consent.
AuthorizeCommit(x, code) ==
    LET c == proc[x].consent IN
    /\ proc[x].op = "authorize"
    /\ save(c, proc[x].row)
    /\ markAuthorizationRequestConsumed(c)
    /\ saveAuthorizationCode(code, c)
    /\ Finish(x)
    /\ UNCHANGED <<lapsed, tokens, families, revoked>>

-----------------------------------------------------------------------------
\* activate-consent, expire-consents

\* The rows a plain status change leaves behind.
SaveOnly(x, op) ==
    /\ proc[x].op = op
    /\ save(proc[x].consent, proc[x].row)
    /\ Finish(x)
    /\ UNCHANGED <<lapsed, credentials, revoked>>

ActivateRead(x, c) ==
    /\ IsIdle(x) /\ HasStatus(c, {"AUTHORIZED"})
    /\ StartMove(x, "activate", c, "ACTIVE")

ActivateCommit(x) == SaveOnly(x, "activate")

\* The status filter leaves out the statuses that grant access.
Expirable_WaitingOnly(c) == c \in lapsed /\ HasStatus(c, {"AWAITING_AUTHORIZATION"})

\* findExpirable
Expirable(c) == c \in lapsed /\ Exists(c) /\ ~isTerminalConsent(consents[c].status)

ExpireRead(x, c) ==
    /\ IsIdle(x) /\ Expirable(c)
    /\ StartMove(x, "expire", c, "EXPIRED")

ExpireCommit(x) == SaveOnly(x, "expire")

-----------------------------------------------------------------------------
\* revoke-consent.use-case.ts

RevokeRead(x, c) ==
    /\ IsIdle(x) /\ Exists(c) /\ ~isTerminalConsent(consents[c].status)
    /\ StartMove(x, "revoke", c, "REVOKED")

RevokeCommit(x) ==
    LET c == proc[x].consent IN
    /\ proc[x].op = "revoke"
    /\ save(c, proc[x].row)
    /\ tokens' = RevokedForConsent(tokens, c)
    /\ families' = RevokedForConsent(families, c)
    /\ revoked' = revoked \cup {c}
    /\ Finish(x)
    /\ UNCHANGED <<lapsed, openReqs, codes>>

-----------------------------------------------------------------------------
\* exchange-authorization-code.use-case.ts

\* The usedAt check is dropped.
Redeemable_Reusable(code) ==
    codes[code] # None /\ HasStatus(codes[code].consent, {"AUTHORIZED", "ACTIVE"})

Redeemable(code) ==
    /\ codes[code] # None /\ ~codes[code].used
    /\ HasStatus(codes[code].consent, {"AUTHORIZED", "ACTIVE"})

\* An ACTIVE consent is not changed by the call, but saved all the same.
ExchangeRead(x, code) ==
    LET c == codes[code].consent IN
    /\ IsIdle(x) /\ Redeemable(code)
    /\ Start(x, "exchange", c, IF consents[c].status = "AUTHORIZED"
                               THEN MovedTo(consents[c], "ACTIVE") ELSE consents[c], code)
    /\ UNCHANGED <<consents, lapsed, credentials, revoked>>

NoRefreshToken(rt) == \A f \in Families : families[f] # None =>
                         rt # families[f].current /\ rt \notin families[f].past

ExchangeCommit(x, token) ==
    LET c == proc[x].consent  code == proc[x].uses IN
    /\ proc[x].op = "exchange"
    /\ save(c, proc[x].row)
    /\ markAuthorizationCodeUsed(code)
    /\ saveAccessToken(token, c, code, consents[c] # proc[x].base)
    /\ \/ UNCHANGED families     \* offline_access not granted
       \/ \E f \in Families, rt \in RefreshTokens :
             NoRefreshToken(rt) /\ saveRefreshTokenFamily(f, c, rt)
    /\ Finish(x)
    /\ UNCHANGED <<lapsed, openReqs, revoked>>

-----------------------------------------------------------------------------
\* refresh-tokens.use-case.ts

\* isFamilyRevoked, or not the current token.
IsReuse(f, rt) ==
    families[f].revoked \/ families[f].reuseDetected \/ families[f].current # rt

RefreshRead(x, rt, f) ==
    LET c == families[f].consent IN
    /\ IsIdle(x) /\ f \in FamilyOf(rt) /\ ~IsReuse(f, rt)
    /\ HasStatus(c, {"ACTIVE"})
    /\ Start(x, "refresh", c, consents[c], rt)
    /\ UNCHANGED <<consents, lapsed, credentials, revoked>>

\* The consent is not saved.
RefreshCommit(x, token, f, new) ==
    /\ proc[x].op = "refresh" /\ f \in FamilyOf(proc[x].uses) /\ NoRefreshToken(new)
    /\ rotateRefreshToken(f, new)
    /\ saveAccessToken(token, proc[x].consent, f, consents[proc[x].consent] # proc[x].base)
    /\ Finish(x)
    /\ UNCHANGED <<consents, lapsed, openReqs, codes, revoked>>

\* handleReuse: the family only.
HandleReuse(rt, f) ==
    /\ f \in FamilyOf(rt) /\ IsReuse(f, rt)
    /\ markReuseDetected(f)
    /\ UNCHANGED <<consents, lapsed, openReqs, codes, tokens, proc, revoked>>

-----------------------------------------------------------------------------
\* revoke-token.use-case.ts: the update does not depend on what was read.

RevokeRefreshToken(rt, f) ==
    /\ f \in FamilyOf(rt)
    /\ revokeRefreshTokenFamily(f)
    /\ UNCHANGED <<consents, lapsed, openReqs, codes, tokens, proc, revoked>>

RevokeAccessToken(token) ==
    /\ tokens[token] # None
    /\ revokeAccessToken(token)
    /\ UNCHANGED <<consents, lapsed, openReqs, codes, families, proc, revoked>>

-----------------------------------------------------------------------------
\* The environment.

\* expiresAt of a consent passes.
ConsentLapses(c) ==
    /\ Exists(c) /\ c \notin lapsed
    /\ lapsed' = lapsed \cup {c}
    /\ UNCHANGED <<consents, credentials, proc, revoked>>

\* The call ends without its transaction: the process dies or the database fails.
Abort(x) ==
    /\ ~IsIdle(x)
    /\ Finish(x)
    /\ UNCHANGED <<consents, lapsed, credentials, revoked>>

-----------------------------------------------------------------------------

Init ==
    /\ consents = [c \in Consents |-> None]
    /\ lapsed   = {}
    /\ openReqs = {}
    /\ codes    = [code \in Codes |-> None]
    /\ tokens   = [t \in Tokens |-> None]
    /\ families = [f \in Families |-> None]
    /\ proc     = [x \in Procs |-> Idle]
    /\ revoked  = {}

ConsentStep(x) ==
    \/ \E c \in Consents : AuthorizeRead(x, c) \/ ActivateRead(x, c) \/ RevokeRead(x, c)
    \/ \E code \in Codes : AuthorizeCommit(x, code)
    \/ ActivateCommit(x) \/ RevokeCommit(x)

TokenStep(x) ==
    \/ \E code \in Codes : ExchangeRead(x, code)
    \/ \E token \in Tokens : ExchangeCommit(x, token)
    \/ \E rt \in RefreshTokens, f \in Families : RefreshRead(x, rt, f)
    \/ \E token \in Tokens, f \in Families, new \in RefreshTokens :
          RefreshCommit(x, token, f, new)

ExpireStep(x) == (\E c \in Consents : ExpireRead(x, c)) \/ ExpireCommit(x)

Next ==
    \/ \E c \in Consents :
          CreateConsent(c) \/ CreateAuthorizationRequest(c) \/ ConsentLapses(c)
    \/ \E x \in Requests : ConsentStep(x) \/ TokenStep(x)
    \/ \E x \in Workers : ExpireStep(x)
    \/ \E x \in Procs : Abort(x)
    \/ \E rt \in RefreshTokens, f \in Families : HandleReuse(rt, f) \/ RevokeRefreshToken(rt, f)
    \/ \E token \in Tokens : RevokeAccessToken(token)

Spec == Init /\ [][Next]_vars

\* The expiration worker's timer keeps firing and its transaction does not fail
\* every time.
Fairness == \A x \in Workers :
    /\ \A c \in Consents : SF_vars(ExpireRead(x, c))
    /\ SF_vars(ExpireCommit(x))

FairSpec == Spec /\ Fairness

-----------------------------------------------------------------------------
\* What a resource request is decided on.

\* BearerAuthGuard.canActivate: the token's record exists and is not revoked.
canActivate(token) == tokens[token] # None /\ ~tokens[token].revoked

\* AccessPolicy.decideAccountAccess: the consent, read now, grants access and has
\* not lapsed.
decideAccountAccess(c) ==
    /\ Exists(c) /\ c \notin lapsed
    /\ isAccessGrantingConsent(consents[c].status)

\* introspect-token.use-case.ts: active or not.  A JWT counts by its own record and
\* another token by its family, also when it was rotated out; the consent by neither.
introspect(token) ==
    IF token \in Tokens THEN canActivate(token)
    ELSE \E f \in FamilyOf(token) : ~families[f].revoked

CanAccess(token) == canActivate(token) /\ decideAccountAccess(tokens[token].consent)

-----------------------------------------------------------------------------
\* Properties.

\* Tables, calls and histories have their types; no version exceeds the longest
\* path of the status graph, however calls overlap.
TypeOK ==
    /\ consents \in [Consents -> ConsentRow \cup {None}]
    /\ lapsed   \in SUBSET Consents
    /\ openReqs \in SUBSET Consents
    /\ codes    \in [Codes -> CodeRecord \cup {None}]
    /\ tokens   \in [Tokens -> TokenRecord \cup {None}]
    /\ families \in [Families -> FamilyRecord \cup {None}]
    /\ proc     \in [Procs -> Call]
    /\ revoked  \in SUBSET Consents

\* The consent graph is broken only by lost updates: a step that changes a stored
\* consent ends a call (or creates it), and if the row is still the one that call
\* read, the change is an edge of the graph.
ConsentLegalUnlessStale ==
    [][\A c \in Consents : Exists(c) /\ consents'[c] # consents[c] =>
          \E x \in Procs :
             /\ proc[x].consent = c /\ proc[x].row = consents'[c] /\ proc'[x] = Idle
             /\ proc[x].base = consents[c] =>
                   consents'[c].status \in CONSENT_TRANSITIONS[consents[c].status]]_vars

\* Whatever was issued, refreshed or revoked meanwhile: while a consent is stored
\* as REVOKED every refresh token family under it is revoked, and the only tokens
\* left are those of calls that had read the consent before the revocation.
RevocationIsComplete ==
    \A c \in Consents : HasStatus(c, {"REVOKED"}) =>
        /\ \A f \in Families :
              families[f] # None /\ families[f].consent = c => families[f].revoked
        /\ \A t \in Tokens :
              tokens[t] # None /\ tokens[t].consent = c /\ ~tokens[t].revoked =>
                  tokens[t].stale

TokensFrom(source) == {t \in Tokens : tokens[t] # None /\ tokens[t].source = source}

\* A code is redeemed again only by calls in flight when it was redeemed first: the
\* tokens it has yielded and the calls that still carry it are never more than the
\* calls that can overlap.
RedeemedOnlyByOverlap ==
    \A code \in Codes :
        Cardinality(TokensFrom(code)) + Cardinality({x \in Requests : proc[x].uses = code})
            <= Cardinality(Requests)

IsDead(f) == families[f] # None /\ families[f].revoked

RefreshesUnder(f) == {x \in Requests : proc[x].op = "refresh" /\ f \in FamilyOf(proc[x].uses)}

\* A family revoked for reuse, by its client or with its consent is not revived by
\* the refreshes that read it before: it stays revoked, only those can still take an
\* access token from it, and none of its refresh tokens, rotated out, current or put
\* in by such a refresh, is active by introspection.
DeadFamiliesStayDead ==
    [][\A f \in Families : IsDead(f) =>
          /\ IsDead(f)'
          /\ (Cardinality(TokensFrom(f)) + Cardinality(RefreshesUnder(f)))'
                <= Cardinality(TokensFrom(f)) + Cardinality(RefreshesUnder(f))
          /\ \A rt \in RefreshTokens : (f \in FamilyOf(rt) => ~introspect(rt))']_vars

\* Every consent whose lifetime is over ends for good: stale saves may reopen it,
\* the worker ends it again, and the last save is the worker's (or a revocation).
LapsedConsentsEnd ==
    \A c \in Consents :
        c \in lapsed ~> [](Exists(c) /\ isTerminalConsent(consents[c].status))

\* After a consent was revoked no token of it opens a resource.
RevokedStaysIneffective ==
    \A t \in Tokens : tokens[t] # None /\ tokens[t].consent \in revoked => ~CanAccess(t)

=============================================================================
