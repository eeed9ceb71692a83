----------------------------- MODULE ScopeGrants ------------------------------
(***************************************************************************)
(* Which scopes and accounts a consent grants, from the authorization      *)
(* request to the token, and through the tables in between.                *)
(*                                                                         *)
(* A consent is a row with two child tables: its scopes, each granted or   *)
(* not, and its accounts.  Every save rewrites both from the copy in       *)
(* memory.  As in Identity calls read, change their copy and save it in a  *)
(* later transaction, so copies with different grants race; the status     *)
(* graph and revocation are the subject there, the grants are here.        *)
(*                                                                         *)
(* A consent is read by three statements outside a transaction: the row,   *)
(* then its scopes and its accounts, in either order.  A save that commits *)
(* between the two tears the copy.  A refreshed token has the scopes of    *)
(* its family, which are those of the code, and is the same token here.    *)
(* A set of scopes that is empty stands for null, too.                     *)
(***************************************************************************)
EXTENDS StateMachines

CONSTANTS
    Scopes,
    AllowedScopes,  \* those of the client
    Choices,        \* what users can grant: [scopes, accounts]
    Granters,       \* calls in flight
    NoRow

ASSUME GrantsAssumption == AllowedScopes \subseteq Scopes /\ NoRow \notin ConsentStatus

VARIABLES
    consentRow,  \* the status of the consent, or NoRow
    scopeRows,   \* its rows in consent_scope_grants: [scope -> granted]
    accountRows, \* its rows in consent_accounts
    codeScopes,  \* the scope sets of the codes issued
    tokenGrants, \* the scope sets of the access tokens issued
    granting,    \* calls in flight: what they have read of the consent, and what for
    asked,       \* history: the scopes of the authorization request
    decisions,   \* history: what users granted, as they said it
    tornRows     \* history: the rows were saved from a torn copy

grantVars == <<consentRow, scopeRows, accountRows, codeScopes, tokenGrants,
               granting, asked, decisions, tornRows>>

-----------------------------------------------------------------------------
\* ScopeSet

contains(scopes, s) == s \in scopes

containsAll(scopes, required) == required \subseteq scopes

\* The set itself.
reduceTo_All(scopes, allowed) == scopes

reduceTo(scopes, allowed) == scopes \cap allowed

-----------------------------------------------------------------------------
\* mappers.ts and ConsentRepository

toConsent(status, rows, accounts) ==
    [status |-> status, requested |-> DOMAIN rows,
     granted |-> {s \in DOMAIN rows : rows[s]}, accounts |-> accounts]

\* Scopes that were granted but not requested are added as granted.
consentScopeGrantRows(consent) ==
    [s \in consent.requested \cup consent.granted |-> contains(consent.granted, s)]

storedConsent == toConsent(consentRow, scopeRows, accountRows)

SaveRows(consent, accounts) ==
    /\ consentRow' = consent.status
    /\ scopeRows' = consentScopeGrantRows(consent)
    /\ accountRows' = accounts

\* The rows of accounts are added without deleting the old ones.
saveConsent_AddsAccounts(consent) == SaveRows(consent, accountRows \cup consent.accounts)

saveConsent(consent) == SaveRows(consent, consent.accounts)

-----------------------------------------------------------------------------
\* Consent

authorizeConsent(consent, choice) ==
    [consent EXCEPT !.status = "AUTHORIZED", !.accounts = choice.accounts,
                    !.granted = reduceTo(choice.scopes, consent.requested)]

NoRows == [s \in {} |-> FALSE]

NoGrant == [op |-> "none", status |-> "none", rows |-> NoRows, accounts |-> {},
            unread |-> {}, torn |-> FALSE, issue |-> {}, said |-> {}]

\* The row of the consent; the call will save it under the given status.
findConsent(x, op, status, issue, said) ==
    /\ granting[x] = NoGrant
    /\ granting' = [granting EXCEPT ![x] =
          [NoGrant EXCEPT !.op = op, !.status = status, !.unread = {"scopes", "accounts"},
                          !.issue = issue, !.said = said]]
    /\ UNCHANGED <<consentRow, scopeRows, accountRows, codeScopes, tokenGrants,
                   asked, decisions, tornRows>>

\* What it includes, one statement for each table.
ReadChild(x, child, call) ==
    /\ child \in granting[x].unread
    /\ granting' = [granting EXCEPT ![x] =
          [call EXCEPT !.unread = @ \ {child}, !.torn = @ \/ tornRows]]
    /\ UNCHANGED <<consentRow, scopeRows, accountRows, codeScopes, tokenGrants,
                   asked, decisions, tornRows>>

ReadScopes(x) == ReadChild(x, "scopes", [granting[x] EXCEPT !.rows = scopeRows])

ReadAccounts(x) == ReadChild(x, "accounts", [granting[x] EXCEPT !.accounts = accountRows])

\* A save came between the two.
Overtaken(call) ==
    [call EXCEPT !.torn = @ \/ call.unread \in {{"scopes"}, {"accounts"}}]

copyOf(x) == toConsent(granting[x].status, granting[x].rows, granting[x].accounts)

SaveCopy(x, op, copy, torn) ==
    /\ granting[x].op = op /\ granting[x].unread = {}
    /\ saveConsent(copy)
    /\ tornRows' = torn
    /\ granting' = [y \in Granters |-> IF y = x THEN NoGrant ELSE Overtaken(granting[y])]
    /\ UNCHANGED asked

-----------------------------------------------------------------------------
\* The use cases.

\* create-authorization-request; validateAuthorizationRequest refuses other scopes.
RequestScopes(scopes) ==
    /\ consentRow = NoRow /\ containsAll(AllowedScopes, scopes)
    /\ saveConsent([status |-> "AWAITING_AUTHORIZATION", requested |-> scopes,
                    granted |-> {}, accounts |-> {}])
    /\ asked' = scopes
    /\ UNCHANGED <<codeScopes, tokenGrants, granting, decisions, tornRows>>

\* authorize-consent: nothing left of what was granted is an error.
GrantRead(x, choice) ==
    /\ consentRow = "AWAITING_AUTHORIZATION"
    /\ findConsent(x, "authorize", "AUTHORIZED", {}, {choice})

GrantCommit(x) ==
    \E choice \in granting[x].said :
        LET copy == authorizeConsent(copyOf(x), choice) IN
        /\ copy.granted # {}
        /\ SaveCopy(x, "authorize", copy, FALSE)
        /\ codeScopes' = codeScopes \cup {copy.granted}
        /\ decisions' = decisions \cup {choice}
        /\ UNCHANGED tokenGrants

\* exchange-authorization-code: the token has the scopes of the code.
RedeemRead(x, scopes) ==
    /\ consentRow \in {"AUTHORIZED", "ACTIVE"}
    /\ findConsent(x, "exchange", "ACTIVE", scopes, {})

RedeemCommit(x) ==
    /\ SaveCopy(x, "exchange", copyOf(x), granting[x].torn)
    /\ tokenGrants' = tokenGrants \cup {granting[x].issue}
    /\ UNCHANGED <<codeScopes, decisions>>

\* revoke-consent, expire-consents
EndRead(x, status) ==
    /\ consentRow # NoRow /\ canTransitionConsent(consentRow, status)
    /\ findConsent(x, "end", status, {}, {})

EndCommit(x) ==
    /\ SaveCopy(x, "end", copyOf(x), granting[x].torn)
    /\ UNCHANGED <<codeScopes, tokenGrants, decisions>>

\* Any of them ends with an error.
CallFails(x) ==
    /\ granting[x] # NoGrant
    /\ granting' = [granting EXCEPT ![x] = NoGrant]
    /\ UNCHANGED <<consentRow, scopeRows, accountRows, codeScopes, tokenGrants,
                   asked, decisions, tornRows>>

GrantsInit ==
    /\ consentRow = NoRow /\ scopeRows = NoRows /\ accountRows = {}
    /\ codeScopes = {} /\ tokenGrants = {}
    /\ granting = [x \in Granters |-> NoGrant]
    /\ asked = {} /\ decisions = {} /\ tornRows = FALSE

GrantsNext ==
    \/ \E scopes \in SUBSET Scopes : RequestScopes(scopes)
    \/ \E x \in Granters :
         \/ \E choice \in Choices : GrantRead(x, choice)
         \/ \E scopes \in codeScopes : RedeemRead(x, scopes)
         \/ \E status \in {"REVOKED", "EXPIRED"} : EndRead(x, status)
         \/ ReadScopes(x) \/ ReadAccounts(x)
         \/ GrantCommit(x) \/ RedeemCommit(x) \/ EndCommit(x) \/ CallFails(x)

GrantsSpec == GrantsInit /\ [][GrantsNext]_grantVars

-----------------------------------------------------------------------------
\* Properties.

\* Tables and copies have their types; a stored consent never loses a scope that was
\* requested, however often it is saved and read back.
GrantsTypeOK ==
    /\ consentRow \in ConsentStatus \cup {NoRow}
    /\ consentRow # NoRow => DOMAIN scopeRows = asked
    /\ codeScopes \cup tokenGrants \subseteq SUBSET Scopes
    /\ \A x \in Granters : granting[x].op \in {"none", "authorize", "exchange", "end"}

\* A token opens an account for a scope (ensureAccess and the scopes of the token).
Opens(token, s, a) ==
    /\ consentRow \in ConsentStatus /\ isAccessGrantingConsent(consentRow)
    /\ contains(storedConsent.granted, s) /\ a \in storedConsent.accounts
    /\ contains(token, s)

\* Racing authorizations are mixed by torn reads only: whatever codes were issued and
\* copies saved, a token opens an account for a scope only if the scope was asked for
\* and one user decision granted that scope on that account.  If the stored rows go
\* back to a call that read the scopes of one decision and the accounts of another,
\* both still are of decisions.
MixedOnlyByTornReads ==
    \A token \in tokenGrants, s \in Scopes : \A a \in accountRows :
        Opens(token, s, a) =>
            /\ s \in asked
            /\ \E d, e \in decisions : /\ s \in d.scopes /\ a \in e.accounts
                                       /\ d = e \/ tornRows

=============================================================================
