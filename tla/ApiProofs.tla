------------------------------- MODULE ApiProofs -------------------------------
(***************************************************************************)
(* The parts of an API task that share no state with each other, for any   *)
(* number of tasks, keys, calls and rows: the signing keys, the grants of  *)
(* a consent, the account reads, and the amounts and balances; then, with  *)
(* the rate limiter of LimitsProofs, the module that composes them.        *)
(***************************************************************************)
EXTENDS MCApi, LimitsProofs, SequenceTheorems, FunctionTheorems

(***************************************************************************)
(* The signing keys, whatever the order of rotation steps, restarts and    *)
(* requests.  Neither property is inductive: a restart may come at any     *)
(* time, so what it will load has to be right at every time.  A task signs *)
(* with one key, and the public keys never lose a key that a task still    *)
(* signs with or that a live token still needs.                            *)
(***************************************************************************)

SignsAlone(task) == ring[task].sign = {ring[task].activeKid}

KeysInv ==
    /\ KeysTypeOK
    /\ secrets.private \in secrets.public
    /\ live \subseteq secrets.public
    /\ \A task \in Tasks : SignsAlone(task) /\ ring[task].activeKid \in secrets.public

\* What TokenService.initialize makes of the secrets of a task.
LEMMA InitializeFacts ==
    ASSUME NEW s \in Secrets
    PROVE  /\ initialize(s) \in Ring
           /\ initialize(s).sign = {s.private}
           /\ initialize(s).activeKid = s.private
           /\ initialize(s).verify = {s.private} \cup s.public
  BY DEF initialize, importKeyPair, importPublicKeys, Secrets, Ring

\* The secrets an operator starts with satisfy the invariant.
LEMMA KeysInvInit == KeysInit => KeysInv
<1> SUFFICES ASSUME KeysInit PROVE KeysInv
  OBVIOUS
<1>1. PICK kid \in Kids : secrets = [private |-> kid, public |-> {kid}]
  BY DEF KeysInit
<1>2. secrets \in Secrets /\ secrets.private = kid /\ secrets.public = {kid}
  BY <1>1 DEF Secrets
<1>3. \A task \in Tasks : ring[task] = initialize(secrets)
  BY DEF KeysInit
<1>4. KeysTypeOK
  BY <1>2, InitializeFacts DEF KeysTypeOK, KeysInit
<1>5. \A task \in Tasks : SignsAlone(task) /\ ring[task].activeKid = kid
  BY <1>2, <1>3, InitializeFacts DEF SignsAlone
<1> QED
  BY <1>2, <1>4, <1>5 DEF KeysInv, KeysInit

\* Every step keeps the invariant.
LEMMA KeysInvNext == KeysInv /\ [KeysNext]_keyVars => KeysInv'
<1> SUFFICES ASSUME KeysInv, [KeysNext]_keyVars PROVE KeysInv'
  OBVIOUS
<1> USE DEF KeysInv, KeysTypeOK
<1>1. ASSUME NEW task \in Tasks, issueAccessToken(task) PROVE KeysInv'
  <2>1. ring[task].activeKid \in Kids
    BY DEF Ring
  <2> QED
    BY <1>1, <2>1 DEF issueAccessToken, SignsAlone
<1>2. ASSUME NEW task \in Tasks, StartTask(task) PROVE KeysInv'
  <2>1. /\ UNCHANGED <<secrets, live>>
        /\ ring' = [ring EXCEPT ![task] = initialize(secrets)]
    BY <1>2 DEF StartTask
  <2>2. KeysTypeOK'
    BY <2>1, InitializeFacts
  <2>3. \A other \in Tasks : SignsAlone(other)' /\ (ring[other].activeKid \in secrets.public)'
    <3> SUFFICES ASSUME NEW other \in Tasks
                 PROVE  SignsAlone(other)' /\ (ring[other].activeKid \in secrets.public)'
      OBVIOUS
    <3>1. CASE other = task
      <4>1. ring'[other] = initialize(secrets)
        BY <2>1, <3>1
      <4> QED
        BY <2>1, <4>1, InitializeFacts DEF SignsAlone
    <3>2. CASE other # task
      BY <2>1, <3>2 DEF SignsAlone
    <3> QED
      BY <3>1, <3>2
  <2> QED
    BY <2>1, <2>2, <2>3
<1>3. ASSUME NEW kid \in Kids, PublishKey(kid) PROVE KeysInv'
  BY <1>3 DEF PublishKey, Secrets, SignsAlone
<1>4. ASSUME NEW kid \in Kids, SwitchKey(kid) PROVE KeysInv'
  BY <1>4 DEF SwitchKey, Secrets, SignsAlone
<1>5. ASSUME NEW kid \in Kids, RetireKey(kid) PROVE KeysInv'
  BY <1>5 DEF RetireKey, Secrets, SignsAlone
<1>6. ASSUME NEW kid \in Kids, TokensExpire(kid) PROVE KeysInv'
  BY <1>6 DEF TokensExpire, SignsAlone
<1>7. CASE UNCHANGED keyVars
  BY <1>7 DEF keyVars, SignsAlone
<1> QED
  BY <1>1, <1>2, <1>3, <1>4, <1>5, <1>6, <1>7 DEF KeysNext

\* The secrets and key rings of TokenService keep the invariant for ever.
THEOREM KeysAreKept == KeysSpec => []KeysInv
  BY KeysInvInit, KeysInvNext, PTL DEF KeysSpec

\* A task that runs with the secrets of the moment accepts every live token.
THEOREM TokensSurviveRotation == KeysSpec => []UpToDateTasksAcceptAll
<1>1. KeysInv => UpToDateTasksAcceptAll
  BY InitializeFacts
     DEF KeysInv, KeysTypeOK, UpToDateTasksAcceptAll, validateAccessToken
<1> QED
  BY <1>1, KeysAreKept, PTL

\* No task is ever without a signing key.
THEOREM TasksAlwaysSign == KeysSpec => []TasksCanSign
<1>1. KeysInv => TasksCanSign
  BY DEF KeysInv, SignsAlone, TasksCanSign, requireActiveSigningKey
<1> QED
  BY <1>1, KeysAreKept, PTL

-----------------------------------------------------------------------------
(***************************************************************************)
(* The grants of a consent.  Scope rows and account rows are each of one   *)
(* decision, whichever of the racing copies is saved last, and they are of *)
(* the same one unless a torn copy was saved.                              *)
(***************************************************************************)

GrantedIn(rows) == {s \in DOMAIN rows : rows[s]}

\* Rows of the scopes that were asked for, as one of the decisions grants them, if any.
ScopesKnown(rows) ==
    /\ DOMAIN rows = asked
    /\ GrantedIn(rows) # {} => \E d \in decisions : GrantedIn(rows) = d.scopes \cap asked

AccountsKnown(accounts) == accounts # {} => \E d \in decisions : accounts = d.accounts

\* Both are of one decision.
Paired(rows, accounts) ==
    GrantedIn(rows) # {} =>
        \E d \in decisions : GrantedIn(rows) = d.scopes \cap asked /\ accounts = d.accounts

StoredFits ==
    consentRow # NoRow =>
        /\ consentRow \in ConsentStatus
        /\ ScopesKnown(scopeRows) /\ AccountsKnown(accountRows)
        /\ ~ tornRows => Paired(scopeRows, accountRows)

GrantFields == {"op", "status", "rows", "accounts", "unread", "torn", "issue", "said"}

\* What a call has read was stored; unless a save tore it, the first part it read is
\* still there when it reads the second.
CopyFits(g) ==
    g = NoGrant \/
    /\ consentRow # NoRow
    /\ DOMAIN g = GrantFields /\ g.torn \in BOOLEAN
    /\ g.op \in {"authorize", "exchange", "end"} /\ g.status \in ConsentStatus
    /\ g.unread \subseteq {"scopes", "accounts"} /\ g.issue \subseteq Scopes
    /\ "scopes" \notin g.unread => ScopesKnown(g.rows)
    /\ "accounts" \notin g.unread => AccountsKnown(g.accounts)
    /\ ~ g.torn =>
          /\ g.unread = {} => Paired(g.rows, g.accounts)
          /\ g.unread = {"accounts"} => g.rows = scopeRows /\ ~ tornRows
          /\ g.unread = {"scopes"} => g.accounts = accountRows /\ ~ tornRows

GrantsInv ==
    /\ granting = [x \in Granters |-> granting[x]]
    /\ asked \subseteq Scopes
    /\ codeScopes \cup tokenGrants \subseteq SUBSET Scopes
    /\ StoredFits
    /\ \A x \in Granters : CopyFits(granting[x])

-----------------------------------------------------------------------------
\* Saving and reading back.

\* What a save leaves in the rows is what the copy granted, of what was asked for.
LEMMA SavedReads ==
    ASSUME NEW copy, copy.requested = asked, copy.granted \subseteq asked, saveConsent(copy)
    PROVE  /\ DOMAIN scopeRows' = asked /\ GrantedIn(scopeRows') = copy.granted
           /\ accountRows' = copy.accounts /\ consentRow' = copy.status
  <1>1. /\ scopeRows' = [s \in copy.requested \cup copy.granted |-> s \in copy.granted]
        /\ accountRows' = copy.accounts /\ consentRow' = copy.status
    BY DEF saveConsent, SaveRows, consentScopeGrantRows, contains
  <1>2. DOMAIN scopeRows' = asked /\ \A s \in asked : scopeRows'[s] <=> s \in copy.granted
    BY <1>1
  <1> QED BY <1>1, <1>2 DEF GrantedIn

\* What is known of any call, and of a copy that was read completely.
LEMMA InHand ==
    ASSUME GrantsInv, NEW x \in Granters
    PROVE  /\ granting[x].op \in {"none", "authorize", "exchange", "end"}
           /\ granting[x].issue \subseteq Scopes
           /\ granting[x].op # "none" => granting[x] # NoGrant /\ consentRow # NoRow
           /\ granting[x].unread # {} => granting[x] # NoGrant
  <1>1. CopyFits(granting[x])
    BY DEF GrantsInv
  <1>2. NoGrant.op = "none" /\ NoGrant.issue = {} /\ NoGrant.unread = {}
    BY DEF NoGrant
  <1>3. CASE granting[x] = NoGrant
    BY <1>2, <1>3
  <1>4. CASE granting[x] # NoGrant
    BY <1>1, <1>4 DEF CopyFits
  <1> QED BY <1>3, <1>4

LEMMA CopyInHand ==
    ASSUME GrantsInv, NEW x \in Granters, granting[x].op # "none", granting[x].unread = {}
    PROVE  LET copy == copyOf(x)
           IN  /\ copy.status = granting[x].status /\ copy.status \in ConsentStatus
               /\ copy.requested = asked /\ copy.granted = GrantedIn(granting[x].rows)
               /\ copy.granted \subseteq asked /\ copy.accounts = granting[x].accounts
               /\ ScopesKnown(granting[x].rows) /\ AccountsKnown(granting[x].accounts)
               /\ ~ granting[x].torn => Paired(granting[x].rows, granting[x].accounts)
  <1>1. CopyFits(granting[x]) /\ granting[x] # NoGrant
    BY InHand DEF GrantsInv
  <1>2. /\ granting[x].status \in ConsentStatus
        /\ ScopesKnown(granting[x].rows) /\ AccountsKnown(granting[x].accounts)
        /\ ~ granting[x].torn => Paired(granting[x].rows, granting[x].accounts)
    BY <1>1 DEF CopyFits
  <1> QED BY <1>2 DEF copyOf, toConsent, ScopesKnown, GrantedIn

-----------------------------------------------------------------------------
\* The steps.

LEMMA GrantsInvInit == GrantsInit => GrantsInv
  BY DEF GrantsInit, GrantsInv, StoredFits, CopyFits

\* A call changes what it holds, and nothing else changes.
LEMMA HoldInv ==
    ASSUME GrantsInv, NEW x \in Granters, NEW g, CopyFits(g),
           granting' = [granting EXCEPT ![x] = g],
           UNCHANGED <<consentRow, scopeRows, accountRows, codeScopes, tokenGrants,
                       asked, decisions, tornRows>>
    PROVE  GrantsInv'
  <1>1. granting' = [y \in Granters |-> IF y = x THEN g ELSE granting[y]]
    BY DEF GrantsInv
  <1>2. \A y \in Granters : CopyFits(granting'[y])
    BY <1>1 DEF GrantsInv
  <1>3. ASSUME NEW y \in Granters PROVE CopyFits(granting[y])'
    BY <1>2 DEF CopyFits, ScopesKnown, AccountsKnown, Paired
  <1>4. StoredFits'
    BY DEF GrantsInv, StoredFits, ScopesKnown, AccountsKnown, Paired
  <1>5. granting' = [y \in Granters |-> granting'[y]]
    BY <1>1
  <1> QED BY <1>3, <1>4, <1>5 DEF GrantsInv

LEMMA FindInv ==
    ASSUME GrantsInv, NEW x \in Granters, consentRow # NoRow,
           NEW op \in {"authorize", "exchange", "end"}, NEW status \in ConsentStatus,
           NEW issue \in SUBSET Scopes, NEW said, findConsent(x, op, status, issue, said)
    PROVE  GrantsInv'
  <1> PICK g : g = [NoGrant EXCEPT !.op = op, !.status = status,
                                   !.unread = {"scopes", "accounts"},
                                   !.issue = issue, !.said = said]
    OBVIOUS
  <1>1. /\ g.op = op /\ g.status = status /\ g.issue = issue
        /\ g.unread = {"scopes", "accounts"} /\ g.torn = FALSE /\ DOMAIN g = GrantFields
    BY DEF NoGrant, GrantFields
  <1>2. /\ "scopes" \in g.unread /\ "accounts" \in g.unread
        /\ g.unread # {} /\ g.unread # {"accounts"} /\ g.unread # {"scopes"}
    BY ONLY <1>1
  <1>3. g.torn \in BOOLEAN
    BY DEF NoGrant
  <1>4. CopyFits(g)
    BY ONLY <1>1, <1>2, <1>3, consentRow # NoRow, op \in {"authorize", "exchange", "end"},
            status \in ConsentStatus, issue \in SUBSET Scopes DEF CopyFits
  <1> QED BY <1>4, HoldInv DEF findConsent

\* What a call reads was stored; with the part it read before it is a pair if the rows
\* are and nothing was saved between.
LEMMA ReadChildInv ==
    ASSUME GrantsInv, NEW x \in Granters, ReadScopes(x) \/ ReadAccounts(x)
    PROVE  GrantsInv'
  <1> PICK c : c = granting[x]
    OBVIOUS
  <1>0. CopyFits(c) /\ c # NoGrant /\ c.unread \subseteq {"scopes", "accounts"} /\ consentRow # NoRow
    BY InHand DEF GrantsInv, CopyFits, ReadScopes, ReadAccounts, ReadChild
  <1>1. /\ ScopesKnown(scopeRows) /\ AccountsKnown(accountRows)
        /\ ~ tornRows => Paired(scopeRows, accountRows)
    BY <1>0 DEF GrantsInv, StoredFits
  <1>2. CASE ReadScopes(x)
    <2> PICK g : g = [[c EXCEPT !.rows = scopeRows] EXCEPT !.unread = @ \ {"scopes"},
                                                           !.torn = @ \/ tornRows]
      OBVIOUS
    <2>1. /\ "scopes" \in c.unread /\ granting' = [granting EXCEPT ![x] = g]
          /\ UNCHANGED <<consentRow, scopeRows, accountRows, codeScopes, tokenGrants,
                         asked, decisions, tornRows>>
      BY <1>2 DEF ReadScopes, ReadChild
    <2>2. /\ g.op = c.op /\ g.status = c.status /\ g.issue = c.issue
          /\ g.rows = scopeRows /\ g.accounts = c.accounts
          /\ g.unread = c.unread \ {"scopes"} /\ g.torn = (c.torn \/ tornRows)
          /\ DOMAIN g = GrantFields
      BY <1>0 DEF CopyFits, GrantFields
    <2>3. /\ g.unread = {} \/ g.unread = {"accounts"}
          /\ g.unread = {} => c.unread = {"scopes"}
          /\ "accounts" \notin g.unread => "accounts" \notin c.unread
      BY ONLY <1>0, <2>1, <2>2
    <2>4. g.torn \in BOOLEAN
      BY ONLY <1>0, g = [[c EXCEPT !.rows = scopeRows] EXCEPT !.unread = @ \ {"scopes"},
                                                        !.torn = @ \/ tornRows]
         DEF CopyFits, GrantFields
    <2>5. ~ g.torn => ~ c.torn /\ ~ tornRows
      BY ONLY <2>2
    <2>6. ~ g.torn /\ g.unread = {} => Paired(g.rows, g.accounts)
      BY <1>0, <1>1, <2>2, <2>3, <2>5 DEF CopyFits
    <2>7. ("scopes" \notin g.unread => ScopesKnown(g.rows))
          /\ ("accounts" \notin g.unread => AccountsKnown(g.accounts))
      BY <1>0, <1>1, <2>2, <2>3 DEF CopyFits
    <2>8. CopyFits(g)
      BY <1>0, <2>2, <2>3, <2>6, <2>7, <2>4, <2>5 DEF CopyFits
    <2> QED BY <2>1, <2>8, HoldInv
  <1>3. CASE ReadAccounts(x)
    <2> PICK g : g = [[c EXCEPT !.accounts = accountRows] EXCEPT !.unread = @ \ {"accounts"},
                                                                 !.torn = @ \/ tornRows]
      OBVIOUS
    <2>1. /\ "accounts" \in c.unread /\ granting' = [granting EXCEPT ![x] = g]
          /\ UNCHANGED <<consentRow, scopeRows, accountRows, codeScopes, tokenGrants,
                         asked, decisions, tornRows>>
      BY <1>3 DEF ReadAccounts, ReadChild
    <2>2. /\ g.op = c.op /\ g.status = c.status /\ g.issue = c.issue
          /\ g.rows = c.rows /\ g.accounts = accountRows
          /\ g.unread = c.unread \ {"accounts"} /\ g.torn = (c.torn \/ tornRows)
          /\ DOMAIN g = GrantFields
      BY <1>0 DEF CopyFits, GrantFields
    <2>3. /\ g.unread = {} \/ g.unread = {"scopes"}
          /\ g.unread = {} => c.unread = {"accounts"}
          /\ "scopes" \notin g.unread => "scopes" \notin c.unread
      BY ONLY <1>0, <2>1, <2>2
    <2>4. g.torn \in BOOLEAN
      BY ONLY <1>0, g = [[c EXCEPT !.accounts = accountRows] EXCEPT !.unread = @ \ {"accounts"},
                                                        !.torn = @ \/ tornRows]
         DEF CopyFits, GrantFields
    <2>5. ~ g.torn => ~ c.torn /\ ~ tornRows
      BY ONLY <2>2
    <2>6. ~ g.torn /\ g.unread = {} => Paired(g.rows, g.accounts)
      BY <1>0, <1>1, <2>2, <2>3, <2>5 DEF CopyFits
    <2>7. ("scopes" \notin g.unread => ScopesKnown(g.rows))
          /\ ("accounts" \notin g.unread => AccountsKnown(g.accounts))
      BY <1>0, <1>1, <2>2, <2>3 DEF CopyFits
    <2>8. CopyFits(g)
      BY <1>0, <2>2, <2>3, <2>6, <2>7, <2>4, <2>5 DEF CopyFits
    <2> QED BY <2>1, <2>8, HoldInv
  <1> QED BY <1>2, <1>3

\* A call saves a copy; calls that are between their reads are torn by it.
LEMMA SaveInv ==
    ASSUME GrantsInv, NEW x \in Granters, NEW op, op # "none", NEW copy, NEW torn,
           SaveCopy(x, op, copy, torn), decisions \subseteq decisions',
           copy.status \in ConsentStatus, copy.requested = asked, copy.granted \subseteq asked,
           copy.granted # {} => \E d \in decisions' : copy.granted = d.scopes \cap asked,
           copy.accounts # {} => \E d \in decisions' : copy.accounts = d.accounts,
           ~ torn /\ copy.granted # {} =>
              \E d \in decisions' : copy.granted = d.scopes \cap asked /\ copy.accounts = d.accounts
    PROVE  /\ granting' = [y \in Granters |-> granting'[y]]
           /\ StoredFits' /\ \A y \in Granters : CopyFits(granting[y])'
  <1>1. /\ granting[x].op = op /\ saveConsent(copy) /\ tornRows' = torn /\ asked' = asked
        /\ granting' = [y \in Granters |-> IF y = x THEN NoGrant ELSE Overtaken(granting[y])]
    BY DEF SaveCopy
  <1>2. /\ DOMAIN scopeRows' = asked /\ GrantedIn(scopeRows') = copy.granted
        /\ accountRows' = copy.accounts /\ consentRow' = copy.status
    BY <1>1, SavedReads
  <1>3. StoredFits'
    BY <1>1, <1>2 DEF StoredFits, ScopesKnown, AccountsKnown, Paired, GrantedIn
  <1>4. consentRow' # NoRow
    BY <1>2, GrantsAssumption
  <1>5. ASSUME NEW y \in Granters PROVE CopyFits(granting[y])'
    <2>1. CASE granting'[y] = NoGrant
      BY <2>1 DEF CopyFits
    <2>2. CASE y # x /\ granting[y] = NoGrant
      <3>1. NoGrant.unread = {} /\ NoGrant.torn = FALSE
        BY DEF NoGrant
      <3>2. granting'[y] = [NoGrant EXCEPT !.torn = FALSE]
        BY <1>1, <2>2, <3>1 DEF Overtaken
      <3>3. granting'[y] = NoGrant
        BY <3>2 DEF NoGrant
      <3> QED BY <3>3 DEF CopyFits
    <2>3. CASE y # x /\ granting[y] # NoGrant
      <3> PICK c : c = granting[y]
        OBVIOUS
      <3> PICK g : g = granting'[y]
        OBVIOUS
      <3>1. CopyFits(c) /\ c # NoGrant
        BY <2>3 DEF GrantsInv
      <3>2. g = [c EXCEPT !.torn = @ \/ c.unread \in {{"scopes"}, {"accounts"}}]
        BY <1>1, <2>3 DEF Overtaken
      <3>3. /\ g.op = c.op /\ g.status = c.status /\ g.issue = c.issue /\ g.unread = c.unread
            /\ g.rows = c.rows /\ g.accounts = c.accounts /\ DOMAIN g = DOMAIN c
            /\ g.torn = (c.torn \/ c.unread \in {{"scopes"}, {"accounts"}})
        BY <3>1, <3>2 DEF CopyFits, GrantFields
      <3>4. /\ ~ g.torn => ~ c.torn /\ c.unread # {"scopes"} /\ c.unread # {"accounts"}
            /\ g.torn \in BOOLEAN /\ DOMAIN g = GrantFields
        BY <3>1, <3>3 DEF CopyFits
      <3>5. "scopes" \notin g.unread => ScopesKnown(g.rows)'
        BY <1>1, <3>1, <3>3 DEF CopyFits, ScopesKnown
      <3>6. "accounts" \notin g.unread => AccountsKnown(g.accounts)'
        BY <3>1, <3>3 DEF CopyFits, AccountsKnown
      <3>7. ~ g.torn /\ g.unread = {} => Paired(g.rows, g.accounts)'
        BY <1>1, <3>1, <3>3, <3>4 DEF CopyFits, Paired
      <3> QED BY <1>4, <3>1, <3>3, <3>4, <3>5, <3>6, <3>7 DEF CopyFits
    <2> QED BY <1>1, <2>1, <2>2, <2>3
  <1>6. granting' = [y \in Granters |-> granting'[y]]
    BY <1>1
  <1> QED BY <1>3, <1>5, <1>6

LEMMA RequestInv ==
    ASSUME GrantsInv, NEW scopes \in SUBSET Scopes, RequestScopes(scopes)
    PROVE  GrantsInv'
  <1>1. /\ asked' = scopes /\ consentRow = NoRow
        /\ UNCHANGED <<codeScopes, tokenGrants, granting, decisions, tornRows>>
    BY DEF RequestScopes
  <1>2. /\ scopeRows' = [s \in scopes \cup {} |-> s \in {}] /\ accountRows' = {}
        /\ consentRow' = "AWAITING_AUTHORIZATION"
    BY DEF RequestScopes, saveConsent, SaveRows, consentScopeGrantRows, contains
  <1>3. DOMAIN scopeRows' = scopes /\ GrantedIn(scopeRows') = {}
    BY <1>2 DEF GrantedIn
  <1>4. StoredFits'
    BY <1>1, <1>2, <1>3
       DEF StoredFits, ScopesKnown, AccountsKnown, Paired, GrantedIn, ConsentStatus
  <1>5. \A y \in Granters : granting[y] = NoGrant
    BY <1>1 DEF GrantsInv, CopyFits
  <1> QED BY <1>1, <1>4, <1>5 DEF GrantsInv, CopyFits

LEMMA BeginInv ==
    ASSUME GrantsInv, NEW x \in Granters,
           \/ \E choice \in Choices : GrantRead(x, choice)
           \/ \E scopes \in codeScopes : RedeemRead(x, scopes)
           \/ \E status \in {"REVOKED", "EXPIRED"} : EndRead(x, status)
    PROVE  GrantsInv'
  <1>1. ASSUME NEW choice \in Choices, GrantRead(x, choice) PROVE GrantsInv'
    <2>1. consentRow # NoRow /\ "AUTHORIZED" \in ConsentStatus /\ {} \in SUBSET Scopes
      BY <1>1, GrantsAssumption DEF GrantRead, ConsentStatus
    <2> QED BY <1>1, <2>1, FindInv DEF GrantRead
  <1>2. ASSUME NEW scopes \in codeScopes, RedeemRead(x, scopes) PROVE GrantsInv'
    <2>1. consentRow # NoRow /\ "ACTIVE" \in ConsentStatus /\ scopes \in SUBSET Scopes
      BY <1>2, GrantsAssumption DEF RedeemRead, ConsentStatus, GrantsInv
    <2> QED BY <1>2, <2>1, FindInv DEF RedeemRead
  <1>3. ASSUME NEW status \in {"REVOKED", "EXPIRED"}, EndRead(x, status) PROVE GrantsInv'
    <2>1. consentRow # NoRow /\ status \in ConsentStatus /\ {} \in SUBSET Scopes
      BY <1>3 DEF EndRead, ConsentStatus
    <2> QED BY <1>3, <2>1, FindInv DEF EndRead
  <1> QED BY <1>1, <1>2, <1>3

LEMMA CommitInv ==
    ASSUME GrantsInv, NEW x \in Granters, GrantCommit(x) \/ RedeemCommit(x) \/ EndCommit(x)
    PROVE  GrantsInv'
  <1>0. granting[x].issue \subseteq Scopes
    BY InHand
  <1>1. ASSUME NEW choice \in granting[x].said,
               LET copy == authorizeConsent(copyOf(x), choice)
               IN  /\ SaveCopy(x, "authorize", copy, FALSE)
                   /\ codeScopes' = codeScopes \cup {copy.granted}
                   /\ decisions' = decisions \cup {choice}
                   /\ UNCHANGED tokenGrants
        PROVE  GrantsInv'
    <2> PICK read : read = copyOf(x)
      OBVIOUS
    <2> PICK copy : copy = authorizeConsent(read, choice)
      OBVIOUS
    <2>1. /\ SaveCopy(x, "authorize", copy, FALSE)
          /\ codeScopes' = codeScopes \cup {copy.granted}
          /\ decisions' = decisions \cup {choice} /\ tokenGrants' = tokenGrants
      BY <1>1
    <2>2. read.requested = asked
      BY <2>1, CopyInHand DEF SaveCopy
    <2>3. /\ copy.status = "AUTHORIZED" /\ copy.accounts = choice.accounts
          /\ copy.requested = asked /\ copy.granted = choice.scopes \cap asked
      BY <2>2 DEF authorizeConsent, copyOf, toConsent, reduceTo
    <2>4. /\ choice \in decisions' /\ copy.status \in ConsentStatus
          /\ copy.granted \subseteq asked /\ asked' = asked /\ asked \subseteq Scopes
      BY <2>1, <2>3 DEF ConsentStatus, SaveCopy, GrantsInv
    <2>5. /\ granting' = [y \in Granters |-> granting'[y]]
          /\ StoredFits' /\ \A y \in Granters : CopyFits(granting[y])'
      BY <2>1, <2>3, <2>4, SaveInv
    <2> QED BY <2>1, <2>4, <2>5 DEF GrantsInv
  <1>2. ASSUME NEW op \in {"exchange", "end"}, SaveCopy(x, op, copyOf(x), granting[x].torn),
               UNCHANGED <<codeScopes, decisions>>,
               tokenGrants' \in {tokenGrants, tokenGrants \cup {granting[x].issue}}
        PROVE  GrantsInv'
    <2>1. granting[x].op # "none" /\ granting[x].unread = {} /\ asked' = asked
      BY <1>2 DEF SaveCopy
    <2> PICK copy : copy = copyOf(x)
      OBVIOUS
    <2>2. /\ copy.status \in ConsentStatus
          /\ copy.requested = asked /\ copy.granted = GrantedIn(granting[x].rows)
          /\ copy.granted \subseteq asked /\ copy.accounts = granting[x].accounts
          /\ ScopesKnown(granting[x].rows) /\ AccountsKnown(granting[x].accounts)
          /\ ~ granting[x].torn => Paired(granting[x].rows, granting[x].accounts)
      BY <2>1, CopyInHand
    <2>3. /\ copy.granted # {} => \E d \in decisions : copy.granted = d.scopes \cap asked
          /\ copy.accounts # {} => \E d \in decisions : copy.accounts = d.accounts
          /\ ~ granting[x].torn /\ copy.granted # {} =>
                \E d \in decisions : /\ copy.granted = d.scopes \cap asked
                                     /\ copy.accounts = d.accounts
      BY <2>2 DEF ScopesKnown, AccountsKnown, Paired
    <2>4. /\ granting' = [y \in Granters |-> granting'[y]]
          /\ StoredFits' /\ \A y \in Granters : CopyFits(granting[y])'
      BY <1>2, <2>2, <2>3, SaveInv
    <2> QED BY <1>0, <1>2, <2>1, <2>4 DEF GrantsInv
  <1> QED BY <1>1, <1>2 DEF GrantCommit, RedeemCommit, EndCommit

LEMMA GrantsInvStep == GrantsInv /\ [GrantsNext]_grantVars => GrantsInv'
  <1> SUFFICES ASSUME GrantsInv, [GrantsNext]_grantVars PROVE GrantsInv'
    OBVIOUS
  <1>1. CASE UNCHANGED grantVars
    BY <1>1 DEF grantVars, GrantsInv, StoredFits, CopyFits, ScopesKnown, AccountsKnown, Paired
  <1>2. ASSUME NEW x \in Granters, CallFails(x) PROVE GrantsInv'
    <2>1. CopyFits(NoGrant)
      BY DEF CopyFits
    <2> QED BY <1>2, <2>1, HoldInv DEF CallFails
  <1> QED BY <1>1, <1>2, RequestInv, BeginInv, ReadChildInv, CommitInv DEF GrantsNext

LEMMA GrantsInvariant == GrantsSpec => []GrantsInv
  BY GrantsInvInit, GrantsInvStep, PTL DEF GrantsSpec

-----------------------------------------------------------------------------
\* The types: a stored consent never loses a scope that was asked for, however often
\* it is written to its rows and read back, and no credential has an unknown scope.
THEOREM GrantsTypeCorrect == GrantsSpec => []GrantsTypeOK
  <1>1. GrantsInv => GrantsTypeOK
    <2> SUFFICES ASSUME GrantsInv PROVE GrantsTypeOK
      OBVIOUS
    <2>1. consentRow # NoRow => consentRow \in ConsentStatus /\ DOMAIN scopeRows = asked
      BY DEF GrantsInv, StoredFits, ScopesKnown
    <2>2. \A x \in Granters : granting[x].op \in {"none", "authorize", "exchange", "end"}
      BY InHand
    <2> QED BY <2>1, <2>2 DEF GrantsInv, GrantsTypeOK
  <1> QED BY <1>1, GrantsInvariant, PTL

\* Racing authorizations are mixed by torn reads only: what a token opens is part of one
\* decision, unless the rows go back to a call that read its copy across a save; then
\* scope and account are each part of a decision.
THEOREM OnlyTornReadsMix == GrantsSpec => []MixedOnlyByTornReads
  <1>1. GrantsInv => MixedOnlyByTornReads
    <2> SUFFICES ASSUME GrantsInv, NEW token \in tokenGrants, NEW s \in Scopes,
                        NEW a \in accountRows, Opens(token, s, a)
                 PROVE  /\ s \in asked
                        /\ \E d, e \in decisions : /\ s \in d.scopes /\ a \in e.accounts
                                                   /\ d = e \/ tornRows
      BY DEF MixedOnlyByTornReads
    <2>1. consentRow # NoRow /\ s \in GrantedIn(scopeRows)
      BY GrantsAssumption DEF Opens, contains, storedConsent, toConsent, GrantedIn
    <2>2. /\ ScopesKnown(scopeRows) /\ AccountsKnown(accountRows)
          /\ ~ tornRows => Paired(scopeRows, accountRows)
      BY <2>1 DEF GrantsInv, StoredFits
    <2>3. PICK d \in decisions : GrantedIn(scopeRows) = d.scopes \cap asked
      BY <2>1, <2>2 DEF ScopesKnown
    <2>4. PICK e \in decisions : accountRows = e.accounts
      BY <2>2 DEF AccountsKnown
    <2>5. CASE tornRows
      BY <2>1, <2>3, <2>4, <2>5
    <2>6. CASE ~ tornRows
      BY <2>1, <2>2, <2>6 DEF Paired
    <2> QED BY <2>5, <2>6
  <1> QED BY <1>1, GrantsInvariant, PTL

-----------------------------------------------------------------------------
(***************************************************************************)
(* The account reads.  What a call may read is decided before it reads, on *)
(* a copy put together by three statements, so the invariant carries the   *)
(* decision over: a call that is about to read an account reads one of its *)
(* copy, and the copy's accounts are some the consent had since the call   *)
(* began, because every save adds the accounts it writes to those.         *)
(***************************************************************************)

Cursor == {Nothing} \cup (Nat \X Nat \X Nat)

Copies == [grants: BOOLEAN, scopes: SUBSET UNION ScopeSets, accounts: SUBSET Accounts]

Reading == [pc: {"idle", "find", "decide", "read"}, op: Ops,
            account: Accounts \cup {Nothing}, cursor: Cursor,
            copy: Copies, unread: SUBSET {"scopes", "accounts"}, during: SUBSET Accounts]

Decided(call) ==
    /\ call.op # "list" => /\ call.account \in Accounts
                           /\ call.pc = "read" => call.account \in call.copy.accounts
    /\ call.copy.accounts \subseteq call.during
    /\ call.unread # {} => call.pc = "decide"

\* A call in flight has seen the consent's present accounts among those of its time.
Watches(call) == call # Idle => consent.accounts \subseteq call.during

ReadsInv ==
    /\ ReadsTypeOK
    /\ IsFiniteSet(booked)
    /\ reading \in [Readers -> Reading]
    /\ answer = [r \in Readers |-> answer[r]]
    /\ \A r \in Readers : "nextCursor" \in DOMAIN answer[r] => answer[r].nextCursor \in Cursor
    /\ \A r \in Readers : Decided(reading[r]) /\ Watches(reading[r])

-----------------------------------------------------------------------------
\* The order of the transactions of one account.

\* Transactions of one account that are neither older nor newer are the same.
LEMMA OlderIsTotal ==
    ASSUME NEW t \in Transaction, NEW u \in Transaction, t.account = u.account
    PROVE  t = u \/ Older(t, u) \/ Older(u, t)
  <1>1. t = [account |-> t.account, hour |-> t.hour, minute |-> t.minute, id |-> t.id]
        /\ u = [account |-> u.account, hour |-> u.hour, minute |-> u.minute, id |-> u.id]
    BY DEF Transaction
  <1>2. /\ t.hour \in Nat /\ t.minute \in Nat /\ t.id \in Nat
        /\ u.hour \in Nat /\ u.minute \in Nat /\ u.id \in Nat
    BY DEF Transaction
  <1>3. t.hour = u.hour /\ t.minute = u.minute /\ t.id = u.id => t = u
    BY <1>1
  <1> QED BY <1>2, <1>3 DEF Older

LEMMA OlderIsOrder ==
    ASSUME NEW t \in Transaction, NEW u \in Transaction
    PROVE  /\ ~ Older(t, t)
           /\ Older(t, u) => ~ Older(u, t)
           /\ \A v \in Transaction : Older(t, u) /\ Older(u, v) => Older(t, v)
  <1>1. \A v \in Transaction : v.hour \in Nat /\ v.minute \in Nat /\ v.id \in Nat
    BY DEF Transaction
  <1> QED BY <1>1 DEF Older

\* Some transactions of one account.
OfOneAccount(S) ==
    /\ IsFiniteSet(S) /\ S \subseteq Transaction
    /\ \A t, u \in S : t.account = u.account

\* If finite sets of something exist, there is one that has no part that is one, too.
LEMMA SmallestSet ==
    ASSUME NEW D, IsFiniteSet(D), NEW Bad \in SUBSET SUBSET D, Bad # {}
    PROVE  \E s \in Bad : \A x \in s : s \ {x} \notin Bad
  <1>1. IsWellFoundedOn(StrictSubsetOrdering(D), SUBSET D)
    BY FS_StrictSubsetOrderingWellFounded, FS_FiniteSubsetsOfFinite
  <1>2. PICK s \in Bad : \A y \in Bad : ~ (<<y, s>> \in StrictSubsetOrdering(D))
    BY <1>1, WFMin
  <1>3. ASSUME NEW x \in s, s \ {x} \in Bad PROVE FALSE
    BY <1>2, <1>3 DEF StrictSubsetOrdering
  <1> QED BY <1>3

Oldest(S, t) == t \in S /\ \A u \in S \ {t} : Older(t, u)

LEMMA OldestExists ==
    ASSUME NEW D, OfOneAccount(D), D # {}
    PROVE  \E t \in D : Oldest(D, t)
  <1> DEFINE Bad == {s \in SUBSET D : s # {} /\ \A t \in s : ~ Oldest(s, t)}
  <1>1. SUFFICES ASSUME Bad # {} PROVE FALSE
    OBVIOUS
  <1>2. PICK s \in Bad : \A x \in s : s \ {x} \notin Bad
    <2>1. Bad \in SUBSET SUBSET D /\ IsFiniteSet(D)
      BY DEF OfOneAccount
    <2> HIDE DEF Bad
    <2> QED BY <1>1, <2>1, SmallestSet
  <1>3. PICK x \in s : TRUE
    BY <1>2
  <1>4. CASE s = {x}
    BY <1>2, <1>4 DEF Oldest
  <1>5. CASE s # {x}
    <2>0. s \ {x} \in SUBSET D /\ s \ {x} # {} /\ s \ {x} \notin Bad
      <3>1. s \ {x} \notin Bad
        <4> HIDE DEF Bad
        <4> QED BY <1>2, <1>3
      <3>2. s \ {x} # {} /\ s \in SUBSET D
        BY <1>2, <1>3, <1>5
      <3>3. s \ {x} \in SUBSET D
        BY <3>2
      <3> QED BY <3>1, <3>2, <3>3
    <2>1. PICK t \in s \ {x} : Oldest(s \ {x}, t)
      BY <2>0
    <2>2. t \in Transaction /\ x \in Transaction /\ t.account = x.account /\ t # x
      BY <1>2, <1>3, <2>1 DEF OfOneAccount
    <2>3. CASE Older(t, x)
      BY <1>2, <2>1, <2>3 DEF Oldest
    <2>4. CASE Older(x, t)
      <3>1. ASSUME NEW u \in s, u # x PROVE Older(x, u)
        <4>1. u = t \/ Older(t, u)
          BY <2>1, <3>1 DEF Oldest
        <4>2. u \in Transaction
          BY <1>2 DEF OfOneAccount
        <4> QED BY <2>2, <2>4, <4>1, <4>2, OlderIsOrder
      <3> QED BY <1>2, <1>3, <3>1 DEF Oldest
    <2> QED BY <2>2, <2>3, <2>4, OlderIsTotal
  <1> QED BY <1>4, <1>5

-----------------------------------------------------------------------------
\* The rows of a query exist, and are all that was found.

NewestFirst(rows, n) == \A i, j \in 1..n : i < j => Older(rows[j], rows[i])

LEMMA SortedExists ==
    ASSUME NEW D, OfOneAccount(D)
    PROVE  \E rows \in [1..Cardinality(D) -> D] : NewestFirst(rows, Cardinality(D))
  <1> DEFINE Sorted(s) == \E rows \in [1..Cardinality(s) -> s] : NewestFirst(rows, Cardinality(s))
             Bad == {s \in SUBSET D : ~ Sorted(s)}
  <1>1. SUFFICES ASSUME Bad # {} PROVE FALSE
    OBVIOUS
  <1>2. PICK s \in Bad : \A x \in s : s \ {x} \notin Bad
    <2>1. Bad \in SUBSET SUBSET D /\ IsFiniteSet(D)
      BY DEF OfOneAccount
    <2> HIDE DEF Bad
    <2> QED BY <1>1, <2>1, SmallestSet
  <1>3. OfOneAccount(s) /\ IsFiniteSet(s)
    BY <1>2, FS_Subset DEF OfOneAccount
  <1>4. s # {}
    <2>1. SUFFICES ASSUME s = {} PROVE FALSE
      OBVIOUS
    <2>2. Cardinality(s) = 0
      BY <2>1, FS_EmptySet
    <2>3. [i \in 1..0 |-> i] \in [1..0 -> s] /\ NewestFirst([i \in 1..0 |-> i], 0)
      BY DEF NewestFirst
    <2> QED BY <1>2, <2>2, <2>3
  <1>5. PICK t \in s : Oldest(s, t)
    BY <1>3, <1>4, OldestExists
  <1> DEFINE n == Cardinality(s)
  <1>6. n \in Nat /\ n # 0 /\ n - 1 \in Nat /\ Cardinality(s \ {t}) = n - 1
    <2>1. n \in Nat /\ n # 0
      BY <1>3, <1>4, FS_CardinalityType, FS_EmptySet
    <2>2. Cardinality(s \ {t}) = n - 1
      BY <1>3, <1>5, FS_RemoveElement
    <2> QED BY <2>1, <2>2
  <1>7. PICK rows \in [1..(n - 1) -> s \ {t}] : NewestFirst(rows, n - 1)
    BY <1>2, <1>5, <1>6
  <1> HIDE DEF n
  <1> DEFINE all == [i \in 1..n |-> IF i = n THEN t ELSE rows[i]]
  <1>8. \A i \in 1..n : i # n => i \in 1..(n - 1) /\ rows[i] \in s \ {t}
    BY <1>6, <1>7
  <1>9. all \in [1..n -> s]
    BY <1>5, <1>8
  <1>10. NewestFirst(all, n)
    <2> SUFFICES ASSUME NEW i \in 1..n, NEW j \in 1..n, i < j PROVE Older(all[j], all[i])
      BY DEF NewestFirst
    <2>1. i # n /\ i \in 1..(n - 1)
      BY <1>6, <1>8
    <2>2. CASE j = n
      BY <1>5, <1>8, <2>1, <2>2 DEF Oldest
    <2>3. CASE j # n
      BY <1>7, <1>8, <2>1, <2>3 DEF NewestFirst
    <2> QED BY <2>2, <2>3
  <1> QED BY <1>2, <1>9, <1>10 DEF n

Found(account, cursor) ==
    {t \in booked : /\ t.account = account
                    /\ cursor = Nothing \/ Older(t, At(decodeCursor(cursor)))}

\* The rows are what was found, each of it once, newest first.
AreAll(rows, found) ==
    /\ NewestFirst(rows, Len(rows))
    /\ \A i, j \in 1..Len(rows) : rows[i] = rows[j] => i = j
    /\ \A t \in found : \E i \in 1..Len(rows) : rows[i] = t

LEMMA RowsAreAll ==
    ASSUME NEW account, NEW cursor, IsFiniteSet(booked), booked \subseteq Transaction,
           NEW rows, rows = rowsBefore(account, cursor),
           NEW found, found = Found(account, cursor)
    PROVE  /\ Cardinality(found) \in Nat
           /\ rows \in [1..Cardinality(found) -> found] /\ rows \in Seq(found)
           /\ Len(rows) = Cardinality(found)
           /\ AreAll(rows, found)
  <1> DEFINE n == Cardinality(found)
  <1>1. found \subseteq Transaction /\ OfOneAccount(found) /\ IsFiniteSet(found)
    <2>1. found \in SUBSET booked
      BY DEF Found
    <2>2. IsFiniteSet(found)
      BY <2>1, FS_Subset
    <2> QED BY <2>1, <2>2 DEF OfOneAccount, Found
  <1>2. n \in Nat
    BY <1>1, FS_CardinalityType
  <1>3. rows = CHOOSE sorted \in [1..n -> found] :
                  \A i, j \in 1..n : i < j => Older(sorted[j], sorted[i])
    BY DEF rowsBefore, Found
  <1>4. rows \in [1..n -> found] /\ NewestFirst(rows, n)
    BY <1>1, <1>3, SortedExists DEF NewestFirst
  <1> HIDE DEF n
  <1>5. rows \in Seq(found) /\ Len(rows) = n
    <2>1. rows \in Seq(found)
      BY <1>2, <1>4, SeqDef
    <2> QED BY <1>2, <1>4, <2>1, LenProperties
  <1>6. ASSUME NEW i \in 1..n, NEW j \in 1..n, rows[i] = rows[j] PROVE i = j
    <2>1. rows[i] \in Transaction
      BY <1>1, <1>4
    <2>2. ~ (i < j) /\ ~ (j < i)
      BY <1>4, <1>6, <2>1, OlderIsOrder DEF NewestFirst
    <2> QED BY <1>2, <2>2
  <1>7. rows \in Injection(1..n, found)
    BY <1>4, <1>6, Fun_IsInj
  <1>8. Cardinality(1..n) = n
    BY <1>2, FS_Interval
  <1>9. rows \in Surjection(1..n, found)
    BY <1>1, <1>7, <1>8, FS_Injection DEF n
  <1>10. \A t \in found : \E i \in 1..n : rows[i] = t
    BY <1>9 DEF Surjection
  <1>11. AreAll(rows, found)
    BY <1>4, <1>5, <1>6, <1>10 DEF AreAll
  <1> QED BY <1>2, <1>4, <1>5, <1>11 DEF n

\* What a page of the rows holds.
LEMMA PageOf ==
    ASSUME NEW S, NEW rows \in Seq(S), NEW k \in 0..Len(rows), NEW items,
           items = SubSeq(rows, 1, k)
    PROVE  Len(items) = k /\ \A i \in 1..k : items[i] = rows[i] /\ items[i] \in S
  <1>1. Len(rows) \in Nat /\ k \in Nat /\ k <= Len(rows) /\ rows \in [1..Len(rows) -> S]
    BY LenProperties
  <1>2. \A i \in 1..k : rows[i] \in S
    BY <1>1
  <1>3. /\ Len(items) = IF 1 <= k THEN k - 1 + 1 ELSE 0
        /\ \A i \in 1..(k - 1 + 1) : items[i] = rows[1 + i - 1]
    BY <1>1, <1>2, SubSeqProperties
  <1>4. \A i \in 1..k : items[i] = rows[i]
    BY <1>1, <1>3
  <1> QED BY <1>1, <1>2, <1>3, <1>4

PageSize(rows) == IF hasMore(rows) THEN Limit ELSE Len(rows)

LEMMA ErrorOnly ==
    ASSUME NEW account, NEW cursor, NEW page, page = listTransactions(account, cursor)
    PROVE  \/ DOMAIN page = {"error"}
           \/ DOMAIN page = {"items", "nextCursor"}
  <1>1. CASE cursor # Nothing /\ ~ IsPosition(decodeCursor(cursor))
    <2>1. page = [error |-> TRUE]
      BY <1>1 DEF listTransactions
    <2> QED BY ONLY <2>1
  <1>2. CASE ~ (cursor # Nothing /\ ~ IsPosition(decodeCursor(cursor)))
    <2>1. \E items, next : page = [items |-> items, nextCursor |-> next]
      BY <1>2 DEF listTransactions
    <2> QED BY ONLY <2>1
  <1> QED BY <1>1, <1>2

LEMMA TransactionPage ==
    ASSUME ReadsInv, NEW account, NEW cursor,
           NEW found, found = Found(account, cursor),
           NEW page, page = listTransactions(account, cursor), "error" \notin DOMAIN page
    PROVE  \E rows \in Seq(found) : \E k \in 0..Len(rows) :
              /\ rows = rowsBefore(account, cursor) /\ k = PageSize(rows)
              /\ page.items = SubSeq(rows, 1, k)
              /\ page.nextCursor = IF k < Len(rows) THEN encodeCursor(page.items[Limit])
                                   ELSE Nothing
              /\ DOMAIN page = {"items", "nextCursor"}
  <1> PICK rows : rows = rowsBefore(account, cursor)
    OBVIOUS
  <1> PICK k : k = PageSize(rows)
    OBVIOUS
  <1> PICK items : items = SubSeq(rows, 1, k)
    OBVIOUS
  <1> PICK next : next = IF hasMore(rows) THEN encodeCursor(items[Limit]) ELSE Nothing
    OBVIOUS
  <1>1. rows \in Seq(found) /\ Len(rows) \in Nat
    <2>1. IsFiniteSet(booked) /\ booked \subseteq Transaction
      BY ReadsAssumption DEF ReadsInv, ReadsTypeOK
    <2> QED BY <2>1, RowsAreAll
  <1>2. k \in 0..Len(rows) /\ (hasMore(rows) <=> k < Len(rows))
    BY <1>1, ReadsAssumption DEF PageSize, hasMore
  <1>3. page = [items |-> items, nextCursor |-> next]
    <2>1. CASE cursor # Nothing /\ ~ IsPosition(decodeCursor(cursor))
      <3>1. page = [error |-> TRUE]
        BY <2>1 DEF listTransactions
      <3> QED BY <3>1
    <2>2. CASE ~ (cursor # Nothing /\ ~ IsPosition(decodeCursor(cursor)))
      BY <2>2 DEF listTransactions, PageSize
    <2> QED BY <2>1, <2>2
  <1>4. page.items = items /\ page.nextCursor = next /\ DOMAIN page = {"items", "nextCursor"}
    <2>1. page.items = items /\ page.nextCursor = next
      BY ONLY <1>3
    <2>2. DOMAIN page = {"items", "nextCursor"}
      BY ONLY <1>3
    <2> QED BY <2>1, <2>2
  <1>5. next = IF k < Len(rows) THEN encodeCursor(page.items[Limit]) ELSE Nothing
    BY <1>2, <1>4
  <1> QED BY <1>1, <1>2, <1>4, <1>5

-----------------------------------------------------------------------------
\* The invariant.

LEMMA OpsAre == Ops = {"list", "get", "balances", "transactions", "beneficiaries"}
  BY DEF Ops, requiredScope

LEMMA DataFits ==
    ASSUME ReadsInv, NEW op \in Ops, NEW account, NEW cursor, NEW copy \in Copies,
           op # "list" => account \in copy.accounts,
           NEW data, data = Data(op, account, cursor, copy)
    PROVE  /\ AccountsOf(data) \subseteq copy.accounts
           /\ "nextCursor" \in DOMAIN data => data.nextCursor \in Cursor
  <1>1. CASE op = "list"
    <2>1. data = [accounts |-> listAccounts(copy)]
      BY <1>1 DEF Data
    <2>2. "accounts" \in DOMAIN data /\ data.accounts = listAccounts(copy)
          /\ "nextCursor" \notin DOMAIN data
      BY ONLY <2>1
    <2> QED BY <2>2 DEF AccountsOf, listAccounts
  <1>2. CASE op = "transactions"
    <2>1. data = listTransactions(account, cursor)
      BY <1>2 DEF Data
    <2>2. CASE "error" \in DOMAIN data
      <3>1. DOMAIN data = {"error"}
        BY <2>1, <2>2, ErrorOnly
      <3> QED BY <3>1 DEF AccountsOf
    <2>3. CASE "error" \notin DOMAIN data
      <3> PICK found : found = Found(account, cursor)
        OBVIOUS
      <3> PICK rows \in Seq(found) : \E k \in 0..Len(rows) :
              /\ rows = rowsBefore(account, cursor) /\ k = PageSize(rows)
              /\ data.items = SubSeq(rows, 1, k)
              /\ data.nextCursor = IF k < Len(rows) THEN encodeCursor(data.items[Limit])
                                   ELSE Nothing
              /\ DOMAIN data = {"items", "nextCursor"}
        BY <2>1, <2>3, TransactionPage
      <3> PICK k \in 0..Len(rows) :
              /\ k = PageSize(rows)
              /\ data.items = SubSeq(rows, 1, k)
              /\ data.nextCursor = IF k < Len(rows) THEN encodeCursor(data.items[Limit])
                                   ELSE Nothing
              /\ DOMAIN data = {"items", "nextCursor"}
        OBVIOUS
      <3>1. Len(data.items) = k /\ \A i \in 1..k : data.items[i] \in found
        BY PageOf
      <3>2. \A t \in found : t \in Transaction /\ t.account = account
        BY ReadsAssumption DEF Found, ReadsInv, ReadsTypeOK
      <3>3. AccountsOf(data) = {data.items[i].account : i \in 1..k}
        BY <3>1 DEF AccountsOf
      <3>4. AccountsOf(data) \subseteq copy.accounts
        BY <1>2, <3>1, <3>2, <3>3
      <3>5. k < Len(rows) => Limit \in 1..k
        BY ReadsAssumption, LenProperties DEF PageSize, hasMore
      <3>6. data.nextCursor \in Cursor
        <4>1. CASE k < Len(rows)
          <5>1. data.items[Limit] \in Transaction
            BY <3>1, <3>2, <3>5, <4>1
          <5>2. encodeCursor(data.items[Limit]) \in Cursor
            BY <5>1 DEF Cursor, encodeCursor, Transaction
          <5>3. data.nextCursor = encodeCursor(data.items[Limit])
            BY <4>1
          <5> QED BY <5>2, <5>3
        <4>2. CASE ~ (k < Len(rows))
          BY <4>2 DEF Cursor
        <4> QED BY <4>1, <4>2
      <3> QED BY <3>4, <3>6
    <2> QED BY <2>2, <2>3
  <1>3. CASE op # "list" /\ op # "transactions"
    <2>1. data = [accounts |-> {account}]
      BY <1>3, OpsAre DEF Data
    <2>2. "accounts" \in DOMAIN data /\ data.accounts = {account}
          /\ "nextCursor" \notin DOMAIN data
      BY ONLY <2>1
    <2> QED BY <1>3, <2>2 DEF AccountsOf
  <1> QED BY <1>1, <1>2, <1>3

LEMMA IdleFits == Idle \in Reading /\ Decided(Idle)
  BY OpsAre DEF Idle, NoConsent, Copies, Reading, Cursor, Decided

LEMMA ConsentFits ==
    ASSUME ReadsInv
    PROVE  consent \in [grants: BOOLEAN, scopes: ScopeSets, accounts: SUBSET Accounts]
  BY ReadsAssumption DEF ReadsInv, ReadsTypeOK

LEMMA ReadsInvInit == ReadsInit => ReadsInv
  <1> SUFFICES ASSUME ReadsInit PROVE ReadsInv
    OBVIOUS
  <1>1. reading = [r \in Readers |-> Idle] /\ answer = [r \in Readers |-> [accounts |-> {}]]
    BY DEF ReadsInit
  <1>2. ReadsTypeOK
    <2>1. \A r \in Readers : /\ reading[r].pc \in {"idle", "find", "decide", "read"}
                             /\ reading[r].op \in Ops
      BY <1>1, IdleFits DEF Reading
    <2> QED BY <2>1 DEF ReadsInit, ReadsTypeOK
  <1>3. IsFiniteSet(booked)
    BY FS_EmptySet DEF ReadsInit
  <1>4. \A r \in Readers : "nextCursor" \notin DOMAIN answer[r]
    <2> SUFFICES ASSUME NEW r \in Readers PROVE "nextCursor" \notin DOMAIN answer[r]
      OBVIOUS
    <2>1. answer[r] = [accounts |-> {}]
      BY <1>1
    <2> QED BY ONLY <2>1
  <1>5. /\ reading \in [Readers -> Reading] /\ answer = [r \in Readers |-> answer[r]]
        /\ \A r \in Readers : Decided(reading[r]) /\ Watches(reading[r])
    BY <1>1, IdleFits DEF Watches
  <1> QED BY <1>2, <1>3, <1>4, <1>5 DEF ReadsInv

\* A step that leaves the tables and the answers alone and moves one call.
LEMMA CallMoves ==
    ASSUME ReadsInv, NEW r \in Readers, NEW call \in Reading, Decided(call), Watches(call),
           reading' = [reading EXCEPT ![r] = call],
           UNCHANGED <<consent, tokenScopes, closed, booked>>
    PROVE  /\ reading' \in [Readers -> Reading]
           /\ \A s \in Readers : Decided(reading[s])' /\ Watches(reading[s])'
           /\ ReadsTypeOK' /\ IsFiniteSet(booked)'
           /\ answer' = answer => ReadsInv'
  <1>1. reading' \in [Readers -> Reading]
    BY DEF ReadsInv
  <1>2. \A s \in Readers : Decided(reading[s])' /\ Watches(reading[s])'
    <2> SUFFICES ASSUME NEW s \in Readers PROVE Decided(reading'[s]) /\ Watches(reading'[s])
      BY DEF Decided, Watches
    <2>1. CASE s = r
      BY <2>1 DEF ReadsInv
    <2>2. CASE s # r
      BY <2>2 DEF ReadsInv
    <2> QED BY <2>1, <2>2
  <1>3. \A s \in Readers : /\ reading'[s].pc \in {"idle", "find", "decide", "read"}
                           /\ reading'[s].op \in Ops
    BY <1>1 DEF Reading
  <1>4. ReadsTypeOK'
    BY <1>3 DEF ReadsInv, ReadsTypeOK, Ops
  <1>5. IsFiniteSet(booked)'
    BY DEF ReadsInv
  <1>6. ASSUME answer' = answer PROVE ReadsInv'
    <2>1. /\ answer' = [s \in Readers |-> answer'[s]]
          /\ \A s \in Readers : "nextCursor" \in DOMAIN answer'[s] =>
                                answer'[s].nextCursor \in Cursor
      BY <1>6 DEF ReadsInv
    <2> QED BY <1>1, <1>2, <1>4, <1>5, <2>1 DEF ReadsInv, Cursor
  <1> QED BY <1>1, <1>2, <1>4, <1>5, <1>6

LEMMA CanActivateInv ==
    ASSUME ReadsInv, NEW r \in Readers, NEW op \in Ops, NEW a \in Accounts,
           NEW cursor \in Cursors(r, op), canActivate(r, op, a, cursor)
    PROVE  ReadsInv'
  <1> PICK call : call = [Idle EXCEPT !.pc = "find", !.op = op, !.cursor = cursor,
                                      !.account = IF op = "list" THEN Nothing ELSE a,
                                      !.during = consent.accounts]
    OBVIOUS
  <1>1. cursor \in Cursor
    BY DEF Cursors, Cursor, ReadsInv
  <1>2. consent.accounts \in SUBSET Accounts
    BY ConsentFits
  <1>3. /\ call.pc = "find" /\ call.op = op /\ call.cursor = cursor
        /\ call.account = IF op = "list" THEN Nothing ELSE a
        /\ call.during = consent.accounts /\ call.copy = NoConsent /\ call.unread = {}
    BY DEF Idle
  <1>4. call \in Reading
    BY <1>1, <1>2 DEF Reading, Idle, NoConsent, Copies
  <1>5. Decided(call) /\ Watches(call)
    BY <1>3 DEF Decided, Watches, NoConsent
  <1>6. reading' = [reading EXCEPT ![r] = call]
        /\ UNCHANGED <<consent, tokenScopes, closed, booked, answer>>
    BY DEF canActivate
  <1> QED BY <1>4, <1>5, <1>6, CallMoves

\* The three statements: the copy takes what the consent has, the accounts among them are
\* some of the call's time.
LEMMA StatementInv ==
    ASSUME ReadsInv, NEW r \in Readers, FindRow(r) \/ FindScopes(r) \/ FindAccounts(r)
    PROVE  ReadsInv'
  <1> PICK old : old = reading[r]
    OBVIOUS
  <1>1. old \in Reading /\ Decided(old) /\ Watches(old)
    BY DEF ReadsInv
  <1>2. /\ consent.grants \in BOOLEAN /\ consent.accounts \in SUBSET Accounts
        /\ consent.scopes \in SUBSET UNION ScopeSets
    BY ConsentFits
  <1>3. reading \in [Readers -> Reading]
    BY DEF ReadsInv
  <1>4. CASE FindRow(r)
    <2> PICK call : call = [old EXCEPT !.pc = "decide", !.unread = {"scopes", "accounts"},
                                       !.copy.grants = consent.grants]
      OBVIOUS
    <2>1. call \in Reading
      BY <1>1, <1>2 DEF Reading, Copies
    <2>2. /\ call.op = old.op /\ call.account = old.account /\ call.during = old.during
          /\ call.copy.accounts = old.copy.accounts /\ call.pc = "decide" /\ old.pc = "find"
      BY <1>1, <1>4 DEF FindRow, Reading, Copies
    <2>3. Decided(call) /\ Watches(call)
      BY <1>1, <2>2 DEF Decided, Watches, Idle
    <2>4. reading' = [reading EXCEPT ![r] = call]
          /\ UNCHANGED <<consent, tokenScopes, closed, booked, answer>>
      BY <1>3, <1>4 DEF FindRow
    <2> QED BY <2>1, <2>3, <2>4, CallMoves
  <1>5. CASE FindScopes(r)
    <2> PICK call : call = [old EXCEPT !.unread = @ \ {"scopes"}, !.copy.scopes = consent.scopes]
      OBVIOUS
    <2>1. call \in Reading
      BY <1>1, <1>2 DEF Reading, Copies
    <2>2. /\ call.op = old.op /\ call.account = old.account /\ call.during = old.during
          /\ call.copy.accounts = old.copy.accounts /\ call.pc = old.pc /\ old.unread # {}
      BY <1>1, <1>5 DEF FindScopes, Reading, Copies
    <2>3. Decided(call) /\ Watches(call)
      BY <1>1, <2>2 DEF Decided, Watches, Idle
    <2>4. reading' = [reading EXCEPT ![r] = call]
          /\ UNCHANGED <<consent, tokenScopes, closed, booked, answer>>
      BY <1>3, <1>5 DEF FindScopes
    <2> QED BY <2>1, <2>3, <2>4, CallMoves
  <1>6. CASE FindAccounts(r)
    <2> PICK call : call = [old EXCEPT !.unread = @ \ {"accounts"},
                                       !.copy.accounts = consent.accounts]
      OBVIOUS
    <2>1. call \in Reading
      BY <1>1, <1>2 DEF Reading, Copies
    <2>2. /\ call.op = old.op /\ call.account = old.account /\ call.during = old.during
          /\ call.copy.accounts = consent.accounts /\ call.pc = old.pc /\ old.unread # {}
      BY <1>1, <1>6 DEF FindAccounts, Reading, Copies
    <2>3. call.pc # "read" /\ old # Idle
      BY <1>1, <2>2 DEF Idle, Decided
    <2>4. Decided(call) /\ Watches(call)
      BY <1>1, <2>2, <2>3 DEF Decided, Watches
    <2>5. reading' = [reading EXCEPT ![r] = call]
          /\ UNCHANGED <<consent, tokenScopes, closed, booked, answer>>
      BY <1>3, <1>6 DEF FindAccounts
    <2> QED BY <2>1, <2>4, <2>5, CallMoves
  <1> QED BY <1>4, <1>5, <1>6

LEMMA DecideInv ==
    ASSUME ReadsInv, NEW r \in Readers, Decide(r)
    PROVE  ReadsInv'
  <1> PICK old : old = reading[r]
    OBVIOUS
  <1> PICK call : call = IF decideAccountAccess(old.copy, old.op, old.account)
                         THEN [old EXCEPT !.pc = "read"] ELSE Idle
    OBVIOUS
  <1>1. old \in Reading /\ Decided(old) /\ Watches(old) /\ old.pc = "decide"
    BY DEF ReadsInv, Decide
  <1>2. call \in Reading
    BY <1>1, IdleFits DEF Reading
  <1>3. Decided(call) /\ Watches(call)
    <2>1. CASE decideAccountAccess(old.copy, old.op, old.account)
      <3>1. /\ call.pc = "read" /\ call.op = old.op /\ call.account = old.account
            /\ call.copy = old.copy /\ call.during = old.during /\ call.unread = {}
        BY <1>1, <2>1 DEF Reading, Decide
      <3>2. call.op # "list" => call.account \in call.copy.accounts
        BY <1>1, <2>1, <3>1, NothingIsNoValue DEF decideAccountAccess, ensureAccess, Decided
      <3>3. old # Idle
        BY <1>1 DEF Idle
      <3> QED BY <1>1, <3>1, <3>2, <3>3 DEF Decided, Watches
    <2>2. CASE ~ decideAccountAccess(old.copy, old.op, old.account)
      BY <2>2, IdleFits DEF Watches
    <2> QED BY <2>1, <2>2
  <1>4. reading' = [reading EXCEPT ![r] = call]
        /\ UNCHANGED <<consent, tokenScopes, closed, booked, answer>>
    BY DEF Decide
  <1> QED BY <1>2, <1>3, <1>4, CallMoves

LEMMA ReadInv ==
    ASSUME ReadsInv, NEW r \in Readers, Read(r)
    PROVE  ReadsInv' /\ AccountsOf(answer'[r]) \subseteq reading[r].during
  <1> PICK c : c = reading[r]
    OBVIOUS
  <1> PICK data : data = Data(c.op, c.account, c.cursor, c.copy)
    OBVIOUS
  <1>1. c \in Reading /\ Decided(c) /\ c.pc = "read"
    BY DEF ReadsInv, Read
  <1>2. /\ c.op \in Ops /\ c.copy \in Copies
        /\ c.op # "list" => c.account \in c.copy.accounts
        /\ c.copy.accounts \subseteq c.during
    BY <1>1 DEF Reading, Decided
  <1>3. /\ AccountsOf(data) \subseteq c.copy.accounts
        /\ "nextCursor" \in DOMAIN data => data.nextCursor \in Cursor
    BY <1>2, DataFits
  <1>4. /\ answer' = [answer EXCEPT ![r] = data] /\ reading' = [reading EXCEPT ![r] = Idle]
        /\ UNCHANGED <<consent, tokenScopes, closed, booked>>
    BY DEF Read
  <1>5. answer' = [s \in Readers |-> IF s = r THEN data ELSE answer[s]]
    BY <1>4 DEF ReadsInv
  <1>6. \A s \in Readers : "nextCursor" \in DOMAIN answer'[s] => answer'[s].nextCursor \in Cursor
    BY <1>3, <1>5 DEF ReadsInv
  <1>7. answer' = [s \in Readers |-> answer'[s]] /\ answer'[r] = data
    BY <1>5
  <1>8. /\ reading' \in [Readers -> Reading]
        /\ \A s \in Readers : Decided(reading[s])' /\ Watches(reading[s])'
        /\ ReadsTypeOK' /\ IsFiniteSet(booked)'
    BY <1>4, IdleFits, CallMoves DEF Watches
  <1>9. ReadsInv'
    BY <1>6, <1>7, <1>8 DEF ReadsInv, Cursor
  <1> QED BY <1>2, <1>3, <1>7, <1>9

\* A save of the consent tells every call in flight of its accounts.
LEMMA SavesAreWatched ==
    ASSUME ReadsInv, NEW saved \in Consents, SaveConsent(saved)
    PROVE  ReadsInv'
  <1>1. saved.accounts \in SUBSET Accounts
    BY ReadsAssumption
  <1> PICK call : call = [r \in Readers |->
                             IF IsIdle(r) THEN Idle
                             ELSE [reading[r] EXCEPT !.during = @ \cup saved.accounts]]
    OBVIOUS
  <1>2. /\ reading' = call /\ consent' = saved
        /\ UNCHANGED <<tokenScopes, closed, booked, answer>>
    BY DEF SaveConsent
  <1>3. ASSUME NEW r \in Readers
        PROVE  call[r] \in Reading /\ Decided(call[r]) /\ Watches(call[r])'
    <2>1. reading[r] \in Reading /\ Decided(reading[r])
      BY DEF ReadsInv
    <2>2. CASE IsIdle(r)
      <3>1. call[r] = Idle
        BY <2>2
      <3> QED BY <3>1, IdleFits DEF Watches, Idle
    <2>3. CASE ~ IsIdle(r)
      <3>1. call[r] = [reading[r] EXCEPT !.during = @ \cup saved.accounts]
        BY <2>3
      <3>2. call[r] \in Reading
        BY <1>1, <2>1, <3>1 DEF Reading
      <3>3. /\ call[r].during = reading[r].during \cup saved.accounts
            /\ call[r].op = reading[r].op /\ call[r].account = reading[r].account
            /\ call[r].pc = reading[r].pc /\ call[r].copy = reading[r].copy
            /\ call[r].unread = reading[r].unread
        BY <2>1, <3>1 DEF Reading
      <3> QED BY <1>2, <2>1, <3>2, <3>3 DEF Decided, Watches
    <2> QED BY <2>2, <2>3
  <1>4. reading' \in [Readers -> Reading]
    BY <1>2, <1>3
  <1>5. \A r \in Readers : Decided(reading[r])' /\ Watches(reading[r])'
    <2> SUFFICES ASSUME NEW r \in Readers PROVE Decided(reading'[r]) /\ Watches(reading[r])'
      BY DEF Decided
    <2>1. reading'[r] = call[r]
      BY <1>2
    <2>2. Watches(call[r])'
      BY <1>3
    <2> QED BY <1>2, <1>3, <2>1, <2>2 DEF Watches
  <1>6. \A r \in Readers : /\ reading'[r].pc \in {"idle", "find", "decide", "read"}
                           /\ reading'[r].op \in Ops
    BY <1>4 DEF Reading
  <1>7. ReadsTypeOK'
    BY <1>2, <1>6 DEF ReadsInv, ReadsTypeOK, Ops
  <1> QED BY <1>2, <1>4, <1>5, <1>7 DEF ReadsInv, Cursor

LEMMA TablesInv ==
    ASSUME ReadsInv,
           \/ \E a \in UserAccounts : CloseAccount(a)
           \/ \E t \in Transactions : Book(t)
    PROVE  ReadsInv'
  <1>1. /\ reading' = reading /\ answer' = answer /\ consent' = consent
        /\ tokenScopes' = tokenScopes
        /\ closed' \subseteq Accounts /\ booked' \subseteq Transactions
    BY ReadsAssumption DEF CloseAccount, Book, ReadsInv, ReadsTypeOK
  <1>2. IsFiniteSet(booked')
    BY FS_AddElement DEF CloseAccount, Book, ReadsInv
  <1>3. \A r \in Readers : Decided(reading[r])' /\ Watches(reading[r])'
    BY <1>1 DEF ReadsInv, Decided, Watches
  <1> QED BY <1>1, <1>2, <1>3 DEF ReadsInv, ReadsTypeOK, Ops

LEMMA ReadsInvStep == ReadsInv /\ [ReadsNext]_readVars => ReadsInv'
  <1> SUFFICES ASSUME ReadsInv, [ReadsNext]_readVars PROVE ReadsInv'
    OBVIOUS
  <1>1. CASE UNCHANGED readVars
    BY <1>1 DEF readVars, ReadsInv, ReadsTypeOK, Ops, Decided, Watches
  <1> QED BY <1>1, CanActivateInv, StatementInv, DecideInv, ReadInv, SavesAreWatched, TablesInv
          DEF ReadsNext

LEMMA ReadsInvariant == ReadsSpec => []ReadsInv
  BY ReadsInvInit, ReadsInvStep, PTL DEF ReadsSpec

\* The tables and the calls in flight keep their types, and whatever is saved over the
\* consent, closed or booked while a call runs, its answer is about accounts the consent
\* had while it ran.
THEOREM ReadsStayInConsent == ReadsSpec => []ReadsTypeOK /\ AnswersStayInConsent
  <1>1. ReadsInv => ReadsTypeOK
    BY DEF ReadsInv
  <1>2. ReadsInv /\ [ReadsNext]_readVars =>
        [\A r \in Readers : Read(r) => AccountsOf(answer'[r]) \subseteq reading[r].during]_readVars
    BY ReadInv
  <1> QED BY <1>1, <1>2, ReadsInvariant, PTL DEF ReadsSpec, AnswersStayInConsent

-----------------------------------------------------------------------------
\* The pages.

LEMMA PageStep ==
    ASSUME ReadsInv, NEW r \in Readers, Read(r),
           reading[r].op = "transactions", reading[r].cursor = Nothing,
           NEW all, all = {t \in booked : t.account = reading[r].account},
           NEW page, page = answer'[r]
    PROVE  IsNewestPage(page, all)
  <1> PICK on : on = {page.items[i] : i \in 1..Len(page.items)}
    OBVIOUS
  <1> PICK account : account = reading[r].account
    OBVIOUS
  <1>1. page = listTransactions(account, Nothing) /\ all = Found(account, Nothing)
    BY DEF Read, Data, Found, ReadsInv
  <1>2. "error" \notin DOMAIN page
    <2>1. \E items, next : page = [items |-> items, nextCursor |-> next]
      BY <1>1 DEF listTransactions
    <2> QED BY ONLY <2>1
  <1>3. IsFiniteSet(booked) /\ booked \subseteq Transaction
    BY ReadsAssumption DEF ReadsInv, ReadsTypeOK
  <1> PICK rows \in Seq(all) : \E k \in 0..Len(rows) :
          /\ rows = rowsBefore(account, Nothing) /\ k = PageSize(rows)
          /\ page.items = SubSeq(rows, 1, k)
          /\ page.nextCursor = IF k < Len(rows) THEN encodeCursor(page.items[Limit])
                               ELSE Nothing
    BY <1>1, <1>2, TransactionPage
  <1> PICK k \in 0..Len(rows) :
          /\ rows = rowsBefore(account, Nothing) /\ k = PageSize(rows)
          /\ page.items = SubSeq(rows, 1, k)
          /\ page.nextCursor = IF k < Len(rows) THEN encodeCursor(page.items[Limit])
                               ELSE Nothing
    OBVIOUS
  <1> DEFINE n == Len(rows)
  <1>4. /\ NewestFirst(rows, n)
        /\ \A i, j \in 1..n : rows[i] = rows[j] => i = j
        /\ \A t \in all : \E i \in 1..n : rows[i] = t
    <2>1. all = Found(account, Nothing) /\ rows = rowsBefore(account, Nothing)
      BY <1>1
    <2>2. AreAll(rows, all)
      BY ONLY <1>3, <2>1, RowsAreAll
    <2> QED BY <2>2 DEF AreAll
  <1>5. Len(page.items) = k /\ \A i \in 1..k : page.items[i] = rows[i] /\ page.items[i] \in all
    BY PageOf
  <1>6. n \in Nat /\ k \in Nat /\ k <= n /\ Limit \in 1..100
        /\ k <= Limit /\ (k < n => k = Limit)
    <2>1. n \in Nat
      BY LenProperties
    <2>2. Limit \in 1..100
      BY ReadsAssumption
    <2>3. k = IF n > Limit THEN Limit ELSE n
      BY DEF PageSize, hasMore
    <2> HIDE DEF n
    <2> QED BY ONLY <2>1, <2>2, <2>3
  <1> HIDE DEF n
  <1>7. on = {rows[i] : i \in 1..k} /\ on \subseteq all
    BY <1>5
  <1>8. ASSUME NEW t \in all \ on, NEW u \in on PROVE Older(t, u)
    <2>1. PICK j \in 1..n : rows[j] = t
      BY <1>4
    <2>2. PICK i \in 1..k : rows[i] = u
      BY <1>7
    <2>3. ~ (j \in 1..k)
      BY <1>7, <2>1
    <2>4. i \in 1..n /\ i < j
      BY <1>6, <2>3
    <2> QED BY <1>4, <2>1, <2>2, <2>4 DEF NewestFirst
  <1>9. ASSUME NEW i \in 1..k, NEW j \in 1..k, i < j
        PROVE  Older(page.items[j], page.items[i])
    <2>1. i \in 1..n /\ j \in 1..n
      BY <1>6
    <2> QED BY <1>4, <1>5, <1>9, <2>1 DEF NewestFirst
  <1>10. CASE k < n
    <2>1. page.items[Limit] \in Transaction
      <3>1. Limit \in 1..k
        BY ONLY <1>6, <1>10
      <3>2. page.items[Limit] \in all /\ all \subseteq booked
        BY <1>5, <3>1
      <3> QED BY <1>3, <3>2
    <2>2. encodeCursor(page.items[Limit]) \in Nat \X Nat \X Nat
      BY <2>1 DEF encodeCursor, Transaction
    <2>3. page.nextCursor # Nothing
      <3>1. page.nextCursor = encodeCursor(page.items[Limit])
        BY <1>10 DEF n
      <3> QED BY <2>2, <3>1, NothingIsNoValue
    <2>4. k + 1 \in 1..n /\ \A i \in 1..k : i \in 1..n /\ i # k + 1
      BY ONLY <1>6, <1>10
    <2>5. \A i \in 1..k : rows[i] # rows[k + 1]
      <3> SUFFICES ASSUME NEW i \in 1..k, rows[i] = rows[k + 1] PROVE FALSE
        OBVIOUS
      <3>1. i \in 1..n /\ i # k + 1
        BY <2>4
      <3> QED BY <1>4, <2>4, <3>1
    <2>6. rows[k + 1] \in all /\ rows[k + 1] \notin on
      <3>1. rows \in [1..n -> all]
        BY LenProperties DEF n
      <3>2. rows[k + 1] \in all
        BY <2>4, <3>1
      <3> QED BY <1>7, <2>5, <3>2
    <2>7. on # all
      BY <2>6
    <2> QED BY ONLY on = {page.items[i] : i \in 1..Len(page.items)},
                     <1>5, <1>6, <1>7, <1>8, <1>9, <2>3, <2>7, <1>10 DEF IsNewestPage
  <1>11. CASE k = n
    <2>1. page.nextCursor = Nothing
      BY <1>6, <1>11 DEF n
    <2>2. all \subseteq on
      <3>1. \A t \in all : \E i \in 1..k : rows[i] = t
        BY <1>4, <1>11
      <3> QED BY <1>7, <3>1
    <2> QED BY ONLY on = {page.items[i] : i \in 1..Len(page.items)},
                     <1>5, <1>6, <1>7, <1>8, <1>9, <2>1, <2>2, <1>11 DEF IsNewestPage
  <1>12. k < n \/ k = n
    BY <1>6
  <1> QED BY <1>10, <1>11, <1>12

\* However many transactions an account has and whatever is booked meanwhile, the first page
\* is the newest of them at the time of the query, in order, and says whether there are more.
THEOREM PagesAreComplete == ReadsSpec => PagesAreNewestFirst
  <1>1. ReadsInv => \A r \in Readers :
          Read(r) /\ reading[r].op = "transactions" /\ reading[r].cursor = Nothing =>
          IsNewestPage(answer'[r], {t \in booked : t.account = reading[r].account})
    BY PageStep
  <1> QED BY <1>1, ReadsInvariant, PTL DEF PagesAreNewestFirst

\* No cursor that the encoding can produce decodes to a position.
LEMMA NoCursorIsPosition ==
    ASSUME NEW cursor \in Nat \X Nat \X Nat
    PROVE  ~IsPosition(decodeCursor(cursor))
  <1>1. decodeCursor(cursor).bookingDate = <<Head(cursor)>>
    BY DEF decodeCursor
  <1>2. Len(<<Head(cursor)>>) = 1
    OBVIOUS
  <1> QED BY <1>1, <1>2 DEF IsPosition

\* The cursor that comes with a first page is never of use, whatever is booked: every
\* query with one ends in an error.
THEOREM NoSecondPage ==
    ReadsSpec => [][\A r \in Readers :
        Read(r) /\ reading[r].op = "transactions" /\ reading[r].cursor # Nothing =>
        "error" \in DOMAIN answer'[r]]_readVars
  <1>1. ASSUME ReadsInv, NEW r \in Readers, Read(r), reading[r].op = "transactions",
               reading[r].cursor # Nothing
        PROVE  "error" \in DOMAIN answer'[r]
    <2> PICK cursor \in Nat \X Nat \X Nat : cursor = reading[r].cursor
      BY <1>1 DEF ReadsInv, Reading, Cursor
    <2>1. ~IsPosition(decodeCursor(cursor)) /\ cursor # Nothing
      BY <1>1, NoCursorIsPosition
    <2>2. Data("transactions", reading[r].account, cursor, reading[r].copy) = [error |-> TRUE]
      BY <2>1 DEF Data, listTransactions
    <2>3. answer'[r] = Data("transactions", reading[r].account, cursor, reading[r].copy)
      BY <1>1 DEF Read, ReadsInv
    <2> QED BY <2>2, <2>3
  <1>2. ReadsInv => \A r \in Readers :
          Read(r) /\ reading[r].op = "transactions" /\ reading[r].cursor # Nothing =>
          "error" \in DOMAIN answer'[r]
    BY <1>1
  <1> QED BY <1>2, ReadsInvariant, PTL

(***************************************************************************)
(* Amounts, of any number of digits.  Number and mergeBalanceRecords are   *)
(* recursive functions over the digits and the rows: that such a function  *)
(* exists, and so satisfies its own equation, is shown by building its     *)
(* results one after the other.                                            *)
(***************************************************************************)

\* g runs through the results of n steps from base; step gives the next of them.
Runs(g, n, S, base, step) ==
    /\ g \in [0..n -> S] /\ g[0] = base
    /\ \A i \in 1..n : g[i] = step[<<i, g[i - 1]>>]

\* However many steps, there are such results.
LEMMA RunExists ==
    ASSUME NEW n \in Nat, NEW S, NEW base \in S, NEW step \in [(1..n) \X S -> S]
    PROVE  \E g : Runs(g, n, S, base, step)
  <1> DEFINE T == {m \in Nat : m <= n => \E g : Runs(g, m, S, base, step)}
  <1>1. 0 \in T
    <2>1. Runs([i \in 0..0 |-> base], 0, S, base, step)
      BY DEF Runs
    <2> QED BY <2>1
  <1>2. ASSUME NEW m \in T PROVE m + 1 \in T
    <2> SUFFICES ASSUME m + 1 <= n PROVE \E g : Runs(g, m + 1, S, base, step)
      OBVIOUS
    <2>1. m \in Nat /\ m <= n
      OBVIOUS
    <2>2. PICK g : Runs(g, m, S, base, step)
      BY <2>1
    <2>3. m \in 0..m /\ m + 1 \in 1..n /\ g[m] \in S /\ step[<<m + 1, g[m]>>] \in S
      BY <2>1, <2>2 DEF Runs
    <2> DEFINE h == [i \in 0..(m + 1) |-> IF i = m + 1 THEN step[<<m + 1, g[m]>>] ELSE g[i]]
    <2>4. h \in [0..(m + 1) -> S]
      <3>1. \A i \in 0..(m + 1) : i = m + 1 \/ i \in 0..m
        BY <2>1
      <3> QED BY <2>2, <2>3, <3>1 DEF Runs
    <2>5. h[0] = base
      BY <2>1, <2>2 DEF Runs
    <2>6. ASSUME NEW i \in 1..(m + 1) PROVE h[i] = step[<<i, h[i - 1]>>]
      <3>1. i - 1 \in 0..(m + 1) /\ i - 1 # m + 1 /\ i \in 0..(m + 1) /\ h[i - 1] = g[i - 1]
        BY <2>1
      <3>2. CASE i = m + 1
        <4>1. i - 1 = m
          BY <2>1, <3>2
        <4> QED BY <3>1, <3>2, <4>1
      <3>3. CASE i # m + 1
        <4>1. i \in 1..m
          BY <2>1, <3>3
        <4>2. g[i] = step[<<i, g[i - 1]>>]
          BY <2>2, <4>1 DEF Runs
        <4> QED BY <3>1, <3>3, <4>2
      <3> QED BY <3>2, <3>3
    <2> HIDE DEF h
    <2>7. Runs(h, m + 1, S, base, step)
      BY <2>4, <2>5, <2>6 DEF Runs
    <2> QED BY <2>7
  <1>3. T = Nat
    <2> HIDE DEF T
    <2>1. T \in SUBSET Nat
      BY DEF T
    <2> QED BY <1>1, <1>2, <2>1, InductionOnNat
  <1> QED BY <1>3

\* The number digits spell is what the last of its steps leaves.
LEMMA NumberRuns ==
    ASSUME NEW digits, NEW n \in Nat, Len(digits) = n, \A i \in 1..n : digits[i] \in Nat
    PROVE  \E g : /\ g[0] = 0 /\ \A i \in 1..n : g[i] = 10 * g[i - 1] + digits[i]
                  /\ Number(digits) = g[n]
  <1> DEFINE Eq(g) == g = [m \in 0..n |-> IF m = 0 THEN 0 ELSE 10 * g[m - 1] + digits[m]]
             value == CHOOSE g : Eq(g)
             step == [z \in (1..n) \X Nat |-> 10 * z[2] + digits[z[1]]]
  <1>1. \E g : Runs(g, n, Nat, 0, step)
    <2>1. step \in [(1..n) \X Nat -> Nat]
      OBVIOUS
    <2> HIDE DEF step
    <2> QED BY <2>1, RunExists
  <1>2. PICK g : Runs(g, n, Nat, 0, step)
    BY <1>1
  <1>3. Eq(g)
    <2>1. g \in [0..n -> Nat] /\ g[0] = 0
      BY <1>2 DEF Runs
    <2>2. \A i \in 1..n : g[i] = 10 * g[i - 1] + digits[i]
      <3> SUFFICES ASSUME NEW i \in 1..n PROVE g[i] = 10 * g[i - 1] + digits[i]
        OBVIOUS
      <3>1. g[i] = step[<<i, g[i - 1]>>] /\ g[i - 1] \in Nat
        <4> HIDE DEF step
        <4> QED BY <1>2, <2>1 DEF Runs
      <3>2. <<i, g[i - 1]>> \in (1..n) \X Nat
        BY <3>1
      <3> QED BY <3>1, <3>2
    <2>3. \A m \in 0..n : m # 0 => m \in 1..n
      OBVIOUS
    <2> QED BY <2>1, <2>2, <2>3
  <1>4. Eq(value)
    <2> HIDE DEF Eq
    <2> QED BY <1>3
  <1>5. Number(digits) = value[n]
    BY DEF Number
  <1> HIDE DEF value
  <1>6. value[0] = 0 /\ \A i \in 1..n : value[i] = 10 * value[i - 1] + digits[i]
    <2>1. \A i \in 1..n : i \in 0..n /\ i # 0
      OBVIOUS
    <2> QED BY <1>4, <2>1
  <1> QED BY <1>5, <1>6

Digit == 0..9

\* No currency has more than two digits.
LEMMA ShortNumbers ==
    ASSUME NEW digits \in Seq(Digit)
    PROVE  /\ Len(digits) = 0 => Number(digits) = 0
           /\ Len(digits) = 1 => Number(digits) = digits[1]
           /\ Len(digits) = 2 => Number(digits) = 10 * digits[1] + digits[2]
  <1>1. PICK n \in Nat : n = Len(digits)
    OBVIOUS
  <1>2. \A i \in 1..n : digits[i] \in Digit
    BY <1>1
  <1>3. \A i \in 1..n : digits[i] \in Nat
    <2>1. \A d \in Digit : d \in Nat
      BY DEF Digit
    <2> QED BY <1>2, <2>1
  <1>4. PICK g : /\ g[0] = 0 /\ \A i \in 1..n : g[i] = 10 * g[i - 1] + digits[i]
                 /\ Number(digits) = g[n]
    BY <1>1, <1>3, NumberRuns
  <1>5. CASE n = 0
    BY <1>1, <1>4, <1>5
  <1>6. CASE n = 1
    <2>1. 1 \in 1..n
      BY <1>6
    <2>2. g[1] = 10 * g[1 - 1] + digits[1] /\ digits[1] \in Nat
      BY <1>3, <1>4, <2>1
    <2>3. g[1] = digits[1]
      BY <1>4, <2>2
    <2> QED BY <1>1, <1>4, <1>6, <2>3
  <1>7. CASE n = 2
    <2>1. 1 \in 1..n /\ 2 \in 1..n
      BY <1>7
    <2>2. /\ g[1] = 10 * g[1 - 1] + digits[1] /\ digits[1] \in Nat
          /\ g[2] = 10 * g[2 - 1] + digits[2] /\ digits[2] \in Nat
      BY <1>3, <1>4, <2>1
    <2>3. g[1] = digits[1]
      BY <1>4, <2>2
    <2>4. g[2] = 10 * digits[1] + digits[2]
      BY <2>2, <2>3
    <2> QED BY <1>1, <1>4, <1>7, <2>4
  <1> QED BY <1>1, <1>5, <1>6, <1>7

\* padEnd adds zeros at the end, and nothing else.
LEMMA PaddedDigits ==
    ASSUME NEW f \in Seq(Digit), NEW decimals \in {0, 2}, Len(f) <= decimals
    PROVE  /\ padEnd(f, decimals) \in Seq(Digit) /\ Len(padEnd(f, decimals)) = decimals
           /\ \A i \in 1..decimals : padEnd(f, decimals)[i] = IF i <= Len(f) THEN f[i] ELSE 0
  <1> DEFINE z == Zeros(decimals - Len(f))
  <1>1. z \in Seq(Digit) /\ Len(z) = decimals - Len(f)
        /\ \A i \in 1..(decimals - Len(f)) : z[i] = 0
    BY DEF Zeros, Digit
  <1> HIDE DEF z
  <1>2. /\ f \o z \in Seq(Digit) /\ Len(f \o z) = decimals
        /\ \A i \in 1..Len(f \o z) : (f \o z)[i] = IF i <= Len(f) THEN f[i] ELSE z[i - Len(f)]
    BY <1>1, ConcatProperties
  <1> QED BY <1>1, <1>2 DEF padEnd, z

\* A padded fraction is worth what the fraction was.
KeepsWorth(f, decimals) ==
    /\ Number(f) \in Nat /\ Number(padEnd(f, decimals)) \in Nat
    /\ Number(padEnd(f, decimals)) * 10^Len(f) = Number(f) * 10^decimals
    /\ 10^Len(f) \in {1, 10, 100} /\ 10^decimals \in {1, 100}
    /\ Number(f) = 0 <=> Number(padEnd(f, decimals)) = 0

LEMMA PaddedNumber ==
    ASSUME NEW f \in Seq(Digit), NEW decimals \in {0, 2}, Len(f) <= decimals
    PROVE  KeepsWorth(f, decimals)
  <1> SUFFICES /\ Number(f) \in Nat /\ Number(padEnd(f, decimals)) \in Nat
               /\ Number(padEnd(f, decimals)) * 10^Len(f) = Number(f) * 10^decimals
               /\ 10^Len(f) \in {1, 10, 100} /\ 10^decimals \in {1, 100}
               /\ Number(f) = 0 <=> Number(padEnd(f, decimals)) = 0
    BY DEF KeepsWorth
  <1> PICK v : v = Number(f)
    OBVIOUS
  <1> PICK p \in Seq(Digit) : /\ p = padEnd(f, decimals) /\ Len(p) = decimals
                              /\ \A i \in 1..decimals : p[i] = IF i <= Len(f) THEN f[i] ELSE 0
    BY PaddedDigits
  <1> PICK m : m = Number(p)
    OBVIOUS
  <1>1. 10^0 = 1 /\ 10^1 = 10 /\ 10^2 = 100
    OBVIOUS
  <1>2. /\ Len(f) = 0 => v = 0
        /\ Len(f) = 1 => v = f[1]
        /\ Len(f) = 2 => v = 10 * f[1] + f[2]
    BY ShortNumbers
  <1>3. /\ decimals = 0 => m = 0
        /\ decimals = 2 => m = 10 * p[1] + p[2]
    BY ShortNumbers
  <1>4. \A i \in 1..Len(f) : f[i] \in Nat
    BY DEF Digit
  <1>5. CASE Len(f) = 0
    <2>1. v = 0 /\ 10^Len(f) = 1
      BY <1>1, <1>2, <1>5
    <2>2. m = 0
      <3>1. CASE decimals = 0
        BY <1>3, <3>1
      <3>2. CASE decimals = 2
        BY <1>3, <1>5, <3>2
      <3> QED BY <3>1, <3>2
    <2>3. 10^decimals \in {1, 100}
      BY <1>1
    <2> QED BY ONLY <2>1, <2>2, <2>3, v = Number(f), p = padEnd(f, decimals), m = Number(p)
  <1>6. CASE Len(f) = 1
    <2>1. decimals = 2 /\ f[1] \in Nat /\ v = f[1]
      BY <1>2, <1>4, <1>6
    <2>2. p[1] = f[1] /\ p[2] = 0
      BY <1>6, <2>1
    <2>3. m = 10 * v
      BY <1>3, <2>1, <2>2
    <2> QED BY ONLY <1>1, <1>6, <2>1, <2>3, v = Number(f), p = padEnd(f, decimals), m = Number(p)
  <1>7. CASE Len(f) = 2
    <2>1. decimals = 2 /\ f[1] \in Nat /\ f[2] \in Nat /\ v = 10 * f[1] + f[2]
      BY <1>2, <1>4, <1>7
    <2>2. p[1] = f[1] /\ p[2] = f[2]
      BY <1>7, <2>1
    <2>3. m = v /\ v \in Nat
      BY <1>3, <2>1, <2>2
    <2> QED BY ONLY <1>1, <1>7, <2>1, <2>3, v = Number(f), p = padEnd(f, decimals), m = Number(p)
  <1>8. Len(f) = 0 \/ Len(f) = 1 \/ Len(f) = 2
    <2> PICK n \in Nat : n = Len(f)
      OBVIOUS
    <2> QED OBVIOUS
  <1> QED BY ONLY <1>5, <1>6, <1>7, <1>8

Units(currency) == 10^CURRENCY_MINOR_UNITS[currency]

LEMMA UnitsAre ==
    ASSUME NEW currency \in DOMAIN CURRENCY_MINOR_UNITS
    PROVE  /\ CURRENCY_MINOR_UNITS[currency] \in {0, 2}
           /\ Units(currency) = IF CURRENCY_MINOR_UNITS[currency] = 0 THEN 1 ELSE 100
  <1>1. CURRENCY_MINOR_UNITS[currency] \in {0, 2}
    BY DEF CURRENCY_MINOR_UNITS
  <1>2. 10^0 = 1 /\ 10^2 = 100
    OBVIOUS
  <1> QED BY <1>1, <1>2 DEF Units

\* Below MaxExact a double is the integer itself.
LEMMA ExactDouble == ASSUME NEW n \in Nat, n < MaxExact PROVE Double(n) = n
  BY DEF Double

\* A decimal amount of less than MaxExact minor units, in the words of the conversion.
LEMMA FromMajor ==
    ASSUME NEW currency \in DOMAIN CURRENCY_MINOR_UNITS, NEW amount,
           amount.negative \in BOOLEAN, amount.whole \in Nat, amount.fraction \in Seq(Digit),
           Len(amount.fraction) <= CURRENCY_MINOR_UNITS[currency],
           amount.whole * Units(currency)
             + Number(padEnd(amount.fraction, CURRENCY_MINOR_UNITS[currency])) < MaxExact
    PROVE  LET minor == amount.whole * Units(currency)
                          + Number(padEnd(amount.fraction, CURRENCY_MINOR_UNITS[currency]))
           IN  /\ minor \in Nat
               /\ fromMajor(amount, currency) =
                     IF amount.negative /\ minor # 0 THEN Refused
                     ELSE [refused |-> FALSE, minor |-> minor]
  <1> DEFINE decimals == CURRENCY_MINOR_UNITS[currency]
             units == Units(currency)
             padded == Number(padEnd(amount.fraction, decimals))
             sign == IF amount.negative THEN -1 ELSE 1
             double == Double(Double(Double(amount.whole) * units) + padded)
  <1> PICK m : m = amount.whole * units + padded
    OBVIOUS
  <1>1. decimals \in {0, 2} /\ units \in {1, 100}
    BY UnitsAre
  <1>2. padded \in Nat
    <2>1. PICK f \in Seq(Digit), d \in {0, 2} : f = amount.fraction /\ d = decimals
      BY <1>1
    <2>2. Len(f) <= d
      BY <2>1
    <2>3. KeepsWorth(f, d)
      BY ONLY <2>2, PaddedNumber
    <2> HIDE DEF decimals
    <2> QED BY <2>1, <2>3 DEF KeepsWorth
  <1>3. fromMajor(amount, currency) =
           IF Len(amount.fraction) > decimals \/ sign * m < 0 THEN Refused
           ELSE [refused |-> FALSE, minor |-> sign * m]
    <2>1. fromMajor(amount, currency) =
             IF Len(amount.fraction) > decimals \/ sign * double < 0 THEN Refused
             ELSE [refused |-> FALSE, minor |-> sign * double]
      BY DEF fromMajor, Units
    <2>2. double = m
      <3> PICK w \in Nat : w = amount.whole
        OBVIOUS
      <3> HIDE DEF padded, units
      <3>1. /\ m = w * units + padded /\ w * units \in Nat /\ m \in Nat
            /\ w <= w * units /\ w * units <= m
        <4>1. CASE units = 1
          BY <1>2, <4>1
        <4>2. CASE units = 100
          BY <1>2, <4>2
        <4> QED BY <1>1, <4>1, <4>2
      <3>2. m < MaxExact /\ MaxExact \in Nat
        BY ValuesAssumption DEF padded, units, decimals
      <3>3. w < MaxExact /\ w * units < MaxExact
        BY <3>1, <3>2
      <3>4. Double(w) = w /\ Double(w * units) = w * units /\ Double(m) = m
        BY <3>1, <3>2, <3>3, ExactDouble
      <3> QED BY <3>1, <3>4
    <2> HIDE DEF double
    <2> QED BY <2>1, <2>2
  <1>4. ~ (Len(amount.fraction) > decimals)
    <2> PICK n \in Nat : n = Len(amount.fraction)
      OBVIOUS
    <2> QED BY <1>1
  <1> HIDE DEF padded, decimals, units
  <1>5. m \in Nat
    BY <1>1, <1>2
  <1>6. sign * m = IF amount.negative THEN -m ELSE m
    BY <1>5
  <1>7. (sign * m < 0 <=> amount.negative /\ m # 0) /\ (~ (sign * m < 0) => sign * m = m)
    BY ONLY <1>5, <1>6, amount.negative \in BOOLEAN
  <1> HIDE DEF sign
  <1>8. fromMajor(amount, currency) =
           IF amount.negative /\ m # 0 THEN Refused ELSE [refused |-> FALSE, minor |-> m]
    BY ONLY <1>3, <1>4, <1>7
  <1> QED BY <1>5, <1>8 DEF padded, decimals, units

\* What toMajorString writes is read as the same amount.
LEMMA WrittenBack ==
    ASSUME NEW currency \in DOMAIN CURRENCY_MINOR_UNITS, NEW minor \in Nat,
           minor < MaxExact
    PROVE  fromMajor(toMajorString(minor, currency), currency)
              = [refused |-> FALSE, minor |-> minor]
  <1> DEFINE decimals == CURRENCY_MINOR_UNITS[currency]
             units == Units(currency)
             rest == minor % units
             back == toMajorString(minor, currency)
             digits == DigitsOf(rest, decimals)
             padded == padEnd(digits, decimals)
  <1>1. \/ decimals = 0 /\ units = 1
        \/ decimals = 2 /\ units = 100
    BY UnitsAre
  <1>2. /\ minor \div units \in Nat /\ rest \in 0..(units - 1)
        /\ minor = (minor \div units) * units + rest
    <2>1. CASE units = 1
      BY <2>1
    <2>2. CASE units = 100
      BY <2>2
    <2> HIDE DEF rest, units
    <2> QED BY <1>1, <2>1, <2>2
  <1>3. back.negative = FALSE /\ back.whole = minor \div units /\ back.fraction = digits
    BY DEF toMajorString, Units
  <1>4. /\ digits \in Seq(Digit) /\ Len(digits) = decimals
        /\ \A i \in 1..decimals : digits[i] = (rest \div 10^(decimals - i)) % 10
    <2>1. \A i \in 1..decimals : (rest \div 10^(decimals - i)) % 10 \in Digit
      <3> SUFFICES ASSUME NEW i \in 1..decimals
                   PROVE  (rest \div 10^(decimals - i)) % 10 \in Digit
        OBVIOUS
      <3>1. 10^0 = 1 /\ 10^1 = 10
        OBVIOUS
      <3>2. decimals - i = 0 \/ decimals - i = 1
        BY <1>1
      <3>3. PICK p \in {1, 10} : p = 10^(decimals - i)
        BY <3>1, <3>2
      <3>4. rest \in Nat
        BY <1>1, <1>2
      <3> HIDE DEF rest
      <3>5. (rest \div p) % 10 \in Digit
        BY <3>3, <3>4 DEF Digit
      <3> QED BY <3>3, <3>5
    <2> HIDE DEF rest
    <2>2. decimals \in Nat
      BY <1>1
    <2> HIDE DEF decimals
    <2> QED BY <2>1, <2>2 DEF DigitsOf
  <1> HIDE DEF digits
  <1>5. /\ padded \in Seq(Digit) /\ Len(padded) = decimals
        /\ \A i \in 1..decimals : padded[i] = digits[i]
    <2>1. PICK f \in Seq(Digit), d \in {0, 2} : f = digits /\ d = decimals
      BY <1>1, <1>4
    <2> HIDE DEF decimals
    <2>2. Len(f) <= d
      BY <1>4, <2>1
    <2>3. /\ padEnd(f, d) \in Seq(Digit) /\ Len(padEnd(f, d)) = d
          /\ \A i \in 1..d : padEnd(f, d)[i] = IF i <= Len(f) THEN f[i] ELSE 0
      BY ONLY <2>2, PaddedDigits
    <2>4. \A i \in 1..d : i <= Len(f)
      BY <1>4, <2>1
    <2> QED BY ONLY <2>1, <2>3, <2>4 DEF padded
  <1>6. Number(padded) = rest
    <2>1. CASE decimals = 0
      <3>1. rest = 0
        BY <1>1, <1>2, <2>1
      <3> HIDE DEF padded, rest
      <3>2. PICK q \in Seq(Digit) : q = padded /\ Len(q) = 0
        BY <1>5, <2>1
      <3>3. Number(q) = 0
        BY ONLY <3>2, ShortNumbers
      <3> QED BY ONLY <3>1, <3>2, <3>3
    <2>2. CASE decimals = 2
      <3>1. 10^0 = 1 /\ 10^1 = 10
        OBVIOUS
      <3>2. PICK n \in 0..99 : n = rest
        BY <1>1, <1>2, <2>2
      <3>3. padded[1] = (n \div 10) % 10 /\ padded[2] = (n \div 1) % 10
        BY <1>4, <1>5, <2>2, <3>1, <3>2
      <3>4. n = 10 * ((n \div 10) % 10) + ((n \div 1) % 10)
        OBVIOUS
      <3>5. Number(padded) = 10 * padded[1] + padded[2]
        <4> HIDE DEF padded
        <4>1. PICK q \in Seq(Digit) : q = padded /\ Len(q) = 2
          BY <1>5, <2>2
        <4>2. Number(q) = 10 * q[1] + q[2]
          BY ONLY <4>1, ShortNumbers
        <4> QED BY ONLY <4>1, <4>2
      <3> HIDE DEF padded, rest
      <3> QED BY <3>2, <3>3, <3>4, <3>5
    <2> QED BY <1>1, <2>1, <2>2
  <1>7. /\ back.negative \in BOOLEAN /\ back.whole \in Nat /\ back.fraction \in Seq(Digit)
        /\ Len(back.fraction) <= decimals
    <2> HIDE DEF back, rest
    <2>1. back.fraction \in Seq(Digit) /\ Len(back.fraction) = decimals
      BY ONLY <1>3, <1>4
    <2>2. decimals \in Nat
      BY <1>1
    <2>3. Len(back.fraction) <= decimals
      <3> HIDE DEF decimals
      <3> QED BY ONLY <2>1, <2>2
    <2> QED BY ONLY <1>2, <1>3, <2>1, <2>3
  <1> HIDE DEF back
  <1>8. back.whole * units + Number(padEnd(back.fraction, decimals)) = minor
    BY <1>2, <1>3, <1>6
  <1> HIDE DEF decimals, units
  <1> QED BY <1>3, <1>7, <1>8, FromMajor DEF back, decimals, units

LEMMA AmountFields ==
    ASSUME NEW amount \in Decimals
    PROVE  amount.negative \in BOOLEAN /\ amount.whole \in Nat /\ amount.fraction \in Seq(Digit)
  <1>1. /\ amount.negative \in BOOLEAN /\ amount.whole \in Wholes
        /\ amount.fraction \in UNION {[1..n -> FracDigits] : n \in 0..MaxFraction}
    BY DEF Decimals
  <1>2. PICK n \in 0..MaxFraction : amount.fraction \in [1..n -> FracDigits]
    BY <1>1
  <1>3. n \in Nat
    BY ValuesAssumption
  <1>4. amount.fraction \in [1..n -> Digit]
    BY <1>2, ValuesAssumption DEF Digit
  <1>5. amount.fraction \in Seq(Digit)
    BY <1>3, <1>4
  <1> QED BY <1>1, <1>5, ValuesAssumption

\* Of one amount, in any currency.
LEMMA ExactMoney == decimal \in Decimals => MoneyIsExact
  <1> SUFFICES ASSUME decimal \in Decimals, NEW currency \in DOMAIN CURRENCY_MINOR_UNITS
               PROVE  LET units == 10^CURRENCY_MINOR_UNITS[currency]
                          scale == 10^Len(decimal.fraction)
                          value == decimal.whole * scale + Number(decimal.fraction)
                          money == fromMajor(decimal, currency)
                      IN  value * units < MaxExact * scale =>
                          /\ ~money.refused =>
                                /\ money.minor * scale = value * units
                                /\ fromMajor(toMajorString(money.minor, currency), currency) = money
                          /\ money.refused <=> \/ Len(decimal.fraction) > CURRENCY_MINOR_UNITS[currency]
                                               \/ decimal.negative /\ value > 0
    BY DEF MoneyIsExact
  <1> DEFINE decimals == CURRENCY_MINOR_UNITS[currency]
             f == decimal.fraction
             units == 10^CURRENCY_MINOR_UNITS[currency]
             scale == 10^Len(decimal.fraction)
             value == decimal.whole * scale + Number(decimal.fraction)
             money == fromMajor(decimal, currency)
             padded == Number(padEnd(f, decimals))
  <1>1. decimal.negative \in BOOLEAN /\ decimal.whole \in Nat /\ f \in Seq(Digit)
    BY AmountFields
  <1>2. decimals \in {0, 2} /\ units = Units(currency)
    BY UnitsAre DEF Units
  <1>3. CASE Len(f) > decimals
    <2>1. money = Refused
      BY <1>3 DEF fromMajor
    <2> QED BY <1>3, <2>1 DEF Refused
  <1>4. CASE Len(f) <= decimals
    <2>1. /\ Number(f) \in Nat /\ padded \in Nat /\ padded * scale = Number(f) * units
          /\ scale \in {1, 10, 100} /\ units \in {1, 100}
          /\ Number(f) = 0 <=> padded = 0
      <3>1. PICK e \in Seq(Digit), d \in {0, 2} : e = f /\ d = decimals
        BY <1>1, <1>2
      <3>2. Len(e) <= d
        BY <1>4, <3>1
      <3>3. KeepsWorth(e, d)
        BY ONLY <3>2, PaddedNumber
      <3> HIDE DEF decimals
      <3>4. KeepsWorth(f, decimals)
        BY ONLY <3>1, <3>3
      <3> QED BY ONLY <3>4 DEF KeepsWorth, decimals
    <2> PICK w \in Nat : w = decimal.whole
      BY <1>1
    <2> PICK v \in Nat : v = Number(f)
      BY <2>1
    <2> PICK minor : minor = w * units + padded
      OBVIOUS
    <2>2. value = w * scale + v
      BY DEF value
    <2>3. /\ minor \in Nat
          /\ minor * scale = value * units
          /\ minor # 0 <=> value > 0
      <3> HIDE DEF padded, money, units, scale, decimals, value
      <3>1. /\ padded \in Nat /\ padded * scale = v * units /\ (v = 0 <=> padded = 0)
            /\ scale \in {1, 10, 100} /\ units \in {1, 100}
        BY <2>1
      <3>2. minor \in Nat /\ minor * scale = w * units * scale + padded * scale
        BY ONLY <3>1, w \in Nat, minor = w * units + padded
      <3>3. value * units = w * units * scale + v * units
        BY ONLY <2>2, <3>1, w \in Nat, v \in Nat
      <3>4. minor = 0 <=> w = 0 /\ padded = 0
        BY ONLY <3>1, w \in Nat, minor = w * units + padded
      <3>5. value \in Nat /\ (value = 0 <=> w = 0 /\ v = 0)
        BY ONLY <2>2, <3>1, w \in Nat, v \in Nat
      <3>6. minor # 0 <=> value > 0
        BY ONLY <3>1, <3>4, <3>5
      <3> QED BY ONLY <3>1, <3>2, <3>3, <3>6
    <2> SUFFICES ASSUME value * units < MaxExact * scale
                 PROVE  /\ ~money.refused =>
                              /\ money.minor * scale = value * units
                              /\ fromMajor(toMajorString(money.minor, currency), currency) = money
                        /\ money.refused <=> \/ Len(f) > decimals
                                             \/ decimal.negative /\ value > 0
      BY DEF units, scale, value, money, decimals
    <2>4. minor < MaxExact
      <3>1. MaxExact \in Nat
        BY ValuesAssumption
      <3>2. minor * scale < MaxExact * scale
        BY <2>3
      <3> HIDE DEF padded, money, units, scale, decimals, value
      <3> QED BY ONLY <2>1, <2>3, <3>1, <3>2
    <2>5. money = IF decimal.negative /\ minor # 0 THEN Refused
                  ELSE [refused |-> FALSE, minor |-> minor]
      BY <1>1, <1>2, <1>4, <2>4, FromMajor
    <2> HIDE DEF padded, money, units, scale, decimals, value
    <2>6. CASE decimal.negative /\ minor # 0
      BY <1>4, <2>3, <2>6, <2>5 DEF Refused, units, scale, value, money, decimals
    <2>7. CASE ~ (decimal.negative /\ minor # 0)
      <3>1. money = [refused |-> FALSE, minor |-> minor]
        BY <2>7, <2>5
      <3>2. fromMajor(toMajorString(minor, currency), currency) = money
        BY <2>3, <2>4, <3>1, WrittenBack
      <3>3. money.refused = FALSE /\ money.minor = minor
        BY <3>1
      <3>4. ~ (Len(f) > decimals)
        <4>1. Len(f) \in Nat
          BY <1>1
        <4> QED BY <1>2, <1>4, <4>1
      <3>5. ~ (decimal.negative /\ value > 0)
        BY <2>3, <2>7
      <3> QED BY <2>3, <3>2, <3>3, <3>4, <3>5 DEF units, scale, value, money, decimals
    <2> QED BY <2>6, <2>7
  <1>5. Len(f) \in Nat /\ decimals \in Nat
    BY <1>1, <1>2
  <1> QED BY <1>3, <1>4, <1>5

(***************************************************************************)
(* The merge of balance rows.  What the record of a currency is after the  *)
(* first rows is a matter of the set of them, so the order is no part of   *)
(* the induction on the prefixes of the rows.                              *)
(***************************************************************************)

NoRecord == [none |-> TRUE]

BalanceRecord == [availableMinor: Amounts \cup {0}, currentMinor: Amounts \cup {0}, asOf: {1, 2}]

\* The record has what the rows of the set say.
IsMerged(record, S) ==
    IF S = {} THEN record = NoRecord
    ELSE /\ record \in BalanceRecord
         /\ \A r \in S : /\ r.balanceType = "available" => record.availableMinor = r.amountMinor
                         /\ r.balanceType = "current" => record.currentMinor = r.amountMinor
                         /\ r.asOf <= record.asOf
         /\ (\A r \in S : r.balanceType # "available") => record.availableMinor = 0
         /\ (\A r \in S : r.balanceType # "current") => record.currentMinor = 0
         /\ \E r \in S : r.asOf = record.asOf

LEMMA NoRecordIsNone ==
    /\ "none" \in DOMAIN NoRecord
    /\ \A record \in BalanceRecord : "none" \notin DOMAIN record
  BY DEF NoRecord, BalanceRecord

LEMMA RowFields ==
    ASSUME NEW row \in BalanceRow
    PROVE  /\ row.balanceType \in BalanceTypes /\ row.currency \in Currencies
           /\ row.amountMinor \in Amounts /\ row.asOf \in {1, 2}
  BY DEF BalanceRow

LEMMA NewRecordFields ==
    ASSUME NEW row \in BalanceRow
    PROVE  /\ NewRecord(row) \in BalanceRecord
           /\ NewRecord(row).availableMinor = 0 /\ NewRecord(row).currentMinor = 0
           /\ NewRecord(row).asOf = row.asOf
  BY RowFields DEF NewRecord, BalanceRecord

\* Which field a row sets.
LEMMA WithFields ==
    ASSUME NEW record \in BalanceRecord, NEW row \in BalanceRow
    PROVE  /\ With(record, row) \in BalanceRecord
           /\ With(record, row).availableMinor = IF row.balanceType = "available"
                                                 THEN row.amountMinor ELSE record.availableMinor
           /\ With(record, row).currentMinor = IF row.balanceType = "current"
                                               THEN row.amountMinor ELSE record.currentMinor
           /\ With(record, row).asOf = IF row.asOf > record.asOf THEN row.asOf ELSE record.asOf
  <1> DEFINE latest == IF row.asOf > record.asOf THEN row.asOf ELSE record.asOf
             dated == [record EXCEPT !.asOf = latest]
  <1>1. /\ row.asOf \in {1, 2} /\ row.amountMinor \in Amounts
        /\ row.balanceType \in {"available", "current", "other"}
    BY RowFields DEF BalanceTypes
  <1>2. /\ record.availableMinor \in Amounts \cup {0} /\ record.currentMinor \in Amounts \cup {0}
        /\ record.asOf \in {1, 2}
        /\ record = [availableMinor |-> record.availableMinor,
                     currentMinor |-> record.currentMinor, asOf |-> record.asOf]
    BY DEF BalanceRecord
  <1>3. latest \in {1, 2}
    BY <1>1, <1>2
  <1>4. dated = [availableMinor |-> record.availableMinor,
                 currentMinor |-> record.currentMinor, asOf |-> latest]
    BY <1>2
  <1>5. With(record, row) = IF row.balanceType \notin {"available", "current"} THEN dated
                            ELSE [dated EXCEPT ![BalanceField[row.balanceType]] = row.amountMinor]
    <2>1. DOMAIN BalanceField = {"available", "current"}
      BY DEF BalanceField
    <2> QED BY <2>1 DEF With
  <1> HIDE DEF latest, dated
  <1>6. CASE row.balanceType = "available"
    <2>1. BalanceField[row.balanceType] = "availableMinor"
      BY <1>6 DEF BalanceField
    <2>2. With(record, row) = [availableMinor |-> row.amountMinor,
                               currentMinor |-> record.currentMinor, asOf |-> latest]
      BY <1>4, <1>5, <1>6, <2>1
    <2> QED BY <1>1, <1>2, <1>3, <1>6, <2>2 DEF BalanceRecord, latest
  <1>7. CASE row.balanceType = "current"
    <2>1. BalanceField[row.balanceType] = "currentMinor"
      BY <1>7 DEF BalanceField
    <2>2. With(record, row) = [availableMinor |-> record.availableMinor,
                               currentMinor |-> row.amountMinor, asOf |-> latest]
      BY <1>4, <1>5, <1>7, <2>1
    <2> QED BY <1>1, <1>2, <1>3, <1>7, <2>2 DEF BalanceRecord, latest
  <1>8. CASE row.balanceType = "other"
    <2>1. With(record, row) = [availableMinor |-> record.availableMinor,
                               currentMinor |-> record.currentMinor, asOf |-> latest]
      BY <1>4, <1>5, <1>8
    <2> QED BY <1>1, <1>2, <1>3, <1>8, <2>1 DEF BalanceRecord, latest
  <1> QED BY <1>1, <1>6, <1>7, <1>8

\* The record a row is added to.
Opening(record, row) == IF "none" \in DOMAIN record THEN NewRecord(row) ELSE record

\* A row of another type joins the ones merged.
LEMMA OneRowMore ==
    ASSUME NEW S \in SUBSET BalanceRow, NEW row \in BalanceRow, NEW record, IsMerged(record, S),
           \A r \in S : r.balanceType # row.balanceType
    PROVE  IsMerged(With(Opening(record, row), row), S \cup {row})
  <1> DEFINE opened == Opening(record, row)
             result == With(opened, row)
  <1> SUFFICES IsMerged(result, S \cup {row})
    OBVIOUS
  <1>1. opened \in BalanceRecord
    BY NoRecordIsNone, NewRecordFields DEF IsMerged, Opening
  <1>2. IF S = {} THEN opened = NewRecord(row) ELSE opened = record
    BY NoRecordIsNone DEF IsMerged, Opening
  <1> HIDE DEF opened
  <1>3. /\ result \in BalanceRecord
        /\ result.availableMinor = IF row.balanceType = "available"
                                   THEN row.amountMinor ELSE opened.availableMinor
        /\ result.currentMinor = IF row.balanceType = "current"
                                 THEN row.amountMinor ELSE opened.currentMinor
        /\ result.asOf = IF row.asOf > opened.asOf THEN row.asOf ELSE opened.asOf
    BY <1>1, WithFields
  <1> HIDE DEF result
  <1>4. /\ row.asOf \in {1, 2} /\ opened.asOf \in {1, 2}
        /\ \A r \in S : r.asOf \in {1, 2}
    BY <1>1, RowFields DEF BalanceRecord
  <1>5. CASE S = {}
    <2>1. opened.availableMinor = 0 /\ opened.currentMinor = 0 /\ opened.asOf = row.asOf
      BY <1>2, <1>5, NewRecordFields
    <2>2. result.asOf = row.asOf
      BY <1>3, <1>4, <2>1
    <2> QED BY <1>3, <1>4, <1>5, <2>1, <2>2 DEF IsMerged
  <1>6. CASE S # {}
    <2>1. /\ \A r \in S : /\ r.balanceType = "available" => opened.availableMinor = r.amountMinor
                          /\ r.balanceType = "current" => opened.currentMinor = r.amountMinor
                          /\ r.asOf <= opened.asOf
          /\ (\A r \in S : r.balanceType # "available") => opened.availableMinor = 0
          /\ (\A r \in S : r.balanceType # "current") => opened.currentMinor = 0
          /\ \E r \in S : r.asOf = opened.asOf
      BY <1>2, <1>6 DEF IsMerged
    <2>2. \A r \in S \cup {row} :
              /\ r.balanceType = "available" => result.availableMinor = r.amountMinor
              /\ r.balanceType = "current" => result.currentMinor = r.amountMinor
      BY <1>3, <2>1
    <2>3. \A r \in S \cup {row} : r.asOf <= result.asOf
      BY <1>3, <1>4, <2>1
    <2>4. /\ (\A r \in S \cup {row} : r.balanceType # "available") => result.availableMinor = 0
          /\ (\A r \in S \cup {row} : r.balanceType # "current") => result.currentMinor = 0
      BY <1>3, <2>1
    <2>5. \E r \in S \cup {row} : r.asOf = result.asOf
      BY <1>3, <2>1
    <2> QED BY <1>3, <2>2, <2>3, <2>4, <2>5 DEF IsMerged
  <1> QED BY <1>5, <1>6

Records == [Currencies -> BalanceRecord \cup {NoRecord}]

Nobody == [c \in Currencies |-> NoRecord]

\* One step of the merge, for one currency.
LEMMA MergeRowFields ==
    ASSUME NEW m \in Records, NEW row \in BalanceRow
    PROVE  /\ MergeRow(m, row) \in Records
           /\ MergeRow(m, row)[row.currency] = With(Opening(m[row.currency], row), row)
           /\ \A c \in Currencies : c # row.currency => MergeRow(m, row)[c] = m[c]
  <1>1. row.currency \in Currencies
    BY RowFields
  <1>2. With(Opening(m[row.currency], row), row) \in BalanceRecord
    <2>1. m[row.currency] \in BalanceRecord \cup {NoRecord}
      BY <1>1 DEF Records
    <2>2. Opening(m[row.currency], row) \in BalanceRecord
      BY <2>1, NoRecordIsNone, NewRecordFields DEF Opening
    <2> QED BY <2>2, WithFields
  <1>3. MergeRow(m, row) = [m EXCEPT ![row.currency] = With(Opening(m[row.currency], row), row)]
    BY DEF MergeRow, Opening
  <1> QED BY <1>1, <1>2, <1>3 DEF Records

\* mergeBalanceRecords goes through the rows one after the other.
LEMMA MergeRuns ==
    ASSUME NEW rows \in Seq(BalanceRow), NEW n \in Nat, n = Len(rows)
    PROVE  \E g : /\ g[0] = Nobody /\ \A i \in 1..n : g[i] = MergeRow(g[i - 1], rows[i])
                  /\ mergeBalanceRecords(rows) = g[n]
  <1> DEFINE Eq(g) == g = [m \in 0..n |-> IF m = 0 THEN Nobody ELSE MergeRow(g[m - 1], rows[m])]
             merged == CHOOSE g : Eq(g)
             step == [z \in (1..n) \X Records |-> MergeRow(z[2], rows[z[1]])]
  <1>1. \A i \in 1..n : rows[i] \in BalanceRow
    OBVIOUS
  <1>2. step \in [(1..n) \X Records -> Records]
    BY <1>1, MergeRowFields
  <1>3. \A i \in 1..n, m \in Records : step[<<i, m>>] = MergeRow(m, rows[i])
    OBVIOUS
  <1> HIDE DEF step
  <1>4. Nobody \in Records
    BY DEF Nobody, Records
  <1>5. PICK g : Runs(g, n, Records, Nobody, step)
    BY <1>2, <1>4, RunExists
  <1>6. Eq(g)
    <2>1. g \in [0..n -> Records] /\ g[0] = Nobody
      BY <1>5 DEF Runs
    <2>2. \A i \in 1..n : g[i] = MergeRow(g[i - 1], rows[i])
      <3> SUFFICES ASSUME NEW i \in 1..n PROVE g[i] = MergeRow(g[i - 1], rows[i])
        OBVIOUS
      <3>1. g[i] = step[<<i, g[i - 1]>>] /\ g[i - 1] \in Records
        BY <1>5, <2>1 DEF Runs
      <3> QED BY <1>3, <3>1
    <2>3. \A m \in 0..n : m # 0 => m \in 1..n
      OBVIOUS
    <2> HIDE DEF Nobody
    <2> QED BY <2>1, <2>2, <2>3
  <1>7. Eq(merged)
    <2> HIDE DEF Eq
    <2> QED BY <1>6
  <1>8. mergeBalanceRecords(rows) = merged[n]
    BY DEF mergeBalanceRecords, Nobody, NoRecord
  <1> HIDE DEF merged
  <1>9. merged[0] = Nobody /\ \A i \in 1..n : merged[i] = MergeRow(merged[i - 1], rows[i])
    <2>1. \A i \in 1..n : i \in 0..n /\ i # 0
      OBVIOUS
    <2> QED BY <1>7, <2>1
  <1> QED BY <1>8, <1>9

\* The rows of a currency among the first m.
RowsOf(rows, m, c) == {rows[i] : i \in {j \in 1..m : rows[j].currency = c}}

\* An account has one row of a type.
TypesDiffer(rows) ==
    \A i, j \in 1..Len(rows) : i # j => rows[i].balanceType # rows[j].balanceType

\* The record of every currency has what its rows say.
LEMMA MergedRows ==
    ASSUME NEW rows \in Seq(BalanceRow), TypesDiffer(rows)
    PROVE  /\ mergeBalanceRecords(rows) \in Records
           /\ \A c \in Currencies :
                IsMerged(mergeBalanceRecords(rows)[c], RowsOf(rows, Len(rows), c))
  <1> PICK n \in Nat : n = Len(rows)
    OBVIOUS
  <1> PICK g : /\ g[0] = Nobody /\ \A i \in 1..n : g[i] = MergeRow(g[i - 1], rows[i])
               /\ mergeBalanceRecords(rows) = g[n]
    BY MergeRuns
  <1> DEFINE Good(m) == /\ g[m] \in Records
                        /\ \A c \in Currencies : IsMerged(g[m][c], RowsOf(rows, m, c))
             T == {m \in Nat : m <= n => Good(m)}
  <1>1. Good(0)
    <2>1. Nobody \in Records /\ \A c \in Currencies : Nobody[c] = NoRecord
      BY DEF Nobody, Records
    <2>2. \A c \in Currencies : RowsOf(rows, 0, c) = {}
      BY DEF RowsOf
    <2>3. \A c \in Currencies : IsMerged(Nobody[c], RowsOf(rows, 0, c))
      BY <2>1, <2>2 DEF IsMerged
    <2> QED BY <2>1, <2>3
  <1>2. ASSUME NEW m \in Nat, m + 1 <= n, Good(m) PROVE Good(m + 1)
    <2>1. m + 1 \in 1..n /\ (m + 1) - 1 = m
      BY <1>2
    <2> PICK k \in 1..n : k = m + 1
      BY <2>1
    <2> PICK row \in BalanceRow : row = rows[k]
      OBVIOUS
    <2>2. g[k] = MergeRow(g[m], row)
      BY <2>1
    <2>3. row.currency \in Currencies
      BY RowFields
    <2>4. /\ g[k] \in Records
          /\ g[k][row.currency] = With(Opening(g[m][row.currency], row), row)
          /\ \A c \in Currencies : c # row.currency => g[k][c] = g[m][c]
      <3>1. PICK prev \in Records : prev = g[m]
        BY <1>2
      <3>2. PICK next : next = MergeRow(prev, row)
        OBVIOUS
      <3>3. /\ next \in Records
            /\ next[row.currency] = With(Opening(prev[row.currency], row), row)
            /\ \A c \in Currencies : c # row.currency => next[c] = prev[c]
        BY ONLY <3>2, MergeRowFields
      <3> QED BY ONLY <2>2, <3>1, <3>2, <3>3
    <2>5. \A c \in Currencies :
             RowsOf(rows, k, c) = IF c = row.currency THEN RowsOf(rows, m, c) \cup {row}
                                  ELSE RowsOf(rows, m, c)
      <3>1. \A i : i \in 1..k <=> i \in 1..m \/ i = k
        BY <2>1
      <3> QED BY <3>1 DEF RowsOf
    <2>6. /\ RowsOf(rows, m, row.currency) \in SUBSET BalanceRow
          /\ \A r \in RowsOf(rows, m, row.currency) : r.balanceType # row.balanceType
      <3>1. \A i \in 1..m : i \in 1..n /\ i # k
        BY <2>1
      <3> QED BY <3>1 DEF RowsOf, TypesDiffer
    <2>7. IsMerged(g[k][row.currency], RowsOf(rows, k, row.currency))
      <3>1. IsMerged(g[m][row.currency], RowsOf(rows, m, row.currency))
        BY <1>2, <2>3
      <3>2. IsMerged(With(Opening(g[m][row.currency], row), row),
                     RowsOf(rows, m, row.currency) \cup {row})
        BY <2>6, <3>1, OneRowMore
      <3> QED BY <2>3, <2>4, <2>5, <3>2
    <2>8. \A c \in Currencies : IsMerged(g[k][c], RowsOf(rows, k, c))
      BY <1>2, <2>4, <2>5, <2>7
    <2> QED BY <2>4, <2>8
  <1> HIDE DEF Good
  <1>3. 0 \in T
    BY <1>1
  <1>4. ASSUME NEW m \in T PROVE m + 1 \in T
    <2>1. m \in Nat /\ (m <= n => Good(m))
      OBVIOUS
    <2>2. m + 1 <= n => Good(m + 1)
      BY <1>2, <2>1
    <2> QED BY <2>1, <2>2
  <1>5. T = Nat
    <2> HIDE DEF T
    <2>1. T \in SUBSET Nat
      BY DEF T
    <2> QED BY <1>3, <1>4, <2>1, InductionOnNat
  <1>6. Good(n)
    BY <1>5
  <1> QED BY <1>6 DEF Good

LEMMA WholeBalances == balances \in Seq(BalanceRow) /\ TypesDiffer(balances) => BalancesMergeWhole
  <1> SUFFICES ASSUME balances \in Seq(BalanceRow), TypesDiffer(balances), NEW c \in Currencies
               PROVE  LET rows   == {balances[i] : i \in {j \in DOMAIN balances : balances[j].currency = c}}
                          record == mergeBalanceRecords(balances)[c]
                          Amount(type) == IF \E r \in rows : r.balanceType = type
                                          THEN (CHOOSE r \in rows : r.balanceType = type).amountMinor ELSE 0
                      IN  IF rows = {} THEN record = [none |-> TRUE]
                          ELSE /\ record.availableMinor = Amount("available")
                               /\ record.currentMinor = Amount("current")
                               /\ record.asOf \in {r.asOf : r \in rows}
                               /\ \A r \in rows : r.asOf <= record.asOf
    BY DEF BalancesMergeWhole
  <1> DEFINE rows   == {balances[i] : i \in {j \in DOMAIN balances : balances[j].currency = c}}
             record == mergeBalanceRecords(balances)[c]
             First(type) == CHOOSE r \in rows : r.balanceType = type
             Amount(type) == IF \E r \in rows : r.balanceType = type THEN First(type).amountMinor ELSE 0
  <1>1. rows = RowsOf(balances, Len(balances), c)
    BY DEF RowsOf
  <1>2. IsMerged(record, rows)
    BY <1>1, MergedRows
  <1> HIDE DEF rows, record
  <1>3. ASSUME NEW type, \E r \in rows : r.balanceType = type
        PROVE  First(type) \in rows /\ First(type).balanceType = type
    BY <1>3
  <1>4. CASE rows = {}
    BY <1>2, <1>4 DEF IsMerged, NoRecord, rows, record
  <1>5. CASE rows # {}
    <2> HIDE DEF First
    <2>1. record.availableMinor = Amount("available")
      BY <1>2, <1>3, <1>5 DEF IsMerged
    <2>2. record.currentMinor = Amount("current")
      BY <1>2, <1>3, <1>5 DEF IsMerged
    <2>3. record.asOf \in {r.asOf : r \in rows} /\ \A r \in rows : r.asOf <= record.asOf
      BY <1>2, <1>5 DEF IsMerged
    <2> QED BY <1>5, <2>1, <2>2, <2>3 DEF First, rows, record
  <1> QED BY <1>4, <1>5

\* A row anywhere in the sequence.
LEMMA RowInserted ==
    ASSUME NEW s \in Seq(BalanceRow), TypesDiffer(s), NEW row \in BalanceRow,
           \A i \in 1..Len(s) : s[i].balanceType # row.balanceType, NEW k \in 0..Len(s)
    PROVE  /\ SubSeq(s, 1, k) \o <<row>> \o SubSeq(s, k + 1, Len(s)) \in Seq(BalanceRow)
           /\ TypesDiffer(SubSeq(s, 1, k) \o <<row>> \o SubSeq(s, k + 1, Len(s)))
  <1> PICK n \in Nat : n = Len(s)
    OBVIOUS
  <1> DEFINE front == SubSeq(s, 1, k)
             back == SubSeq(s, k + 1, n)
             u == (front \o <<row>>) \o back
  <1>1. /\ front \in Seq(BalanceRow) /\ Len(front) = k
        /\ \A i \in 1..k : front[i] = s[i]
    BY SubSeqProperties
  <1>2. /\ back \in Seq(BalanceRow) /\ Len(back) = n - k
        /\ \A i \in 1..(n - k) : back[i] = s[k + i]
    BY SubSeqProperties
  <1> HIDE DEF front, back
  <1> DEFINE head == front \o <<row>>
  <1>3. <<row>> \in Seq(BalanceRow) /\ Len(<<row>>) = 1 /\ <<row>>[1] = row
    OBVIOUS
  <1>4. /\ head \in Seq(BalanceRow) /\ Len(head) = k + 1
        /\ \A i \in 1..k : head[i] = s[i]
        /\ head[k + 1] = row
    <2>1. /\ head \in Seq(BalanceRow) /\ Len(head) = Len(front) + Len(<<row>>)
          /\ \A i \in 1..Len(head) : head[i] = IF i <= Len(front) THEN front[i]
                                               ELSE <<row>>[i - Len(front)]
      BY <1>1, <1>3, ConcatProperties
    <2> HIDE DEF head
    <2> PICK one : one = <<row>>
      OBVIOUS
    <2>2. Len(head) = k + 1 /\ (k + 1) - k = 1 /\ ~ (k + 1 <= k)
      BY <1>1, <1>3, <2>1
    <2>3. \A i \in 1..k : i \in 1..(k + 1) /\ i <= k
      OBVIOUS
    <2>4. k + 1 \in 1..(k + 1)
      OBVIOUS
    <2> QED BY ONLY <1>1, <1>3, <2>1, <2>2, <2>3, <2>4
  <1> HIDE DEF head
  <1>5. /\ u \in Seq(BalanceRow) /\ Len(u) = n + 1
        /\ \A i \in 1..(n + 1) : u[i] = IF i <= k + 1 THEN head[i] ELSE back[i - (k + 1)]
    <2>1. /\ head \o back \in Seq(BalanceRow) /\ Len(head \o back) = Len(head) + Len(back)
          /\ \A i \in 1..Len(head \o back) :
                (head \o back)[i] = IF i <= Len(head) THEN head[i] ELSE back[i - Len(head)]
      <3>1. PICK h \in Seq(BalanceRow), b \in Seq(BalanceRow) : h = head /\ b = back
        BY <1>2, <1>4
      <3>2. /\ h \o b \in Seq(BalanceRow) /\ Len(h \o b) = Len(h) + Len(b)
            /\ \A i \in 1..(Len(h) + Len(b)) :
                  (h \o b)[i] = IF i <= Len(h) THEN h[i] ELSE b[i - Len(h)]
        BY ONLY ConcatProperties
      <3> QED BY ONLY <3>1, <3>2
    <2>2. u = head \o back
      BY DEF head
    <2>3. Len(head \o back) = n + 1
      BY <1>2, <1>4, <2>1
    <2> QED BY ONLY <1>4, <2>1, <2>2, <2>3
  <1> HIDE DEF u
  \* The place in s where the i-th row of u comes from.
  <1> DEFINE from(i) == IF i <= k THEN i ELSE i - 1
  <1>6. \A i \in 1..(n + 1) : i # k + 1 => from(i) \in 1..n /\ u[i] = s[from(i)]
    <2> SUFFICES ASSUME NEW i \in 1..(n + 1), i # k + 1
                 PROVE  from(i) \in 1..n /\ u[i] = s[from(i)]
      OBVIOUS
    <2>1. CASE i <= k
      BY <1>4, <1>5, <2>1
    <2>2. CASE i > k + 1
      <3>1. i - (k + 1) \in 1..(n - k) /\ k + (i - (k + 1)) = i - 1 /\ ~ (i <= k + 1)
            /\ i - 1 \in 1..n /\ ~ (i <= k)
        BY <2>2
      <3> QED BY <1>2, <1>5, <3>1
    <2> QED BY <2>1, <2>2
  <1>7. k + 1 \in 1..(n + 1) /\ u[k + 1] = row
    <2>1. k + 1 \in 1..(n + 1) /\ k + 1 <= k + 1
      OBVIOUS
    <2> QED BY ONLY <1>4, <1>5, <2>1
  <1>8. ASSUME NEW i \in 1..(n + 1), NEW j \in 1..(n + 1), i # j
        PROVE  u[i].balanceType # u[j].balanceType
    <2>1. CASE i = k + 1
      <3>1. from(j) \in 1..n /\ u[j] = s[from(j)]
        BY <1>6, <1>8, <2>1
      <3> HIDE DEF from
      <3> QED BY <1>7, <2>1, <3>1
    <2>2. CASE j = k + 1
      <3>1. from(i) \in 1..n /\ u[i] = s[from(i)]
        BY <1>6, <1>8, <2>2
      <3> HIDE DEF from
      <3> QED BY <1>7, <2>2, <3>1
    <2>3. CASE i # k + 1 /\ j # k + 1
      <3>1. from(i) \in 1..n /\ u[i] = s[from(i)] /\ from(j) \in 1..n /\ u[j] = s[from(j)]
        BY <1>6, <2>3
      <3>2. from(i) # from(j)
        BY <1>8, <2>3
      <3> HIDE DEF from
      <3> QED BY <3>1, <3>2 DEF TypesDiffer
    <2> QED BY <2>1, <2>2, <2>3
  <1>9. TypesDiffer(u)
    BY <1>5, <1>8 DEF TypesDiffer
  <1> QED BY <1>5, <1>9 DEF u, front, back

\* The amount is a decimal one, and the rows are rows of one account.
ValuesInv == decimal \in Decimals /\ balances \in Seq(BalanceRow) /\ TypesDiffer(balances)

LEMMA ValuesInvariant == ValuesSpec => []ValuesInv
  <1>1. ValuesInit => ValuesInv
    <2> SUFFICES ASSUME ValuesInit PROVE ValuesInv
      OBVIOUS
    <2>1. << >> \in [1..0 -> FracDigits] /\ 0 \in 0..MaxFraction
      BY ValuesAssumption
    <2>2. decimal \in Decimals
      BY <2>1, ValuesAssumption DEF ValuesInit, Decimals
    <2>3. balances \in Seq(BalanceRow) /\ Len(balances) = 0
      BY DEF ValuesInit
    <2> QED BY <2>2, <2>3 DEF ValuesInv, TypesDiffer
  <1>2. ValuesInv /\ [ValuesNext]_valueVars => ValuesInv'
    <2> SUFFICES ASSUME ValuesInv, [ValuesNext]_valueVars PROVE ValuesInv'
      OBVIOUS
    <2>1. CASE TakeAmount
      BY <2>1 DEF TakeAmount, ValuesInv, TypesDiffer
    <2>2. ASSUME NEW row \in BalanceRow, WriteBalance(row) PROVE ValuesInv'
      <3>1. \A i \in 1..Len(balances) : balances[i].balanceType # row.balanceType
        BY <2>2 DEF WriteBalance, ValuesInv
      <3>2. PICK k \in 0..Len(balances) :
               balances' = SubSeq(balances, 1, k) \o <<row>>
                              \o SubSeq(balances, k + 1, Len(balances))
        BY <2>2 DEF WriteBalance
      <3>3. PICK s \in Seq(BalanceRow) : s = balances
        BY DEF ValuesInv
      <3>4. /\ TypesDiffer(s) /\ k \in 0..Len(s)
            /\ \A i \in 1..Len(s) : s[i].balanceType # row.balanceType
        BY <3>1, <3>3 DEF ValuesInv
      <3>5. PICK u : u = SubSeq(s, 1, k) \o <<row>> \o SubSeq(s, k + 1, Len(s))
        OBVIOUS
      <3>6. u \in Seq(BalanceRow) /\ TypesDiffer(u)
        BY ONLY <3>4, <3>5, RowInserted
      <3>7. balances' = u /\ decimal' = decimal
        BY <2>2, <3>2, <3>3, <3>5 DEF WriteBalance
      <3> QED BY <3>6, <3>7 DEF ValuesInv, TypesDiffer
    <2>3. CASE UNCHANGED valueVars
      BY <2>3 DEF valueVars, ValuesInv, TypesDiffer
    <2> QED BY <2>1, <2>2, <2>3 DEF ValuesNext
  <1> QED BY <1>1, <1>2, PTL DEF ValuesSpec

\* There are three types of balance: four rows would repeat one.
LEMMA RowsAreFew ==
    ASSUME balances \in Seq(BalanceRow), TypesDiffer(balances)
    PROVE  Len(balances) <= 3
  <1> PICK n \in Nat : n = Len(balances)
    OBVIOUS
  <1> SUFFICES ASSUME n >= 4 PROVE FALSE
    OBVIOUS
  <1> PICK type : type = [i \in 1..n |-> balances[i].balanceType]
    OBVIOUS
  <1>1. \A i \in 1..n : type[i] \in {"available", "current", "other"}
    BY RowFields DEF BalanceTypes
  <1>2. \A i, j \in 1..n : i # j => type[i] # type[j]
    BY DEF TypesDiffer
  <1>3. 1 \in 1..n /\ 2 \in 1..n /\ 3 \in 1..n /\ 4 \in 1..n
    OBVIOUS
  <1>4. /\ type[1] # type[2] /\ type[1] # type[3] /\ type[1] # type[4]
        /\ type[2] # type[3] /\ type[2] # type[4] /\ type[3] # type[4]
    BY ONLY <1>2, <1>3
  <1> QED BY ONLY <1>1, <1>3, <1>4

-----------------------------------------------------------------------------
\* Whatever amount of less than MaxExact minor units a client sends, fromMajor takes it
\* exactly if it is a non-negative number of them, and neither conversion changes its worth.
\* MaxExact is 2^53 in the code, whose numbers are doubles.
THEOREM MoneyStaysExact == ValuesSpec => []MoneyIsExact
  <1>1. ValuesInv => MoneyIsExact
    BY ExactMoney DEF ValuesInv
  <1> QED BY <1>1, ValuesInvariant, PTL

\* However the rows of an account were written and in whatever order they are read,
\* mergeBalanceRecords neither loses an amount nor gives it to another currency.
THEOREM BalancesStayWhole == ValuesSpec => [](ValuesTypeOK /\ BalancesMergeWhole)
  <1>1. ValuesInv => ValuesTypeOK /\ BalancesMergeWhole
    BY RowsAreFew, WholeBalances DEF ValuesInv, ValuesTypeOK
  <1> QED BY <1>1, ValuesInvariant, PTL

-----------------------------------------------------------------------------
\* The parts of MCApi in one run: a step of one leaves the others alone.

LEMMA ApiPartsRun ==
    Spec => LimiterSpec /\ KeysSpec /\ ReadsSpec /\ GrantsSpec /\ ValuesSpec
  <1>1. Init => LimiterInit /\ KeysInit /\ ReadsInit /\ GrantsInit /\ ValuesInit
    BY DEF Init
  <1>2. [Next]_vars => /\ [LimiterNext]_limiterVars /\ [KeysNext]_keyVars
                       /\ [ReadsNext]_readVars /\ [GrantsNext]_grantVars
                       /\ [ValuesNext]_valueVars
    <2> SUFFICES ASSUME [Next]_vars
                 PROVE  /\ [LimiterNext]_limiterVars /\ [KeysNext]_keyVars
                        /\ [ReadsNext]_readVars /\ [GrantsNext]_grantVars
                        /\ [ValuesNext]_valueVars
      OBVIOUS
    <2>1. CASE Next
      BY <2>1 DEF Next
    <2>2. CASE UNCHANGED vars
      BY <2>2 DEF vars
    <2> QED BY <2>1, <2>2
  <1> QED BY <1>1, <1>2, PTL DEF Spec, LimiterSpec, KeysSpec, ReadsSpec, GrantsSpec, ValuesSpec

\* Each part keeps its types and its promises while the others run.
THEOREM ApiCorrect ==
    Spec => /\ [](TypeOK /\ BurstsAreBounded /\ UpToDateTasksAcceptAll /\ TasksCanSign)
            /\ [](MixedOnlyByTornReads /\ MoneyIsExact /\ BalancesMergeWhole)
            /\ RefusedOnlyWhenSpent /\ AnswersStayInConsent /\ PagesAreNewestFirst
  <1>1. LimiterTypeOK /\ KeysInv /\ ReadsTypeOK /\ GrantsTypeOK /\ ValuesTypeOK => TypeOK
    BY DEF KeysInv, TypeOK
  <1> QED BY <1>1, ApiPartsRun, LimiterTypeCorrect, BurstsStayBounded, RefusalsAreEarned,
             KeysAreKept, TokensSurviveRotation, TasksAlwaysSign, GrantsTypeCorrect,
             OnlyTornReadsMix, ReadsStayInConsent, PagesAreComplete, MoneyStaysExact,
             BalancesStayWhole, PTL

================================================================================
