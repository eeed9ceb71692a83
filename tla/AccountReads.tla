---------------------------- MODULE AccountReads ------------------------------
(***************************************************************************)
(* Account information: the five read operations, the decision they share  *)
(* and the pages of transactions.                                          *)
(*                                                                         *)
(* A call passes the guards, then reads the consent by three statements    *)
(* and is decided on that copy, then reads the data.  In between accounts  *)
(* are closed, transactions booked, and the consent is saved by others:    *)
(* access withdrawn or opened again, other scopes, other accounts.  The    *)
(* accounts of a consent are those the user's request named; nothing       *)
(* checks whose they are.  One token under one consent of one user.        *)
(***************************************************************************)
EXTENDS Naturals, Sequences, FiniteSets

CONSTANTS
    Accounts,      \* all accounts
    UserAccounts,  \* those of the consent's user at its institution
    Readers,       \* calls in flight
    ScopeSets,     \* the scope sets a token or a consent can have here
    Consents,      \* what the consent can be saved as
    Transactions,  \* what can be booked
    Limit,         \* page size
    Nothing

\* Its bookingDate is an hour and the minutes, seconds and milliseconds after it.
Transaction == [account: Accounts, hour: Nat, minute: Nat, id: Nat]

ASSUME ReadsAssumption ==
    /\ Limit \in 1..100 /\ UserAccounts \subseteq Accounts
    /\ Consents \subseteq [grants: BOOLEAN, scopes: ScopeSets, accounts: SUBSET Accounts]
    /\ Transactions \subseteq Transaction

ASSUME NothingIsNoValue == Nothing \notin Accounts \cup (Nat \X Nat \X Nat)

VARIABLES
    consent,     \* the consent: whether it grants access, scopes, accounts
    tokenScopes, \* the scopes of the access token
    closed,      \* accounts that are not active
    booked,      \* table account_transactions
    reading,     \* the call each reader has in flight
    answer       \* the last answer of each reader

readVars == <<consent, tokenScopes, closed, booked, reading, answer>>

-----------------------------------------------------------------------------
\* AccountsController: the operations and the scope each of them requires.

requiredScope ==
    [list          |-> "accounts:read",
     get           |-> "accounts:read",
     balances      |-> "balances:read",
     transactions  |-> "transactions:read",
     beneficiaries |-> "beneficiaries:read"]

Ops == DOMAIN requiredScope

NoConsent == [grants |-> FALSE, scopes |-> {}, accounts |-> {}]

\* copy is what has been read of the consent, unread what has not; during is history:
\* the accounts the consent has had since the call began.
Idle == [pc |-> "idle", op |-> "list", account |-> Nothing, cursor |-> Nothing,
         copy |-> NoConsent, unread |-> {}, during |-> {}]

IsIdle(r) == reading[r] = Idle

-----------------------------------------------------------------------------
\* The decision (AccessPolicy, Consent.ensureAccess).

ensureAccess(copy, scope, account) ==
    /\ copy.grants
    /\ scope \in copy.scopes
    /\ account # Nothing => account \in copy.accounts

\* The use cases pass no account for a list.
decideAccountAccess(copy, op, account) ==
    /\ ensureAccess(copy, requiredScope[op], account)
    /\ requiredScope[op] \in tokenScopes

-----------------------------------------------------------------------------
\* Transactions in the order of (bookingDate, id).

Older(t, u) ==
    \/ t.hour < u.hour
    \/ t.hour = u.hour /\ t.minute < u.minute
    \/ t.hour = u.hour /\ t.minute = u.minute /\ t.id < u.id

\* The fields of the cursor between its colons: an ISO time has colons of its own.
encodeCursor(t) == <<t.hour, t.minute, t.id>>

\* Split at the first colon.
decodeCursor(cursor) == [bookingDate |-> <<Head(cursor)>>, id |-> Tail(cursor)]

\* A date with all its fields and an id that is one field: anything else is an
\* invalid cursor here, or an invalid uuid in the database.
IsPosition(position) == Len(position.bookingDate) = 2 /\ Len(position.id) = 1

At(position) == [hour |-> position.bookingDate[1], minute |-> position.bookingDate[2],
                 id |-> position.id[1]]

\* The rows of the query, newest first.
rowsBefore(account, cursor) ==
    LET found == {t \in booked : /\ t.account = account
                                 /\ cursor = Nothing \/ Older(t, At(decodeCursor(cursor)))}
        Places == 1..Cardinality(found)
    IN  CHOOSE rows \in [Places -> found] :
            \A i, j \in Places : i < j => Older(rows[j], rows[i])

\* A full page is taken for a sign of more.
hasMore_FullPage(rows) == Len(rows) >= Limit

\* One row more than the page was asked for.
hasMore(rows) == Len(rows) > Limit

listTransactions(account, cursor) ==
    IF cursor # Nothing /\ ~IsPosition(decodeCursor(cursor)) THEN [error |-> TRUE]
    ELSE LET rows  == rowsBefore(account, cursor)
             items == SubSeq(rows, 1, IF hasMore(rows) THEN Limit ELSE Len(rows))
         IN  [items |-> items,
              nextCursor |-> IF hasMore(rows) THEN encodeCursor(items[Limit]) ELSE Nothing]

-----------------------------------------------------------------------------
\* The other reads.

findByUserAndInstitution == UserAccounts \ closed

\* The use case forgets its filter.
listAccounts_Unfiltered(copy) == findByUserAndInstitution

listAccounts(copy) == findByUserAndInstitution \cap copy.accounts

\* What a call reads once it is allowed.
Data(op, account, cursor, copy) ==
    CASE op = "list"         -> [accounts |-> listAccounts(copy)]
      [] op = "transactions" -> listTransactions(account, cursor)
      [] OTHER               -> [accounts |-> {account}]

-----------------------------------------------------------------------------
\* A call: guards, decision, data.

\* The cursors a client has: none, or the one of its last page.
Cursors(r, op) ==
    {Nothing} \cup (IF op = "transactions" /\ "nextCursor" \in DOMAIN answer[r]
                    THEN {answer[r].nextCursor} ELSE {})

\* BearerAuthGuard and ScopesGuard.
canActivate(r, op, account, cursor) ==
    /\ IsIdle(r) /\ requiredScope[op] \in tokenScopes
    /\ reading' = [reading EXCEPT ![r] =
          [Idle EXCEPT !.pc = "find", !.op = op, !.cursor = cursor,
                       !.account = IF op = "list" THEN Nothing ELSE account,
                       !.during = consent.accounts]]
    /\ UNCHANGED <<consent, tokenScopes, closed, booked, answer>>

\* The consent: its row, then the two tables it includes.
FindRow(r) ==
    /\ reading[r].pc = "find"
    /\ reading' = [reading EXCEPT ![r].pc = "decide", ![r].unread = {"scopes", "accounts"},
                                  ![r].copy.grants = consent.grants]
    /\ UNCHANGED <<consent, tokenScopes, closed, booked, answer>>

FindScopes(r) ==
    /\ "scopes" \in reading[r].unread
    /\ reading' = [reading EXCEPT ![r].unread = @ \ {"scopes"}, ![r].copy.scopes = consent.scopes]
    /\ UNCHANGED <<consent, tokenScopes, closed, booked, answer>>

FindAccounts(r) ==
    /\ "accounts" \in reading[r].unread
    /\ reading' = [reading EXCEPT ![r].unread = @ \ {"accounts"},
                                  ![r].copy.accounts = consent.accounts]
    /\ UNCHANGED <<consent, tokenScopes, closed, booked, answer>>

Decide(r) ==
    LET c == reading[r] IN
    /\ c.pc = "decide" /\ c.unread = {}
    /\ reading' = [reading EXCEPT ![r] =
          IF decideAccountAccess(c.copy, c.op, c.account) THEN [c EXCEPT !.pc = "read"] ELSE Idle]
    /\ UNCHANGED <<consent, tokenScopes, closed, booked, answer>>

Read(r) ==
    LET c == reading[r] IN
    /\ c.pc = "read"
    /\ answer' = [answer EXCEPT ![r] = Data(c.op, c.account, c.cursor, c.copy)]
    /\ reading' = [reading EXCEPT ![r] = Idle]
    /\ UNCHANGED <<consent, tokenScopes, closed, booked>>

-----------------------------------------------------------------------------
\* What happens to the tables meanwhile (external, but for the saves of the consent by
\* the use cases that Identity and ScopeGrants model).

SaveConsent(saved) ==
    /\ consent' = saved
    /\ reading' = [r \in Readers |-> IF IsIdle(r) THEN Idle
                                     ELSE [reading[r] EXCEPT !.during = @ \cup saved.accounts]]
    /\ UNCHANGED <<tokenScopes, closed, booked, answer>>

CloseAccount(a) ==
    /\ closed' = closed \cup {a}
    /\ UNCHANGED <<consent, tokenScopes, booked, reading, answer>>

Book(t) ==
    /\ booked' = booked \cup {t}
    /\ UNCHANGED <<consent, tokenScopes, closed, reading, answer>>

ReadsInit ==
    /\ consent \in Consents
    /\ tokenScopes \in ScopeSets
    /\ closed = {} /\ booked = {}
    /\ reading = [r \in Readers |-> Idle]
    /\ answer = [r \in Readers |-> [accounts |-> {}]]

ReadsNext ==
    \/ \E r \in Readers :
         \/ \E op \in Ops, a \in Accounts : \E cursor \in Cursors(r, op) :
               canActivate(r, op, a, cursor)
         \/ FindRow(r) \/ FindScopes(r) \/ FindAccounts(r)
         \/ Decide(r)
         \/ Read(r)
    \/ \E saved \in Consents : SaveConsent(saved)
    \/ \E a \in UserAccounts : CloseAccount(a)
    \/ \E t \in Transactions : Book(t)

ReadsSpec == ReadsInit /\ [][ReadsNext]_readVars

-----------------------------------------------------------------------------
\* Properties.

\* Tables and calls have their types.
ReadsTypeOK ==
    /\ consent \in Consents
    /\ tokenScopes \in ScopeSets
    /\ closed \subseteq Accounts /\ booked \subseteq Transactions
    /\ \A r \in Readers : reading[r].pc \in {"idle", "find", "decide", "read"} /\ reading[r].op \in Ops

AccountsOf(data) ==
    IF "accounts" \in DOMAIN data THEN data.accounts
    ELSE IF "items" \in DOMAIN data
         THEN {data.items[i].account : i \in 1..Len(data.items)} ELSE {}

\* Whichever of the five operations answered, and whatever was saved while it ran, the
\* answer is about no account that the consent did not have at some time of the call.
AnswersStayInConsent ==
    [][\A r \in Readers : Read(r) => AccountsOf(answer'[r]) \subseteq reading[r].during]_readVars

\* The newest of all, in order, with a cursor exactly if not all are on the page.
IsNewestPage(page, all) ==
    LET n  == Len(page.items)
        on == {page.items[i] : i \in 1..n}
    IN  /\ on \subseteq all /\ n <= Limit
        /\ \A t \in all \ on, u \in on : Older(t, u)
        /\ \A i, j \in 1..n : i < j => Older(page.items[j], page.items[i])
        /\ page.nextCursor = Nothing <=> on = all

\* A first page is the newest transactions of its account at the time of the query, in
\* order, and comes with a cursor exactly if it is not all of them.
PagesAreNewestFirst ==
    [][\A r \in Readers :
          Read(r) /\ reading[r].op = "transactions" /\ reading[r].cursor = Nothing =>
          IsNewestPage(answer'[r], {t \in booked : t.account = reading[r].account})]_readVars

\* The cursor that came with a page gets the page after it.
CursorsAreAccepted == \A r \in Readers : "error" \notin DOMAIN answer[r]

=============================================================================
