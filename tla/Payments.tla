------------------------------- MODULE Payments -------------------------------
(***************************************************************************)
(* The payment aggregate under concurrent use.                             *)
(*                                                                         *)
(* Every use case reads the row outside any transaction, changes the copy  *)
(* in memory, and later writes the whole copy back with an unconditional   *)
(* upsert, in one transaction with its outbox events.  A process here is   *)
(* one such call in flight: it holds the row it read (base) and the row it *)
(* will write (row), and other processes run between its steps.  A call    *)
(* refused by an early return or an exception changes nothing and is not a *)
(* step.  The access decision of create and cancel is an input here: the   *)
(* consent is the subject of another module.                               *)
(*                                                                         *)
(* Timestamps are abstracted to the set of those that are filled in.       *)
(***************************************************************************)
EXTENDS Naturals, Sequences, FiniteSets, StateMachines

CONSTANTS
    PaymentIds,       \* identifiers the id generator can hand out
    Keys,             \* idempotency keys clients use
    ProviderIds,      \* payment identifiers on the provider's side
    EventIds,         \* webhook event identifiers
    Requests,         \* API calls that can be in flight at once
    Workers,          \* reconciliation workers
    ReportedStatuses, \* statuses the provider reports in this instance
    DeterministicIds, \* TRUE: the provider derives its id from the payment (sandbox)
    None

Procs == Requests \cup Workers

ASSUME ProcsDisjoint == Requests \cap Workers = {}
ASSUME NoneFresh == /\ None \notin PaymentIds
                    /\ None \notin Keys
                    /\ None \notin ProviderIds
                    /\ None \notin EventIds
ASSUME ProviderKind == DeterministicIds \in BOOLEAN

VARIABLES
    payments,   \* table payments: [PaymentIds -> row or None]
    callbacks,  \* table provider_callbacks: the processed event ids
    outbox,     \* table outbox_events, per aggregate, in commit order
    proc,       \* the call each process has in flight
    provider,   \* the provider's own payments: [ProviderIds -> payment or None]
    webhooks,   \* every webhook ever sent: may be delivered late, twice or never
    answers     \* history: <<key, payment>> returned by create

vars == <<payments, callbacks, outbox, proc, provider, webhooks, answers>>

-----------------------------------------------------------------------------
\* The aggregate (domain/entities): what each method does to the row.

MaxVersion == 6   \* the longest path of the status graph, starting at 1

Stamps == {"authorizedAt", "submittedAt", "settledAt", "cancelledAt"}

Row == [status: PaymentStatus, version: 1..MaxVersion,
        providerPaymentId: ProviderIds \cup {None},
        idempotencyKey: Keys \cup {None}, stamps: SUBSET Stamps]

\* What the provider knows of a payment it took.
ProviderPayment == [payment: PaymentIds, status: ReportedStatuses]

ASSUME NoneIsNoRow == None \notin Row \cup ProviderPayment

MovedTo(row, status, stamps) ==
    [row EXCEPT !.status = status, !.version = @ + 1, !.stamps = @ \cup stamps]

create(key) ==
    [status |-> "CREATED", version |-> 1, providerPaymentId |-> None,
     idempotencyKey |-> key, stamps |-> {}]

requestAuthorization(row) == MovedTo(row, "AWAITING_AUTHORIZATION", {})

authorize(row) == MovedTo(row, "AUTHORIZED", {"authorizedAt"})

submit(row, providerPaymentId) ==
    [MovedTo(row, "SUBMITTED", {"submittedAt"})
        EXCEPT !.providerPaymentId = providerPaymentId]

applyProviderStatus(row, target) ==
    MovedTo(row, target, IF target = "SETTLED" THEN {"settledAt"} ELSE {})

cancel(row) == MovedTo(row, "CANCELLED", {"cancelledAt"})

-----------------------------------------------------------------------------
\* Repository reads.

Exists(p) == payments[p] # None

HasKey(p, key) == Exists(p) /\ payments[p].idempotencyKey = key

\* The index is missing.
KeyTaken_NoIndex(key) == FALSE

\* The unique index on (clientId, idempotencyKey); a null key is never a clash.
KeyTaken(key) == key # None /\ \E p \in PaymentIds : HasKey(p, key)

\* A lookup through the payment the provider was given, not through its id.
findByProviderPaymentId_AnySubmission(pid) ==
    {p \in PaymentIds : /\ Exists(p) /\ payments[p].providerPaymentId # None
                        /\ provider[pid].payment = p}

findByProviderPaymentId(pid) ==
    {p \in PaymentIds : Exists(p) /\ payments[p].providerPaymentId = pid}

\* The null test inverted.
findSubmitted_NullTest ==
    {p \in PaymentIds : /\ Exists(p)
                        /\ payments[p].status = "SUBMITTED"
                        /\ payments[p].providerPaymentId = None}

findSubmitted ==
    {p \in PaymentIds : /\ Exists(p)
                        /\ payments[p].status = "SUBMITTED"
                        /\ payments[p].providerPaymentId # None}

\* The index is missing.
EventRecorded_NoIndex(event) == FALSE

\* The unique index on (providerCode, providerEventId).
EventRecorded(event) == event \in callbacks

-----------------------------------------------------------------------------
\* Calls in flight.

Idle == [op |-> "none", pc |-> "idle", payment |-> None, base |-> None,
         row |-> None, event |-> None]

Ops == {"none", "create", "authorize", "submit", "cancel", "callback", "reconcile"}

Call == [op: Ops, pc: {"idle", "provider", "commit"}, payment: PaymentIds \cup {None},
         base: Row \cup {None}, row: Row \cup {None}, event: EventIds \cup {None}]

IsIdle(x) == proc[x] = Idle

\* Process x has read row base of payment p; row is the changed copy it will save.
Start(x, op, pc, p, base, row, event) ==
    proc' = [proc EXCEPT ![x] = [op |-> op, pc |-> pc, payment |-> p,
                                 base |-> base, row |-> row, event |-> event]]

Finish(x) == proc' = [proc EXCEPT ![x] = Idle]

At(x, op, pc) == proc[x].op = op /\ proc[x].pc = pc

-----------------------------------------------------------------------------
\* One transaction: PaymentRepository.save and the outbox rows, together.

EventTypes == {"PAYMENT_CREATED", "PAYMENT_AUTHORIZED", "PAYMENT_SUBMITTED",
               "PAYMENT_STATUS_CHANGED", "PROVIDER_CALLBACK_RECEIVED"}

OutboxEvent == [type: EventTypes, version: 1..MaxVersion, status: PaymentStatus,
                event: EventIds \cup {None}]

DomainEvent(type, row, event) ==
    [type |-> type, version |-> row.version, status |-> row.status, event |-> event]

\* An update that does not write the provider's id.
save_KeepsProviderId(p, row) ==
    payments' = [payments EXCEPT ![p] =
        IF Exists(p) THEN [row EXCEPT !.providerPaymentId = payments[p].providerPaymentId]
        ELSE row]

\* save: the update branch of the upsert writes every field that can change.
save(p, row) == payments' = [payments EXCEPT ![p] = row]

addOutboxEvent(p, type, row) ==
    outbox' = [outbox EXCEPT ![p] = Append(@, DomainEvent(type, row, None))]

\* The last step of authorize, submit, cancel and reconcile.
CommitRow(x, op, type) ==
    /\ At(x, op, "commit")
    /\ save(proc[x].payment, proc[x].row)
    /\ addOutboxEvent(proc[x].payment, type, proc[x].row)
    /\ Finish(x)
    /\ UNCHANGED <<callbacks, provider, webhooks, answers>>

-----------------------------------------------------------------------------
\* create-payment.use-case.ts

\* The key is known: the original payment is returned.
CreateReplay(x, key, p) ==
    /\ IsIdle(x) /\ key # None /\ HasKey(p, key)
    /\ answers' = answers \cup {<<key, p>>}
    /\ UNCHANGED <<payments, callbacks, outbox, proc, provider, webhooks>>

\* The key is unknown (or there is none): a new aggregate, not saved yet.
CreateRead(x, key, p) ==
    /\ IsIdle(x) /\ ~KeyTaken(key)
    /\ ~Exists(p) /\ \A y \in Procs : proc[y].payment # p
    /\ Start(x, "create", "commit", p, None, requestAuthorization(create(key)), None)
    /\ UNCHANGED <<payments, callbacks, outbox, provider, webhooks, answers>>

\* The row is inserted.  The answer is the new payment.
CreateCommit(x) ==
    LET p == proc[x].payment  row == proc[x].row IN
    /\ At(x, "create", "commit") /\ ~KeyTaken(row.idempotencyKey)
    /\ save(p, row)
    /\ addOutboxEvent(p, "PAYMENT_CREATED", row)
    /\ Finish(x)
    /\ answers' = IF row.idempotencyKey = None THEN answers
                  ELSE answers \cup {<<row.idempotencyKey, p>>}
    /\ UNCHANGED <<callbacks, provider, webhooks>>

\* The transaction fails, on the unique index or otherwise, and the catch block
\* finds the row another request inserted under the key: that one is the answer.
CreateRaced(x, key, raced) ==
    /\ At(x, "create", "commit")
    /\ proc[x].row.idempotencyKey = key /\ HasKey(raced, key)
    /\ Finish(x)
    /\ answers' = answers \cup {<<key, raced>>}
    /\ UNCHANGED <<payments, callbacks, outbox, provider, webhooks>>

-----------------------------------------------------------------------------
\* authorize-payment, cancel-payment, submit-payment

AuthorizeRead(x, p) ==
    /\ IsIdle(x) /\ Exists(p) /\ payments[p].status = "AWAITING_AUTHORIZATION"
    /\ canTransitionPayment(payments[p].status, "AUTHORIZED")
    /\ Start(x, "authorize", "commit", p, payments[p], authorize(payments[p]), None)
    /\ UNCHANGED <<payments, callbacks, outbox, provider, webhooks, answers>>

AuthorizeCommit(x) == CommitRow(x, "authorize", "PAYMENT_AUTHORIZED")

CancelRead(x, p) ==
    /\ IsIdle(x) /\ Exists(p) /\ isCancellable(payments[p].status)
    /\ canTransitionPayment(payments[p].status, "CANCELLED")
    /\ Start(x, "cancel", "commit", p, payments[p], cancel(payments[p]), None)
    /\ UNCHANGED <<payments, callbacks, outbox, provider, webhooks, answers>>

CancelCommit(x) == CommitRow(x, "cancel", "PAYMENT_STATUS_CHANGED")

SubmitRead(x, p) ==
    /\ IsIdle(x) /\ Exists(p) /\ payments[p].status = "AUTHORIZED"
    /\ Start(x, "submit", "provider", p, payments[p], payments[p], None)
    /\ UNCHANGED <<payments, callbacks, outbox, provider, webhooks, answers>>

\* The id the provider answers a submission with: a fresh random one, or the one
\* derived from the payment, which is the same at every submission (sandbox).
AssignedIds(p) ==
    LET own   == {pid \in ProviderIds : provider[pid] # None /\ provider[pid].payment = p}
        fresh == {pid \in ProviderIds : provider[pid] = None}
    IN  IF DeterministicIds /\ own # {} THEN own ELSE fresh

\* The provider takes the payment before anything about it is saved.  The status
\* it answers with goes to the event payload only.
SubmitCall(x, pid, status) ==
    LET c == proc[x] IN
    /\ At(x, "submit", "provider")
    /\ pid \in AssignedIds(c.payment)
    /\ provider' = IF provider[pid] # None THEN provider
                   ELSE [provider EXCEPT ![pid] = [payment |-> c.payment, status |-> status]]
    /\ canTransitionPayment(c.row.status, "SUBMITTED")
    /\ Start(x, "submit", "commit", c.payment, c.base, submit(c.row, pid), None)
    /\ UNCHANGED <<payments, callbacks, outbox, webhooks, answers>>

SubmitCommit(x) == CommitRow(x, "submit", "PAYMENT_SUBMITTED")

-----------------------------------------------------------------------------
\* process-provider-callback.use-case.ts

\* The copy to save for a reported status: the row itself when it is already at
\* the target, or the moved row.  Empty: the call is refused or ignored.
Applied(row, status) ==
    IF status \notin NormalizedStatus THEN {}
    ELSE LET target == PROVIDER_STATUS_MAP[status] IN
         CASE row.status = target                       -> {row}
           [] canTransitionPayment(row.status, target)  -> {applyProviderStatus(row, target)}
           [] OTHER                                     -> {}

CallbackRead(x, w, p) ==
    /\ IsIdle(x) /\ ~EventRecorded(w.event)
    /\ p \in findByProviderPaymentId(w.providerPaymentId)
    /\ \E row \in Applied(payments[p], w.status) :
          Start(x, "callback", "commit", p, payments[p], row, w.event)
    /\ UNCHANGED <<payments, callbacks, outbox, provider, webhooks, answers>>

\* Both events of a callback that changed the payment, in the order they are added.
addCallbackEvents(p, row, event) ==
    outbox' = [outbox EXCEPT ![p] =
        Append(Append(@, DomainEvent("PROVIDER_CALLBACK_RECEIVED", row, event)),
               DomainEvent("PAYMENT_STATUS_CHANGED", row, None))]

\* Recording the event id and saving the payment are one transaction.  An event
\* id that is already there violates the index and undoes all of it (see Abort).
CallbackCommit(x) ==
    LET c == proc[x] IN
    /\ At(x, "callback", "commit") /\ ~EventRecorded(c.event)
    /\ callbacks' = callbacks \cup {c.event}
    /\ IF c.row = c.base THEN UNCHANGED <<payments, outbox>>
       ELSE save(c.payment, c.row) /\ addCallbackEvents(c.payment, c.row, c.event)
    /\ Finish(x)
    /\ UNCHANGED <<provider, webhooks, answers>>

-----------------------------------------------------------------------------
\* payment-reconciliation.service.ts

ReconcileRead(x, p) ==
    /\ IsIdle(x) /\ p \in findSubmitted
    /\ Start(x, "reconcile", "provider", p, payments[p], payments[p], None)
    /\ UNCHANGED <<payments, callbacks, outbox, provider, webhooks, answers>>

\* getPaymentStatus: nothing to do when the status has no translation, or is the
\* one the copy already has, or cannot be reached from it.
ReconcilePoll(x) ==
    LET c    == proc[x]
        rows == Applied(c.row, provider[c.row.providerPaymentId].status) \ {c.row}
    IN  /\ At(x, "reconcile", "provider")
        /\ IF rows = {} THEN Finish(x)
           ELSE \E row \in rows :
                  Start(x, "reconcile", "commit", c.payment, c.base, row, None)
        /\ UNCHANGED <<payments, callbacks, outbox, provider, webhooks, answers>>

ReconcileCommit(x) == CommitRow(x, "reconcile", "PAYMENT_STATUS_CHANGED")

-----------------------------------------------------------------------------
\* The call ends here without its remaining steps: the process dies, the provider
\* or the database fails, a transaction is rolled back.
Abort(x) ==
    /\ ~IsIdle(x)
    /\ Finish(x)
    /\ UNCHANGED <<payments, callbacks, outbox, provider, webhooks, answers>>

-----------------------------------------------------------------------------
\* The provider (external): a payment it took moves to a final status in its own
\* time, and it may send webhooks about the status of the moment.

Outcomes == {"completed", "settled", "rejected", "failed", "cancelled"}

LaterStatuses(status) ==
    CASE status \in Outcomes  -> {}
      [] status = "pending"   -> ReportedStatuses \ {"pending"}
      [] OTHER                -> ReportedStatuses \cap Outcomes

ProviderAdvance(pid, status) ==
    /\ provider[pid] # None /\ status \in LaterStatuses(provider[pid].status)
    /\ provider' = [provider EXCEPT ![pid].status = status]
    /\ UNCHANGED <<payments, callbacks, outbox, proc, webhooks, answers>>

\* What a webhook can say: a reported status, or nothing, which the callback reads
\* as "pending".
WebhookStatuses == ReportedStatuses \cup {"pending"}

ProviderNotify(pid, event) ==
    /\ provider[pid] # None /\ \A w \in webhooks : w.event # event
    /\ \E status \in {provider[pid].status, "pending"} :
          webhooks' = webhooks \cup {[event |-> event, providerPaymentId |-> pid,
                                      status |-> status]}
    /\ UNCHANGED <<payments, callbacks, outbox, proc, provider, answers>>

-----------------------------------------------------------------------------

Init ==
    /\ payments  = [p \in PaymentIds |-> None]
    /\ callbacks = {}
    /\ outbox    = [p \in PaymentIds |-> << >>]
    /\ proc      = [x \in Procs |-> Idle]
    /\ provider  = [pid \in ProviderIds |-> None]
    /\ webhooks  = {}
    /\ answers   = {}

CreateStep(x) ==
    \/ \E key \in Keys, p \in PaymentIds : CreateReplay(x, key, p) \/ CreateRaced(x, key, p)
    \/ \E key \in Keys \cup {None}, p \in PaymentIds : CreateRead(x, key, p)
    \/ CreateCommit(x)

ClientStep(x) ==
    \/ \E p \in PaymentIds : AuthorizeRead(x, p) \/ CancelRead(x, p) \/ SubmitRead(x, p)
    \/ AuthorizeCommit(x) \/ CancelCommit(x) \/ SubmitCommit(x)
    \/ \E pid \in ProviderIds, s \in ReportedStatuses : SubmitCall(x, pid, s)

CallbackStep(x) ==
    \/ \E w \in webhooks, p \in PaymentIds : CallbackRead(x, w, p)
    \/ CallbackCommit(x)

ReconcileStep(x) ==
    \/ \E p \in PaymentIds : ReconcileRead(x, p)
    \/ ReconcilePoll(x)
    \/ ReconcileCommit(x)

ProviderStep ==
    \/ \E pid \in ProviderIds, s \in ReportedStatuses : ProviderAdvance(pid, s)
    \/ \E pid \in ProviderIds, e \in EventIds : ProviderNotify(pid, e)

Next ==
    \/ \E x \in Requests : CreateStep(x) \/ ClientStep(x) \/ CallbackStep(x)
    \/ \E x \in Workers : ReconcileStep(x)
    \/ \E x \in Procs : Abort(x)
    \/ ProviderStep

Spec == Init /\ [][Next]_vars

\* The worker's interval timer polls every payment again and again, while no more
\* payments wait than a batch holds; a poll or a commit may fail (Abort) but not at
\* every attempt, so fairness is strong; the provider settles
\* what it took.  Clients and webhook deliveries get no fairness: a user may never
\* come back and a webhook may be lost.
Fairness ==
    /\ \A x \in Workers : /\ \A p \in PaymentIds : SF_vars(ReconcileRead(x, p))
                          /\ SF_vars(ReconcilePoll(x))
                          /\ SF_vars(ReconcileCommit(x))
    /\ \A pid \in ProviderIds :
          WF_vars(\E status \in ReportedStatuses \cap Outcomes : ProviderAdvance(pid, status))

FairSpec == Spec /\ Fairness
-----------------------------------------------------------------------------
\* Properties.

\* Every table, every call in flight and every history has its type; in particular
\* no version exceeds the longest path of the status graph, however calls overlap.
TypeOK ==
    /\ payments  \in [PaymentIds -> Row \cup {None}]
    /\ callbacks \in SUBSET EventIds
    /\ outbox    \in [PaymentIds -> Seq(OutboxEvent)]
    /\ proc      \in [Procs -> Call]
    /\ provider  \in [ProviderIds -> ProviderPayment \cup {None}]
    /\ webhooks  \in SUBSET [event: EventIds, providerPaymentId: ProviderIds,
                             status: WebhookStatuses]
    /\ answers   \in SUBSET (Keys \X PaymentIds)

\* What one undisturbed life of a payment leaves in the row: the status fixes the
\* version (up to one step), the timestamps and whether there is a provider id.
Coherent(row) ==
    LET sent == {"authorizedAt", "submittedAt"} IN
    CASE row.status = "AWAITING_AUTHORIZATION" ->
            row.version = 2 /\ row.stamps = {} /\ row.providerPaymentId = None
      [] row.status = "AUTHORIZED" ->
            row.version = 3 /\ row.stamps = {"authorizedAt"} /\ row.providerPaymentId = None
      [] row.status = "SUBMITTED" ->
            row.version = 4 /\ row.stamps = sent /\ row.providerPaymentId # None
      [] row.status = "ACCEPTED" ->
            row.version = 5 /\ row.stamps = sent /\ row.providerPaymentId # None
      [] row.status \in {"REJECTED", "FAILED"} ->
            row.version \in 5..6 /\ row.stamps = sent /\ row.providerPaymentId # None
      [] row.status = "SETTLED" ->
            /\ row.version \in 5..6 /\ row.stamps = sent \cup {"settledAt"}
            /\ row.providerPaymentId # None
      [] row.status = "CANCELLED" ->
            /\ \/ row.version = 3 /\ row.stamps = {"cancelledAt"}
               \/ row.version = 4 /\ row.stamps = {"authorizedAt", "cancelledAt"}
            /\ row.providerPaymentId = None
      [] OTHER -> FALSE

\* Overlapping calls lose updates but never mix them: whatever calls raced, a
\* stored payment is one that a single sequence of legal calls could have left.
\* A cancelled payment never carries a provider id, a settled one always does.
NoTornRow == \A p \in PaymentIds : Exists(p) => Coherent(payments[p])

\* The provider's verdict is never invented or taken from another submission: the
\* provider id of a row was issued for that payment, and a row that is SETTLED,
\* REJECTED or FAILED agrees with the provider about exactly that provider id,
\* also after double submissions, reordered webhooks and stale saves.
OutcomeIsProviders ==
    \A p \in PaymentIds : Exists(p) /\ payments[p].providerPaymentId # None =>
        LET theirs == provider[payments[p].providerPaymentId] IN
        /\ theirs # None /\ theirs.payment = p
        /\ payments[p].status \in {"SETTLED", "REJECTED", "FAILED"} =>
              /\ theirs.status \in NormalizedStatus
              /\ PROVIDER_STATUS_MAP[theirs.status] = payments[p].status

\* Retried and racing creates: no two payments share a key, and every answer ever
\* given for a key names the one payment that holds it.
CreateIsIdempotent ==
    /\ \A p, q \in PaymentIds, key \in Keys : HasKey(p, key) /\ HasKey(q, key) => p = q
    /\ \A a \in answers : HasKey(a[2], a[1])

\* The payment that holds a key.
KeyHolder(key) == IF \E p \in PaymentIds : HasKey(p, key)
                  THEN CHOOSE p \in PaymentIds : HasKey(p, key) ELSE None

Register == INSTANCE IdempotentRegister WITH
    Names <- Keys, Values <- PaymentIds,
    holder <- [key \in Keys |-> KeyHolder(key)], told <- answers

\* Creation with a key implements the register: for good, the first insert decides.
CreateImplementsRegister == Register!Spec

\* Redelivered or concurrently delivered webhooks: an event id moves a payment at
\* most once, so at most one outbox row in the whole table carries it, and then
\* the event is on record.
CallbackAppliedOnce ==
    \A p, q \in PaymentIds : \A i \in DOMAIN outbox[p], j \in DOMAIN outbox[q] :
        outbox[p][i].event # None =>
            /\ outbox[p][i].event \in callbacks
            /\ outbox[q][j].event = outbox[p][i].event => p = q /\ i = j

\* The status graph is broken only by lost updates: a step that changes a stored
\* row ends a call, and if the row is still the one that call read, the change is
\* an edge of the graph.
LegalUnlessStale ==
    [][\A p \in PaymentIds : Exists(p) /\ payments'[p] # payments[p] =>
          \E x \in Procs :
             /\ proc[x].payment = p /\ proc[x].row = payments'[p] /\ proc'[x] = Idle
             /\ proc[x].base = payments[p] =>
                   payments'[p].status \in PAYMENT_TRANSITIONS[payments[p].status]]_vars

\* A provider's payment is remembered by the row of its payment, or by a call in flight
\* that will save the id.
Remembered(pid) ==
    LET p == provider[pid].payment IN
    \/ Exists(p) /\ payments[p].providerPaymentId = pid
    \/ \E x \in Procs : /\ proc[x].payment = p /\ proc[x].row # None
                        /\ proc[x].row.providerPaymentId = pid

\* A payment the provider has is forgotten in two ways only: a call that carried its id
\* ends and saves nothing, or a call saves a row it read before another call changed it.
\* A submit, poll or webhook that commits on the row it read never loses one.
ForgottenOnlyByLoss ==
    [][\A pid \in ProviderIds :
          provider[pid] # None /\ Remembered(pid) /\ ~Remembered(pid)' =>
          LET p == provider[pid].payment IN
          \E x \in Procs :
             /\ proc[x].payment = p /\ proc'[x] = Idle
             /\ IF payments'[p] = payments[p] THEN proc[x].row.providerPaymentId = pid
                ELSE proc[x].base # payments[p]]_vars

InStatus(p, statuses) == Exists(p) /\ payments[p].status \in statuses

\* Reconciliation moves every SUBMITTED payment on, even if no webhook about it is
\* ever delivered and calls keep failing.
SubmittedIsReconciled ==
    \A p \in PaymentIds : InStatus(p, {"SUBMITTED"}) ~> ~InStatus(p, {"SUBMITTED"})

\* A payment is with the provider at most once.
SubmittedOnce ==
    \A pid, other \in ProviderIds :
        /\ provider[pid] # None /\ provider[other] # None
        /\ provider[pid].payment = provider[other].payment
        => pid = other

\* A payment in a terminal status keeps it.
TerminalIsFinal ==
    [][\A p \in PaymentIds : Exists(p) /\ isTerminalPayment(payments[p].status) =>
          payments'[p].status = payments[p].status]_payments

=============================================================================
