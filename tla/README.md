# Formal model of the financial API platform

TLA+ modules for the parts of the platform whose correctness depends on the order in which
things happen: payments, provider callbacks, reconciliation, the transactional outbox,
consents, their grants and the credentials issued under them, the circuit breaker, and what a
request passes on its way in: the rate limiter, the signing keys, the reads of account data.
TLC checks the modules on small instances; TLAPS proves every safety property that holds for
instances of any size. File and line of every definition's source are in `PROJECT.json`
(`map`); paths below are relative to the repository.

## 1. The system

### Components, their state and operations

| Component | State | Operations |
| --- | --- | --- |
| Payment aggregate (`src/domain/entities`, `src/application/use-cases/payments`) | row of `payments`: status, version, provider id, idempotency key, timestamps | create, authorize, submit, cancel |
| Provider callbacks (`process-provider-callback`) | `provider_callbacks`: event ids already processed | verify, deduplicate, apply a reported status |
| Reconciliation (`payment-reconciliation.service`, its worker) | the batch in hand | poll the provider about SUBMITTED payments, 25 at a time, least recently updated first |
| Outbox (`unit-of-work`, `outbox.publisher.service`, `kafka.publisher`, `outbox.worker`) | `outbox_events`: status, attempts, next attempt | claim, send, mark, retry, dead-letter |
| Consent aggregate (`use-cases/consents`, `consent.repository`, `mappers`) | row of `consents`: status, version, expiry; its rows of scopes and accounts | create, authorize, activate, revoke, expire |
| Authorization and tokens (`use-cases/identity`) | requests, codes, access token records, refresh token families | request, exchange, refresh, revoke, introspect |
| Access decision (`access-policy`, `bearer-auth.guard`, `scopes.guard`) | none | decide on token record, scopes and consent |
| Account reads (`use-cases/accounts`, `account.repository`) | none of their own | list, get, balances, transactions by page, beneficiaries |
| Token service (`identity/token.service`) | key ring in memory, one per task | load keys, sign, validate |
| Rate limiting (`rate-limit.guard`, `redis-rate-limiter`) | one window per client, in Redis | connect, consume |
| Provider adapters (`infrastructure/providers`) | the provider's own payments (external) | submit, get status, verify a webhook |
| Circuit breaker and retry (`infrastructure/resilience`) | state, counters and opening time of one breaker | execute, getState; retry around an operation |
| Value objects (`domain/value-objects`) and the mappers | none | convert amounts, reduce scopes, merge balance rows |
| Worker process (`interfaces/workers`) | timers, Kafka producer | start, tick, heartbeat, shut down |
| Rate limiter in memory, HTTP layer, audit, observability, infrastructure | see `PROJECT.json`, `components` | not modelled, see section 5 |

### How they interact

Use cases run in API processes, any number at a time. Each reads rows outside of any
transaction, decides on the copy in memory, and writes whole rows in one
transaction, together with the outbox rows of its events (`PrismaUnitOfWork`).
`save` is an upsert on the id: the version column is written but never compared
(`OptimisticConcurrencyError` exists and is thrown nowhere). Three timers in worker
processes relay the outbox, poll the provider and expire consents; they start a
tick at every interval without waiting for the one before. The provider is called
in between, and calls back by webhook.

### What is hard

- **Lost updates.** Any two calls on one row may interleave between read and save.
- **The provider in the middle.** A submission is with the provider before anything
  about it is saved; the webhook may be faster than the commit, late, doubled,
  reordered or lost; a retry may submit again.
- **Decisions that go stale.** Create and cancel ask the consent first and commit later;
  authorize, submit, callbacks and polls never ask it.
- **Places in a line.** A poll that changes nothing leaves its payment where it was, at
  the front of the next batch.
- **Results without an owner.** A call reports to the breaker in whatever state it is
  when the call ends, also to one that opened since the call began.
- **Claims without an owner.** A claimed outbox row is PUBLISHING until the process
  that claimed it says otherwise; processes crash, are stopped, or have no producer.
- **Replies that are lost.** A statement of the relay, or the limiter's script, may have
  taken effect when its caller sees an error; the caller goes on as if it had not.
- **Clocks.** Rate limit windows are opened and ended by timestamps of many tasks that
  reach the Redis script late, early and out of order.
- **Keys per process.** During a rotation tasks with different keys serve side by side.
- **Stale credentials.** Tokens are issued from a consent that was read earlier;
  revocation and expiry race with that. And every save rewrites the scopes and accounts
  of the consent from the copy in memory, which was read by three statements with room
  for a save between them.

`PROJECT.json`, `hazards`, lists each of these at its line with the property that is
about it.

### What correct means, component by component

- Payments: a row is always one that legal calls could have left; the outcome is the
  provider's; the key decides once; a payment is with the provider once, and not
  forgotten there; terminal is final.
- Callbacks: one event moves a payment at most once.
- Payments and consents: when the access of a consent ends, only the calls it was decided
  for before may still complete.
- Reconciliation: every payment the provider has leaves its transient status, also behind
  payments that do not move.
- Outbox: exclusive claims, at-least-once delivery, bounded duplicates, every event
  leaves.
- Consents and tokens: a code is redeemed once; revocation and reuse end access;
  expiry ends a consent for good; a revoked refresh token family stays dead; what a token
  opens was granted together by one decision of the user, as far as reads are whole.
- Circuit breaker: a provider that fails is spared, one that works again is used again.
- Amounts: no conversion or merge loses or multiplies money.
- Account reads: an answer is about accounts of the consent; pages follow one
  another.
- Signing keys: a rotation strands no token and leaves every task able to sign.
- Rate limiter: bursts are bounded and nobody is locked out.

## 2. Modules

| Module | What it is | Theorems about it |
| --- | --- | --- |
| `StateMachines` | the two status graphs and the translation of provider statuses | |
| `Payments` | payments, callbacks, one poll, and the provider as environment | `PaymentsProofs`, `PaymentOutcomesProofs` |
| `IdempotentRegister` | abstract: the first claim of a name decides, and only that answer is told | |
| `ConsentedPayments` | `Payments` composed with the access decision of create and cancel | `ConsentedPaymentsProofs` |
| `ProviderAdapters` | what a poll or a webhook of each of the four adapters reports | |
| `Reconciliation` | the worker's batches over payments at several providers | `WorkerProofs` |
| `Outbox` | the relay, its ticks and the worker processes | `OutboxProofs` |
| `AtLeastOnce` | abstract: events are delivered one or more times, then closed, or given up | |
| `CircuitBreaker` | a breaker with overlapping calls, each under `withRetry` | `LimitsProofs` |
| `Identity` | consents, authorization codes, access tokens, refresh token families | `IdentityProofs` |
| `ScopeGrants` | scopes and accounts from the request over the child tables to the token | `ApiProofs` |
| `RateLimiter` | the guard, the Redis script, late and fast timestamps | `LimitsProofs` |
| `SigningKeys` | key rings of the tasks across a rotation | `ApiProofs` |
| `AccountReads` | the five reads: guards, decision, data and the paging cursor | `ApiProofs` |
| `Values` | decimal amounts and minor units, the merge of balance rows | `ApiProofs` |
| `MCPayments`, `MCConsentedPayments`, `MCOutbox`, `MCIdentity` | symmetry sets for TLC; one `.cfg` per run | |
| `MCWorker` | `Outbox`, `Reconciliation` and `CircuitBreaker`, one of them per behaviour | `WorkerProofs` |
| `MCApi` | `RateLimiter`, `SigningKeys`, `AccountReads`, `ScopeGrants` and `Values`, one of them per behaviour | `ApiProofs` |

What is composed: `ConsentedPayments` EXTENDS `Payments` and puts its own variables beside
each of its actions; `Reconciliation` EXTENDS `ProviderAdapters`; `Outbox` and `Payments`
each implement an abstract specification. Parts that share no state are instantiated
together in `MCWorker` and `MCApi`, which let one of them run per behaviour, so that their
states add up instead of multiplying.

### Payments

`payments[p]` is the row. A call in flight is `proc[x]`: `base` is the row it read,
`row` the changed copy it is going to save. `CreateRead`, `AuthorizeRead`,
`CancelRead`, `SubmitRead`, `CallbackRead` and `ReconcileRead` are the code up to
the first point where another call can run and matter; `SubmitCall` and
`ReconcilePoll` are the provider calls; the `...Commit` actions are the transactions,
each with its outbox rows. `Abort` ends a call anywhere: crash, provider error,
rolled-back transaction. A call refused by an early return or an exception changes
nothing and is not a step. `CreateRaced` is the catch block of create, and also
covers a transaction that failed for another reason while somebody else's row
exists.

The provider is the environment: it gives every submission an id (fresh, or derived
from the payment as the sandbox adapter does: `DeterministicIds`), moves a payment to
a final status in its own time and emits webhooks, which stay in `webhooks` and can
be delivered any number of times, in any order. A webhook without a status is read
as "pending", as in the code.

### ConsentedPayments

`decision[x]` is the consent the call was allowed under. Create decides (`DecideCreate`)
before it looks for the key or inserts; cancel reads the payment first and decides on the
consent of that payment (`DecideCancel`). The decision is not repeated at the commit.
`UndecidedStep` are the calls that never decide. How a consent comes to grant access is
the subject of `Identity`; here access comes and goes. The key is looked up per client,
not per consent, so a replay may be told about a payment that another consent created.

### ProviderAdapters, Reconciliation

The adapters simulate their providers: what a poll says depends on the last hexadecimal
digit of the provider payment id, so `digit` is what the model keeps of the id.
`Reached(status, reported)` is what `applyProviderStatus` makes of a reported word: the
status the payment moves to, or none.

`waiting` is the line of SUBMITTED payments by `updatedAt`; `findSubmitted` takes the first
`BatchLimit`, and a payment that moves leaves the line (`LeaveLine`), because its status is
another one from then on. `PollMoves` and `PollLeaves` are polls that work, `PollFails` is the
catch block, `TickEnds` an exception outside of it or the end of the process. A poll is one
step, because how a poll races with other calls is the subject of `Payments`, and ticks of one
worker do not overlap here, although nothing in the code prevents it: two ticks poll the same
payments twice, which `Payments` covers.

### CircuitBreaker

`breaker` has the fields of the class, with `cooled` for a passed `openDurationMs`; the
methods are operators from fields to fields. A call starts (`Starts`) or is turned away
(`Rejected`), and reports (`Succeeds`, `Fails`) to the breaker as it is then: nothing
connects a result to the state its call started in, so a late success of a call from
before the opening can close a half-open breaker, and a late failure can open it. No
source file outside the tests uses the breaker or `withRetry`; the composition, a retry
loop around `execute`, is the one of `docs/provider-integrations.md:61`. There a rejection
is an `Error` without a code, which `withRetry` retries.

### Outbox

`tick[t]` is one run of `publishPendingBatch`: the rows still to handle, the row in
hand, and whether the next statement marks it published or failed. `Claim` is the
single UPDATE statement; `Send`, `SkipSend` and `SendFails` are the outcomes of
`KafkaPublisher.publish`. A statement that fails may have been committed with only its
reply lost: `ClaimReplyLost` leaves rows PUBLISHING that no tick has in hand;
`MarkErrors` is the failing update after a send, which may have made the row PUBLISHED,
and `markFailed` then changes it whatever its status is (`PutBack`); `MarkFailedErrors`
is a failing `markFailed`, its update committed or not. A statement that fails took
effect before its caller goes on, or never does.
`worker[w]` is the process: "unconnected" is a process whose `connect` failed and
that its first heartbeat has not ended yet, "stopping" one between SIGTERM and exit,
where the producer may be gone already. With `KAFKA_ENABLED=false` every event is
marked published without being sent: by intent, and not modelled. `FAILED` is a value
of the column that no code writes, and no code writes to a dead-letter topic either;
DEAD_LETTER is a status only.

### Identity

The same shape as `Payments`. `proc[x].uses` is the credential presented.
`RevokeCommit` revokes the access tokens and families that exist at that moment.
`tokens[t].source` and `.stale` are history: what the token was issued for, and
whether the issuing call's consent was out of date when it committed. `lapsed` is the
set of consents whose `expiresAt` has passed. The candidates of one expiration batch
are read together and saved one by one, so each is a member of `Workers`. Creation
reads nothing that could become stale and is one step; so are reuse detection and
token revocation, whose updates do not depend on what was read.

The methods of `TokenRepository` are operators of their own.

### ScopeGrants

What `Identity` leaves out: which scopes and accounts. `scopeRows` and `accountRows` are
the child tables; `toConsent` and `consentScopeGrantRows` are the mappers, `saveConsent`
deletes and rewrites both tables from the copy. `GrantRead`, `RedeemRead` and `EndRead`
start a call with the row of the consent; `ReadScopes` and `ReadAccounts` read the child
tables, in either order, because Prisma reads a row and what it includes by separate
statements outside of a transaction; the commits save the copy. `torn` says of a copy that a
save came between the two, or that the rows it read were saved from such a copy
(`tornRows`).

### Values

`decimal` and `balances` are the inputs, enumerated by their next-state relation; each
module function is an operator of the same name, checked against a definition that does
not convert at all. `Double` rounds an integer as the conversion to a JavaScript number
does, so the conversion is modelled for amounts of any size; `MaxExact`, 2^53 in the
code, is where rounding begins, and what `MoneyIsExact` promises ends there.

### RateLimiter, SigningKeys, AccountReads

`RateLimiter`: a call reads its task's clock in `canActivateLimited` (up to `MaxSkew`
fast) and reaches the script, which is atomic, within `MaxDelay`: `Admit` or `Refuse`.
When the connection breaks, the Redis client sends the call again, up to `MaxResends`
times, or the caller gets an error: before the script counted it (`ConsumeFails`) or after
(`ReplyLost`). So `counted`, the history the properties are about, is what the script
counted: no fewer calls than were let through.
`bucket[c]` is the Redis key: start of the window, count, and when Redis drops it.
`ready` is the one connection attempt the guard is built with: when it fails, every
later call of the process fails.

`SigningKeys`: `ring[task]` is what `initialize` made of the environment at the task's
last start. The operator's steps are those of `docs/operations/runbook.md`, in any
order their own conditions allow and with restarts anywhere. `live` is the set of keys
under which some token has not expired.

`AccountReads`: a call passes the guards (`canActivate`), reads the consent in three statements
(`FindRow`, `FindScopes`, `FindAccounts`), is decided on that copy (`Decide`), then reads data
(`Read`); in between accounts close, transactions are booked and the consent is saved
(`SaveConsent`) with any other access, scopes and accounts, also such as are not the user's:
`authorize-consent` stores the accounts it is given. A cursor is what is between its colons, so
that splitting it at the first one can be told from splitting it at the last.

## 3. Runs

| Run | Instance | Shows |
| --- | --- | --- |
| `payments_lifecycle` | 1 payment, 2 provider ids, 2 webhook events, 2 requests, 1 worker | `TypeOK`, `NoTornRow`, `OutcomeIsProviders`, `CallbackAppliedOnce`, `LegalUnlessStale`, `ForgottenOnlyByLoss` |
| `payments_create` | 2 payments, 1 key, 2 requests, derived provider ids, 1 consent whose access comes and goes | `CreateIsIdempotent`, `CreateImplementsRegister`, `OnlyDecidedCallsAreLate` |
| `payments_reconcile` | 1 payment, fairness, an unmapped provider status | `SubmittedIsReconciled` |
| `outbox_relay` | 3 events, 2 processes with 2 ticks each, batches of 2, 2 attempts, all faults | `TypeOK`, `ClaimsAreExclusive`, `CopiesAreBounded`, `OnlyALostReplyReopens`, `OnlyFaultsStrand` |
| `outbox_delivery` | relay: 2 events, 1 process with 2 ticks, batches of 1, crashes and database errors, always a producer; batches: 3 payments at 2 providers, 2 per batch; breaker: 3 callers, threshold 2, 2 attempts; fairness | `DeliversAtLeastOnce` (implements `AtLeastOnce`), `EventsLeaveOrStrand`, `OnlyAFullBatchStarves`, `TicksTakeTheMovable`, `FailuresAreContained`, `RejectionsEnd`, `PartTypeOK` |
| `identity_grants` | 1 consent, 1 code, 3 access tokens, 1 family, 2 refresh tokens, 2 requests, 1 worker, fairness | `TypeOK`, `RevocationIsComplete`, `RedeemedOnlyByOverlap`, `DeadFamiliesStayDead`, `ConsentLegalUnlessStale`, `LapsedConsentsEnd` |
| `api_parts` | limiter: 1 client, 2 calls, limit 2, window 4, 8 ticks, 1 resend; keys: 3 tasks, 2 keys; reads: 1 reader, 2 accounts, 4 states of the consent, 3 transactions, pages of 2; grants: 3 scopes, 4 choices, 2 calls; values: amounts of up to 3 decimals, 3 balance rows in 2 currencies | `TypeOK`, `BurstsAreBounded`, `RefusedOnlyWhenSpent`, `UpToDateTasksAcceptAll`, `TasksCanSign`, `AnswersStayInConsent`, `PagesAreNewestFirst`, `MixedOnlyByTornReads`, `MoneyIsExact`, `BalancesMergeWhole` |

Deadlock checking is off everywhere: identifiers, keys and events of an instance run
out, and then nothing is left to do.

### Disagreements between the code and its documents

Each of these runs ends with a counterexample; `PROJECT.json`, `findings`, quotes the
line of the documents.

| Run | Property | Counterexample |
| --- | --- | --- |
| `payments_resubmit` | `SubmittedOnce` | two submits overlap, or one is repeated after its commit failed |
| `payments_terminal` | `TerminalIsFinal` | a poll that read SUBMITTED saves ACCEPTED over the SETTLED of a webhook |
| `outbox_shutdown` | `PublishedWasSent` | the producer is dropped while a tick runs; its rows are marked published |
| `identity_revoked` | `RevokedStaysIneffective` | an exchange commits the consent it read before the revocation |
| `api_cursor` | `CursorsAreAccepted` | a page comes with a cursor, and the next request with that cursor is an error |

Others need no run of their own. Two exchanges of one code that both read it unused both redeem
it (`docs/adr/003-token-storage.md`: "Authorization codes: Single-use");
`RedeemedOnlyByOverlap` shows that calls which overlap are the only ones that do. Where
`payments_resubmit` has the provider take a payment twice, the platform forgets one of them;
`ForgottenOnlyByLoss` says by which two kinds of steps. `findSubmitted` selects SUBMITTED
payments only, so an ACCEPTED one whose webhook is lost is never polled
(`docs/operations/reconciliation.md`: "Polls until terminal state"). A PUBLISHING row whose
process died is never claimed again (`docs/failure-scenarios.md`: "worker catches up on
recovery"): nor is one whose claim was committed and lost its reply. `EventsLeaveOrStrand`
shows that a stranded row is the only way to lose an event while there is a producer, and
`OnlyFaultsStrand` that no order of overlapping ticks alone strands one. A row whose update to
PUBLISHED was committed and lost its reply goes back to PENDING and is sent again, or becomes
DEAD_LETTER although it was delivered (`outbox.publisher.service.ts:56-58`, `:107`);
`OnlyALostReplyReopens` shows that nothing else reopens a closed row. A client whose replies
from Redis are lost is refused without having had its limit: `RefusedOnlyWhenSpent` counts what
the script counted. An exchange, revocation or expiry that reads the child tables of a consent
on two sides of an authorization's save writes the scopes of one decision with the accounts of
another; `MixedOnlyByTornReads` shows that nothing else mixes them. Reuse of a refresh token
ends its family but no access token of it (`docs/failure-scenarios.md`: "All sessions in family
invalidated"). A task whose first connection to Redis fails answers every call with an error
until it is restarted, health checks included (`docs/failure-scenarios.md`: "Rate limiting may
degrade"). And during the restarts of a key rotation, a task that started before the new public
key was in its environment refuses the tokens of tasks that sign with it;
`UpToDateTasksAcceptAll` is about tasks that run with the secrets of the moment. In the order
of `docs/operations/runbook.md`, step 2 before step 3 with one restart after both, this window
exists at every rotation.

Three adapters pass the word of a webhook on as the provider wrote it, and the callback
ignores words it does not know (`docs/provider-integrations.md:3`: "Each adapter normalizes
submission, status polling, and webhook verification"): such webhooks change nothing, and
reconciliation, which polls SUBMITTED payments only, is left to move them.
`docs/operations/reconciliation.md` also has polls of `ACCEPTED` payments, "Retries with
backoff" and a circuit breaker around provider calls, and
`docs/provider-integrations.md:61` wraps them in both; no call is wrapped in either, and a
poll that fails is tried again by a later tick, without backoff. Twenty-five payments that
stay pending starve all others (`OnlyAFullBatchStarves` shows that nothing less does).
Authorize and submit of a payment do not ask its consent
(`docs/payment-lifecycle.md:3`: "bound to an active consent"). And the merge of an
account's balance rows leaves their credit or debit indicator out of the record.

### Bounds, and why they are enough

A lost update takes two calls on one row: two requests and a worker allow three, so a stale
save can itself be overtaken. Two provider ids are a double submission, two webhook events a
reordering or a duplicate beside a second event. Aggregates do not interact except through the
idempotency key, so one payment or consent suffices elsewhere, and `payments_create` has two
payments, one key and two requests: a winner, a loser and, later, a replay; two provider ids
for two payments, so that a second submission has an id to take if it is given a new one. The
versions are not capped: `MaxVersion` is the longest path of the status graph and `TypeOK` says
nobody exceeds it. The consent in `payments_create` needs no second one: a late call is counted
for the consent it was decided for. There is no worker in it, because polls never look at the
consent or the key, and two reported statuses are one that keeps a payment where it is and one
that ends it. In the outbox three events and batches of two make a full batch and a rest, two
attempts a retry and a dead letter, and two processes of two ticks the overlap inside and
between processes. Under fairness two events and batches of one are enough for a row that waits
behind another, a retry and a stranded row. `ComesDue` may come at any time, so no backoff
value is assumed. One code suffices for the grants: codes meet only in the consent, and two
exchanges of one code race for it.

Eight ticks are two windows of four, so a window can open, fill, end late and be followed by
another; one resend is a call that is counted twice; delay and skew of one tick each reorder
timestamps and move them over an edge. The bound of `BurstsAreBounded` is tight: with a stretch
one tick longer, or a limit one higher, TLC finds a burst over it. Three tasks are an old one,
a restarted one and one in between; two keys are one rotation, and the second can be rotated
back. Three payments with batches of two are a full batch and one that waits behind it; the two
providers are one that answers by the digit of the payment id ("pending" for most of them) and
one that answers "processing" or "completed". Three callers with a threshold of two are a call
in flight from before the opening, one that trips the breaker and one that retries. Two racing
calls on one consent can each be an authorization, an exchange or an end; the four choices
overlap in scopes, in accounts, in neither, and go beyond what may be requested. The digits 0,
5 and 9 and whole parts 0, 1 and 10 show every shift and every dropped or doubled zero; three
fraction digits are one more than any currency has. `MaxExact` is 1024, so that amounts on both
sides of it occur. The four states of the consent in the reads differ in access, in scopes and
in accounts. Three transactions and pages of two are a page with a rest; two of them are at the
same moment.

### Fairness, and why the code justifies it

- `Payments`: the interval timer polls again and again, and a poll or commit does not
  fail every time: strong fairness for the worker's steps; and the provider finishes
  what it took. With more than a batch of waiting payments that do not change (25,
  oldest first), the code does not poll the others, so the assumption is for at most
  that many. Clients and webhook deliveries get none.
- `Outbox`: time passes, a tick that runs awaits what it started, and processes are
  restarted by their supervisor: weak fairness. Processes do not crash before every
  single claim: strong fairness for `Claim`. Faults and new events get none.
- `Reconciliation`: the timer fires (weak fairness of `StartTick`), and a poll of a payment
  that is reached again and again does not fail every time (strong fairness of
  `PollSucceeds`). Webhooks and the end of an outage get none.
- `CircuitBreaker`: time passes, so an open breaker cools down, and an operation that started
  ends (weak fairness). Callers, who may never come back, and the provider get none:
  `RejectionsEnd` assumes a provider that works from some time on.
- `RateLimiter`, `SigningKeys`, `AccountReads`, `ScopeGrants`, `Values`,
  `ConsentedPayments`: safety only, no fairness.
- `Identity`: the expiration timer keeps firing and its transaction does not fail every
  time: strong fairness.

## 4. Proofs

All theorems hold for all values of the constants; what each needs to know of them is an
`ASSUME` of the module it is about, which TLC evaluates in the runs:

| Module | Theorem | Statement | Assumptions |
| --- | --- | --- | --- |
| `PaymentsProofs` | `TypeCorrect` | `Spec => []TypeOK` | requests and workers are disjoint, `None` is no identifier, no row and no payment of the provider, `DeterministicIds` is a Boolean |
| | `RowsAreWhole` | `Spec => []NoTornRow` | |
| | `CreateCorrect` | `Spec => []CreateIsIdempotent` | |
| | `CreateRefines` | `Spec => CreateImplementsRegister` | |
| | `GraphBrokenOnlyByStaleSaves` | `Spec => LegalUnlessStale` | |
| | `TerminalUnlessStale` | `Spec /\ [][~StaleSave]_vars => TerminalIsFinal` | no call saves a row that changed since it was read |
| `PaymentOutcomesProofs` | `OutcomesComeFromProvider` | `Spec => []OutcomeIsProviders` | as above |
| | `EventsCountOnce` | `Spec => []CallbackAppliedOnce` | |
| | `IdsAreNotDropped` | `Spec => ForgottenOnlyByLoss` | |
| `ConsentedPaymentsProofs` | `LateCallsAreBounded` | `ConsentedSpec => []OnlyDecidedCallsAreLate` | also: finitely many requests, `None` is no consent |
| | `ConsentsOnlyRestrict` | `ConsentedSpec => Spec` | |
| | `ConsentedCreateCorrect` | `ConsentedSpec` implies the types, the invariants and the action properties of `payments_lifecycle` and `payments_create`, the register included | |
| `OutboxProofs` | `RelayTypeCorrect` | `Spec => []TypeOK` | batch size and attempts are positive, `None` is no number |
| | `ClaimsExclude` | `Spec => []ClaimsAreExclusive` | |
| | `DuplicatesAreBounded` | `Spec => []CopiesAreBounded` | |
| | `ReopenedByItsTick` | `Spec => OnlyALostReplyReopens` | |
| | `StrandedByFaults` | `Spec => OnlyFaultsStrand` | |
| | `RelayRefines` | `AlwaysProducer /\ Spec => DeliversAtLeastOnce` | no shutdown, no start while Kafka is down |
| | `PublishedOnlyIfSent` | `AlwaysProducer /\ Spec => []PublishedWasSent` | the same |
| `IdentityProofs` | `IdentityTypeCorrect` | `Spec => []TypeOK` | requests are finitely many and no workers; access tokens, refresh tokens and families are told from one another where one field holds either, as are codes; `None` is no identifier and no record |
| | `RevocationsAreComplete` | `Spec => []RevocationIsComplete` | |
| | `ConsentsFollowTheGraph` | `Spec => ConsentLegalUnlessStale` | |
| | `CodesYieldOnlyByOverlap` | `Spec => []RedeemedOnlyByOverlap` | |
| | `DeadFamiliesAreNotRevived` | `Spec => DeadFamiliesStayDead` | |
| | `RevokedUnlessStale` | `Spec /\ [][~StaleSave]_vars => []RevokedStaysIneffective` | no call saves a consent that changed since it was read |
| `LimitsProofs` | `LimiterTypeCorrect` | `LimiterSpec => []LimiterTypeOK` | window and limit are positive, delay, skew and resends natural numbers, `NoBucket` is no record |
| | `BurstsStayBounded` | `LimiterSpec => []BurstsAreBounded` | |
| | `RefusalsAreEarned` | `LimiterSpec => RefusedOnlyWhenSpent` | |
| | `BreakerTypeCorrect` | `BreakerSpec => []BreakerTypeOK` | positive thresholds and attempts, finitely many callers |
| | `BreakerContainsFailures` | `BreakerSpec => []FailuresAreContained` | |
| `ApiProofs` | `TokensSurviveRotation` | `KeysSpec => []UpToDateTasksAcceptAll` | none |
| | `TasksAlwaysSign` | `KeysSpec => []TasksCanSign` | none |
| | `GrantsTypeCorrect` | `GrantsSpec => []GrantsTypeOK` | the client's scopes are scopes, `NoRow` is no status |
| | `OnlyTornReadsMix` | `GrantsSpec => []MixedOnlyByTornReads` | |
| | `ReadsStayInConsent` | `ReadsSpec => []ReadsTypeOK /\ AnswersStayInConsent` | pages of 1 to 100 rows, the user's accounts and those of a consent are accounts, transactions are rows with an account, a time and an id; `Nothing` is no account and no cursor |
| | `PagesAreComplete` | `ReadsSpec => PagesAreNewestFirst` | |
| | `MoneyStaysExact` | `ValuesSpec => []MoneyIsExact` | whole parts are natural numbers, digits lie in `0..9`, `MaxExact` is positive, the currencies are those of the source |
| | `BalancesStayWhole` | `ValuesSpec => [](ValuesTypeOK /\ BalancesMergeWhole)` | |
| | `NoSecondPage` | `ReadsSpec =>` every query with a cursor answers an error | as for the reads |
| | `ApiCorrect` | `Spec` of `MCApi` implies all properties of `api_parts` | those of its parts |
| `WorkerProofs` | `LineIsTheSubmitted` | `PollsSpec => []PollsTypeOK` | finitely many payments, a positive batch size, known providers, `Unsent` is no row |
| | `BatchesHoldTheMovable` | `PollsSpec => TicksTakeTheMovable` | |
| | `WorkerCorrect` | `PartSpec => [](PartTypeOK /\ FailuresAreContained) /\ TicksTakeTheMovable` | those of its parts |
| | `WorkerDelivers` | `AlwaysProducer /\ PartSpec => DeliversAtLeastOnce` | no shutdown, no start while Kafka is down |

Payments. `NoTornRow` is not inductive: a commit stores what a call has carried since its
read. The inductive invariant `RowInv` adds `CallsFit`: in every call in flight the row to be
saved is coherent, and is the row that was read or one edge of the status graph away
from it; a call still at the provider has not changed its copy. It says nothing about
how that copy relates to the stored row, which may have moved on; that is the point: a
stale save stores a coherent row because the copy was coherent when it was read, not
because it fits what it replaces. One lemma per aggregate method shows that an edge of
the status graph leads from a coherent row to a coherent one, which also bounds the
version. `KeyInv` joins `CreateIsIdempotent` with `KeysFit`: the payment of a create in
flight is not stored and belongs to no other call, and every other call carries the key
its payment has in the table. So saves keep keys, the first insert of a key is the only
one, and that insert is the step of the abstract register.

What became of a payment is the subject of a second invariant, `OutcomeInv`: the row
(`RowsAgree`), the copy in every call (`CallsAgree`) and every webhook ever sent
(`WebhooksAgree`) agree with the provider about the provider id they name. They can be
proved together because the provider only ever adds payments and only moves them from
pending to a final status (`ProviderKeeps`): what agreed once agrees after any later step,
so a copy may be as stale as it likes. That is why a stale save breaks the status graph and
yet never the outcome. `EventOnce` needs nothing of this: the event id is inserted in the
transaction that adds the outbox row which names it.

`ForgottenOnlyByLoss` needs to know that the copy a call carries has the id of the row it read, if
that has one (`IdsKept`): a submission is given an id only for a row without one, since a row that
has an id is past AUTHORIZED. So a call that saves on the row it read keeps the id that row had and
adds the one it carries, and an id is lost with a call, or to a copy that did not know it.

Payments under consents. Every step of `ConsentedPayments` is one of `Payments` or leaves its
variables alone (`ConsentsOnlyRestrict`), so all of the above carries over. The calls decided
for a consent are a subset of the requests (`DecisionsFit`), which bounds their number when its
access ends. From then on no call enters that set, and a completion takes one out of it as it
counts one more late call, so the sum never grows.

Outbox. A row in hand is PUBLISHING, or it is PUBLISHED and its tick believes the update failed
(`Unacknowledged`); with that, `ClaimsAreExclusive` and `CopiesAreBounded` need each other and
three facts more: a tick between send and update has the row it sends among its rows
(`TicksFit`); a row in hand that was not sent since it was claimed has one claim more than it
has copies (`SpareClaim`), which pays for the copy of the send; a row that waits has an attempt
left (`AttemptLeft`), because the comparison with the maximum was made when it was put back. A
tick only ever gives up rows it has in hand, so what a crash or a failed update does is one
lemma (`TicksQuiet`). That lemma gives `OnlyFaultsStrand`, too: rows leave a tick while they
stay PUBLISHING in no other step, and a row no tick holds is not in the status a claim asks
for. A closed row is in no batch and in no tick but the one that is unacknowledged, which is
`OnlyALostReplyReopens`. In the refinement of `AtLeastOnce` an event is delivered when its row
is PUBLISHED and no tick has it in hand; it adds that a row about to be marked published is on
the topic (`SentInv`), which is where a missing producer would break it; and since the abstract
specification closes only what it has delivered, the refinement gives `PublishedOnlyIfSent`.

Reconciliation. `PollsInv` says that no payment is twice in the line, that the line holds exactly
the SUBMITTED payments, and that no status reached from SUBMITTED leads back to it (`Onward`): no
webhook puts a payment into the line a second time. Taking one place out of the line closes the
gap and keeps the others in their order (`LineCloses`). For `TicksTakeTheMovable` suppose that a
batch holds only stuck payments. If it is shorter than the limit it is the whole line, and nothing
that waits can be moved; if it is full, then whoever is not in it has all of it ahead
(`FullBatchShutsOut`), and is shut out. So what starves a payment is a batch full of stuck ones
and nothing else, which is the safety half of `OnlyAFullBatchStarves`.

Identity. The bound on versions is not inductive by itself, since any save may be stale:
`RowsDeep` and `CallsFit` bound the version of every stored and carried row by the length of
the longest path to its status. For `RevocationIsComplete` the step that matters is the
commit of an exchange or refresh: either the consent is as it was read, and then it is not
REVOKED, or it has changed, and then the token is marked stale; an exchange also puts the
row back that it read, so that the consent is not stored as REVOKED any more.

A code, once used, is never stored as unused again: the exchange is the only writer and
writes "used". So `Redeemed` can count: the tokens a code has yielded and the calls that
carry it together never exceed the requests there are. As long as there is no token this only says
that the carriers are requests; once there is one the code is used, no further call picks it
up, and each commit trades a carrier for a token. `DeadFamiliesStayDead` adds that a refresh token
belongs to one family and keeps it (`OneFamily`) and that what a call presents is
something that was issued (`UsesKnown`); a step that issues a token from a dead family is then
the commit of a refresh under that family, which takes one call out of the sum as it adds
a token to it.

Grants. `GrantsInv` says that scope rows and account rows, stored in the tables or read by a call,
are each of one decision, cut to the request (`ScopesKnown`, `AccountsKnown`), whatever was
saved in between; and that they are of the same decision (`Paired`) unless a read was torn. A
call that has read one child table and not the other still finds the first as it read it, as a
save would have marked the copy as torn (`CopyFits`). Saving a copy and reading it back gives
that copy (`SavedReads`): the tables are rewritten together.

Circuit breaker. `FailuresAreContained` holds because of what each state knows
(`Accounted`): closed, the counter is the number of failures; half-open, there are none yet;
open, the failures so far and the calls still running, each of which may add one, stay within
the bound. The last is established when the breaker trips: the call that trips it is not
running any more.

Rate limiter. The stamp of a window need not be the time it was opened at: it may be `MaxDelay`
old, or `MaxSkew` ahead. `LimiterInv` therefore says of every window in Redis that there is a
moment `o` within those distances of its stamp at which it was opened (`Opened`): the calls
counted since `o` are at least its count, those after `o` at most its count, and those in the
rest of the window before `o` at most one more window's count, of the window it replaced. A
call in flight has a timestamp within the same distances of its own start (`CallFits`), however
often it was sent; a lost reply counts a call and may leave it in flight, which is one more
call with the same timestamp. Between two moments a window less the slack apart lie then at
most two windows (`TwoWindows`), of at most `MaxRequests` calls each; and a call that is
refused meets a window which is full and which opened within the last window and slack
(`RefusedStep`). The number of calls between two moments is a sum over a set of moments. That
such a sum splits over disjoint sets needs an induction on finite sets; as the provers cannot
instantiate an induction theorem that takes a predicate, `LimitsProofs` derives one that takes
the set of the numbers, or of the subsets, for which the claim holds (`InductionOnNat`,
`InductionOnSubsets`).

Signing keys. Neither property is inductive, because a restart may come at any time: what
it will load has to be right at every moment. `KeysInv` says that the public keys in the
environment hold every key a task signs with, the one new tasks will sign with, and every
key a live token needs, and that a task signs with exactly its active key. `RetireKey`
keeps it because the runbook retires a key only after the restarts and the lifetime of
the last token; the rest follows from what `initialize` returns (`InitializeFacts`).

Account reads. The consent may be saved with other accounts between its three reads, the
decision and the query, so `ReadsInv` ties a call to its time: the accounts the consent has are
among those it has had since the call began (`Watches`), and so are those the call has read,
which hold the account it was allowed for (`Decided`). What the query then returns is about
those. `PagesAreComplete` has to show first that there is something to page:
any finite set of rows can be put in the order of the query, because a smallest set that could
not would be one row more than a set that can; and that the order is strict, so that the
sequence has no row twice and, having as many places as there are rows, has every row
once. The first page is a prefix of it.

Values. `Number`, the value of a sequence of digits, and `mergeBalanceRecords` are recursive
functions over the digits and the rows. That there is a function with the equation of the
definition is shown by building its results one step at a time (`RunExists`, by
`InductionOnNat`), so the `CHOOSE` behind the definition has the equation too (`NumberRuns`,
`MergeRuns`). For money it is then enough that padding with zeros multiplies the value of a
fraction by the power of ten the property asks for (`PaddedNumber`), that no integer on the way
reaches `MaxExact` if the result does not, so that nothing is rounded, and that the digits
`toMajorString` writes have the value they were taken from (`WrittenBack`). For balances,
`IsMerged` says what the record of a currency is after some rows, in terms of the set of
these rows alone: the order in which the query returned them plays no part. One row more keeps
it (`OneRowMore`), because an account has one row of a type: `WriteBalance` guards it, as the
unique index does, and `ValuesInv` carries it through insertions anywhere.

What causes the findings. Each disagreement of section 3 is a counterexample in a small
instance; theorems say what it takes in any. `TerminalUnlessStale` and `RevokedUnlessStale`
assume that no call saves a row which changed since it read it (`StaleSave`, a premise on the
behaviour): then a terminal status is final, and a revoked consent's tokens stay ineffective.
The code does not give that premise, and `payments_terminal` and `identity_revoked` are
behaviours without it; comparing the version it already stores would. So blind saves are the
only cause of both. In the same way `PublishedOnlyIfSent` names ticks without a producer.
`NoSecondPage` is the other way round: `CursorsAreAccepted` fails not in some behaviours but in
each that follows a cursor.

`RevokedUnlessStale` needs `RevokedInv`: a revocation in flight carries a row that is REVOKED
(`RevocationsFit`), and a revoked consent is stored as REVOKED. REVOKED has no edge out of it, so
only a copy read before could replace it, which the premise excludes; and the access decision
refuses every token of a consent that is stored as REVOKED.

Whole runs. `MCWorker` and `MCApi` let one of their parts step; for every other part that is a
stutter. So the behaviours of the whole are behaviours of each part (`PartsRun`, `ApiPartsRun`), and
`WorkerCorrect`, `WorkerDelivers` and `ApiCorrect` state for the composed modules, for all
values of the constants, all that their runs check but liveness.

Only model-checked:

- Liveness and everything under fairness (`SubmittedIsReconciled`, `EventsLeaveOrStrand`,
  `OnlyAFullBatchStarves`, `RejectionsEnd`, `LapsedConsentsEnd`), which is out of the
  prover's reach. What their progress rests on in every single step is proved where it can be said
  without fairness: `TicksTakeTheMovable`, `OnlyFaultsStrand`, `FailuresAreContained`.
- The counterexamples of the runs that expect a violation, which are single behaviours.

## 5. What is not modelled

- Signatures, hashes, PKCE, client secrets: a behaviour of the model is one where the
  caller passed them.
- Institutions and clients in the access decision (fixed); audit; metrics; DTOs, controllers
  and exception filters, which translate requests and errors and keep no state; infrastructure,
  the seed and scripts.
- The rate limiter in memory, used when `NODE_ENV` is `test`: one synchronous method, which
  nothing can interleave with; restarts and evictions of Redis; requests for `/health` and
  `/metrics`, which are not counted.
- Keys a development task makes up when none is configured;
  `setActiveKid`, which nothing calls.
- The order of events on the topic. The access token one adapter caches: it is made up and
  checked by nobody. Request bodies of the adapters.
- Payments of several providers whose payment ids collide: a webhook is matched on that id
  alone, and `Payments` has one provider.
- Batches of `Reconciliation` that overlap (see section 2).
- In `Identity` a consent is read in one step: its status and version are columns of one row,
  and the child rows are in `ScopeGrants`.
- A statement of the relay that fails for its caller and takes effect only later.
- `add` and `subtract` of `Money`, which nothing calls, and the formats of identifiers and
  other strings; amounts too large for a JavaScript number. From 2^53 on amounts are rounded, in
  the model as in the code, and nothing is claimed of them.
- Hazards of `PROJECT.json` without a property say why there: what is not modelled (the audit record
  written after the commit, the order of events on the topic, two providers with one payment id),
  what the code leaves open so that there is nothing to hold (ACCEPTED payments whose webhook
  is lost, two refreshes of one current token, introspection of a rotated token, authorize and submit
  under an ended consent), and the one connection attempt to Redis, of which a property could only
  repeat the guard in the model.

## 6. Plan

1. Abstract specifications: a fixed window for the limiter; a consent that a token either may
   or may not use.
2. Models: several providers in `Payments`; overlapping batches in `Reconciliation`.
