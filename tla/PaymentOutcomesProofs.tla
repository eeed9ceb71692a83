------------------------ MODULE PaymentOutcomesProofs -------------------------
(***************************************************************************)
(* What payments, webhooks, the outbox and the provider say of each other, *)
(* for every set of payments, events, calls and workers: outcomes are the  *)
(* provider's, an event counts once, and the id a payment has with the     *)
(* provider is only forgotten when a call is lost or saves a stale row.    *)
(***************************************************************************)
EXTENDS PaymentsProofs

-----------------------------------------------------------------------------
\* The steps, by what they write.

\* What the provider took it keeps, with its outcome once it has one.
ProviderKeeps ==
    \A pid \in ProviderIds : provider[pid] # None =>
        /\ provider'[pid] # None
        /\ provider'[pid].payment = provider[pid].payment
        /\ provider[pid].status \in Outcomes => provider'[pid].status = provider[pid].status

LEMMA ProviderWrites ==
    ASSUME [Next]_vars
    PROVE  \/ UNCHANGED provider
           \/ \E x \in Requests, pid \in ProviderIds, status \in ReportedStatuses :
                 SubmitCall(x, pid, status)
           \/ \E pid \in ProviderIds, status \in ReportedStatuses : ProviderAdvance(pid, status)
  <1>1. ASSUME NEW x \in Requests, CreateStep(x) \/ CallbackStep(x) PROVE UNCHANGED provider
    BY <1>1 DEF CreateStep, CreateReplay, CreateRead, CreateCommit, CreateRaced,
                CallbackStep, CallbackRead, CallbackCommit
  <1>2. ASSUME NEW x \in Requests, ClientStep(x)
        PROVE  \/ UNCHANGED provider
               \/ \E pid \in ProviderIds, status \in ReportedStatuses : SubmitCall(x, pid, status)
    BY <1>2 DEF ClientStep, AuthorizeRead, CancelRead, SubmitRead,
                AuthorizeCommit, CancelCommit, SubmitCommit, CommitRow
  <1>3. ASSUME NEW x \in Workers, ReconcileStep(x) PROVE UNCHANGED provider
    BY <1>3 DEF ReconcileStep, ReconcileRead, ReconcilePoll, ReconcileCommit, CommitRow
  <1>4. CASE (\E x \in Procs : Abort(x)) \/ ProviderStep \/ UNCHANGED vars
    BY <1>4 DEF Abort, ProviderStep, ProviderNotify, vars
  <1> QED BY <1>1, <1>2, <1>3, <1>4 DEF Next

\* The payment in hand at the provider's answer.
LEMMA InHandSubmit ==
    ASSUME RowInv, NEW x \in Procs, NEW pid \in ProviderIds, NEW status \in ReportedStatuses,
           SubmitCall(x, pid, status)
    PROVE  /\ proc[x].payment \in PaymentIds
           /\ provider[pid] # None => provider[pid].payment = proc[x].payment
           /\ provider'[pid] # None /\ provider'[pid].payment = proc[x].payment
  <1>1. proc[x].payment \in PaymentIds
    BY InHand DEF RowInv, CallFits, SubmitCall, At
  <1>2. provider[pid] = None \/ provider[pid].payment = proc[x].payment
    BY DEF SubmitCall, AssignedIds
  <1>3. CASE provider[pid] # None
    BY <1>1, <1>2, <1>3 DEF SubmitCall
  <1>4. CASE provider[pid] = None
    <2> DEFINE new == [payment |-> proc[x].payment, status |-> status]
    <2>1. new \in ProviderPayment /\ new.payment = proc[x].payment
      BY <1>1 DEF ProviderPayment
    <2>2. new # None
      BY <2>1, NoneIsNoRow
    <2>3. provider'[pid] = new
      BY <1>4 DEF SubmitCall, RowInv, TypeOK
    <2> QED BY <1>1, <1>4, <2>1, <2>2, <2>3
  <1> QED BY <1>3, <1>4

LEMMA ProviderKept ==
    ASSUME RowInv, [Next]_vars
    PROVE  ProviderKeeps
  <1>1. CASE UNCHANGED provider
    BY <1>1 DEF ProviderKeeps
  <1>2. ASSUME NEW x \in Requests, NEW pid \in ProviderIds, NEW status \in ReportedStatuses,
               SubmitCall(x, pid, status)
        PROVE  ProviderKeeps
    BY <1>2 DEF SubmitCall, RowInv, TypeOK, ProviderKeeps
  <1>3. ASSUME NEW pid \in ProviderIds, NEW status \in ReportedStatuses,
               ProviderAdvance(pid, status)
        PROVE  ProviderKeeps
    <2>1. provider[pid] \in ProviderPayment /\ provider[pid].status \notin Outcomes
      BY <1>3 DEF ProviderAdvance, LaterStatuses, Outcomes, RowInv, TypeOK
    <2> DEFINE new == [provider[pid] EXCEPT !.status = status]
    <2>2. new \in ProviderPayment /\ new.payment = provider[pid].payment
      BY <2>1 DEF ProviderPayment
    <2>3. new # None
      BY <2>2, NoneIsNoRow
    <2>4. \A other \in ProviderIds :
             provider'[other] = IF other = pid THEN new ELSE provider[other]
      BY <1>3 DEF ProviderAdvance, RowInv, TypeOK
    <2> QED BY <2>1, <2>2, <2>3, <2>4 DEF ProviderKeeps
  <1> QED BY <1>1, <1>2, <1>3, ProviderWrites

\* The tables change in three ways: not at all, by saving a row with one event, or by
\* the commit of a callback.
LEMMA TableWrites ==
    ASSUME [Next]_vars
    PROVE  \/ UNCHANGED <<payments, callbacks, outbox>>
           \/ \E x \in Procs, type \in EventTypes :
                 /\ proc[x].op # "none"
                 /\ save(proc[x].payment, proc[x].row)
                 /\ addOutboxEvent(proc[x].payment, type, proc[x].row)
                 /\ UNCHANGED callbacks
           \/ \E x \in Procs : CallbackCommit(x)
  <1>1. ASSUME NEW x \in Requests, CreateStep(x) \/ ClientStep(x) \/ CallbackStep(x)
        PROVE  \/ UNCHANGED <<payments, callbacks, outbox>>
               \/ \E type \in EventTypes :
                     /\ proc[x].op # "none"
                     /\ save(proc[x].payment, proc[x].row)
                     /\ addOutboxEvent(proc[x].payment, type, proc[x].row)
                     /\ UNCHANGED callbacks
               \/ CallbackCommit(x)
    <2>1. CASE CreateStep(x)
      BY <2>1 DEF CreateStep, CreateReplay, CreateRead, CreateCommit, CreateRaced, At, EventTypes
    <2>2. CASE ClientStep(x)
      BY <2>2 DEF ClientStep, AuthorizeRead, CancelRead, SubmitRead, SubmitCall,
                  AuthorizeCommit, CancelCommit, SubmitCommit, CommitRow, At, EventTypes
    <2>3. CASE CallbackStep(x)
      BY <2>3 DEF CallbackStep, CallbackRead
    <2> QED BY <1>1, <2>1, <2>2, <2>3
  <1>2. ASSUME NEW x \in Workers, ReconcileStep(x)
        PROVE  \/ UNCHANGED <<payments, callbacks, outbox>>
               \/ \E type \in EventTypes :
                     /\ proc[x].op # "none"
                     /\ save(proc[x].payment, proc[x].row)
                     /\ addOutboxEvent(proc[x].payment, type, proc[x].row)
                     /\ UNCHANGED callbacks
    BY <1>2 DEF ReconcileStep, ReconcileRead, ReconcilePoll, ReconcileCommit, CommitRow, At,
                EventTypes
  <1>3. CASE (\E x \in Procs : Abort(x)) \/ ProviderStep \/ UNCHANGED vars
    BY <1>3 DEF Abort, ProviderStep, ProviderAdvance, ProviderNotify, vars
  <1> QED BY <1>1, <1>2, <1>3 DEF Next, Procs

-----------------------------------------------------------------------------
\* Outcomes are the provider's.  A row is replaced by a copy in flight and a copy is
\* moved by a webhook, so these have to agree with the provider as well; it is enough
\* that they do when they are read, because the provider keeps its outcomes.

Verdicts == {"SETTLED", "REJECTED", "FAILED"}

\* A row of payment p, stored or in flight, against what the provider has issued.
Agrees(issued, row, p) ==
    row.providerPaymentId # None =>
        LET theirs == issued[row.providerPaymentId] IN
        /\ theirs # None /\ theirs.payment = p
        /\ row.status \in Verdicts =>
              /\ theirs.status \in Outcomes
              /\ PROVIDER_STATUS_MAP[theirs.status] = row.status

RowsAgree == \A p \in PaymentIds : Exists(p) => Agrees(provider, payments[p], p)

CallsAgree == \A x \in Procs : ~IsIdle(x) => Agrees(provider, proc[x].row, proc[x].payment)

\* A webhook never says an outcome that is not, for good, the one the provider has.
WebhooksAgree ==
    \A w \in webhooks :
        /\ provider[w.providerPaymentId] # None
        /\ w.status \in Outcomes => provider[w.providerPaymentId].status = w.status

OutcomeInv == RowsAgree /\ CallsAgree /\ WebhooksAgree

LEMMA StillAgrees ==
    ASSUME ProviderKeeps, NEW row, row.providerPaymentId \in ProviderIds \cup {None}, NEW p,
           Agrees(provider, row, p)
    PROVE  Agrees(provider', row, p)
  BY DEF ProviderKeeps, Agrees

\* Only an outcome is translated to a verdict.
LEMMA VerdictStatus ==
    ASSUME NEW status \in NormalizedStatus, PROVIDER_STATUS_MAP[status] \in Verdicts
    PROVE  status \in Outcomes
  BY DEF NormalizedStatus, PROVIDER_STATUS_MAP, Verdicts, Outcomes

\* Applying what the provider said of a submission, now or before, keeps the agreement.
LEMMA AppliedAgrees ==
    ASSUME NEW row \in Row, Coherent(row), row.providerPaymentId # None,
           NEW p, NEW issued, Agrees(issued, row, p), NEW status,
           status \in Outcomes => issued[row.providerPaymentId].status = status,
           NEW new \in Applied(row, status)
    PROVE  Agrees(issued, new, p)
  <1>1. /\ new.providerPaymentId = row.providerPaymentId
        /\ status \in NormalizedStatus /\ new.status = PROVIDER_STATUS_MAP[status]
    BY AppliedCoherent
  <1>2. new.status \in Verdicts => status \in Outcomes
    BY <1>1, VerdictStatus
  <1> QED BY <1>1, <1>2 DEF Agrees

\* A call begins, goes on or ends.
LEMMA CallsStillAgree ==
    ASSUME RowInv, CallsAgree, ProviderKeeps, NEW x \in Procs, NEW c,
           proc' = [proc EXCEPT ![x] = c],
           c = Idle \/ Agrees(provider', c.row, c.payment)
    PROVE  CallsAgree'
  <1>1. \A y \in Procs : proc'[y] = IF y = x THEN c ELSE proc[y]
    BY DEF RowInv, TypeOK
  <1>2. ASSUME NEW y \in Procs, proc'[y] # Idle
        PROVE  Agrees(provider', proc'[y].row, proc'[y].payment)
    <2>1. CASE y = x
      BY <1>1, <1>2, <2>1
    <2>2. CASE y # x
      <3>1. proc'[y] = proc[y] /\ ~IsIdle(y)
        BY <1>1, <1>2, <2>2 DEF IsIdle
      <3>2. proc[y].row.providerPaymentId \in ProviderIds \cup {None}
        BY <3>1 DEF RowInv, CallsFit, CallFits, Row
      <3> QED BY <3>1, <3>2, StillAgrees DEF CallsAgree
    <2> QED BY <2>1, <2>2
  <1> QED BY <1>2 DEF CallsAgree, IsIdle

LEMMA StartedAgrees ==
    ASSUME RowInv, CallsAgree, ProviderKeeps, NEW x \in Procs, NEW op, NEW pc, NEW p, NEW base,
           NEW row, NEW event, Start(x, op, pc, p, base, row, event),
           Agrees(provider', row, p)
    PROVE  CallsAgree'
  <1> DEFINE c == [op |-> op, pc |-> pc, payment |-> p, base |-> base, row |-> row,
                   event |-> event]
  <1>1. c.payment = p /\ c.row = row
    OBVIOUS
  <1>2. proc' = [proc EXCEPT ![x] = c]
    BY DEF Start
  <1> HIDE DEF c
  <1> QED BY <1>1, <1>2, CallsStillAgree

LEMMA EndedAgrees ==
    ASSUME RowInv, CallsAgree, ProviderKeeps, NEW x \in Procs, Finish(x)
    PROVE  CallsAgree'
  BY CallsStillAgree DEF Finish

LEMMA RestAgree ==
    ASSUME RowInv, CallsAgree, ProviderKeeps, UNCHANGED proc
    PROVE  CallsAgree'
  <1>1. ASSUME NEW y \in Procs, proc[y] # Idle
        PROVE  Agrees(provider', proc[y].row, proc[y].payment)
    <2>1. proc[y].row.providerPaymentId \in ProviderIds \cup {None}
      BY <1>1 DEF RowInv, CallsFit, CallFits, Row, IsIdle
    <2> QED BY <1>1, <2>1, StillAgrees DEF CallsAgree, IsIdle
  <1> QED BY <1>1 DEF CallsAgree, IsIdle

\* A row without a provider id says nothing of the provider.
LEMMA UnsentAgrees ==
    ASSUME NEW row, row.providerPaymentId = None, NEW issued, NEW p
    PROVE  Agrees(issued, row, p)
  BY DEF Agrees

LEMMA StoredAgrees ==
    ASSUME RowInv, RowsAgree, ProviderKeeps, NEW p \in PaymentIds, Exists(p)
    PROVE  Agrees(provider', payments[p], p)
  <1>1. payments[p].providerPaymentId \in ProviderIds \cup {None}
    BY StoredRow DEF Row
  <1> QED BY <1>1, StillAgrees DEF RowsAgree

LEMMA ClientAgrees ==
    ASSUME RowInv, OutcomeInv, ProviderKeeps, NEW x \in Requests, ClientStep(x)
    PROVE  CallsAgree'
  <1> x \in Procs
    BY DEF Procs
  <1> CallsAgree /\ RowsAgree
    BY DEF OutcomeInv
  <1>1. ASSUME NEW p \in PaymentIds, AuthorizeRead(x, p) PROVE CallsAgree'
    <2>1. payments[p] \in Row /\ Coherent(payments[p])
      BY <1>1, StoredRow DEF AuthorizeRead
    <2>2. authorize(payments[p]).providerPaymentId = None
      BY <1>1, <2>1, AuthorizeCoherent DEF AuthorizeRead
    <2> QED BY <1>1, <2>2, UnsentAgrees, StartedAgrees DEF AuthorizeRead
  <1>2. ASSUME NEW p \in PaymentIds, CancelRead(x, p) PROVE CallsAgree'
    <2>1. payments[p] \in Row /\ Coherent(payments[p])
      BY <1>2, StoredRow DEF CancelRead
    <2>2. cancel(payments[p]).providerPaymentId = None
      BY <1>2, <2>1, CancelCoherent DEF CancelRead
    <2> QED BY <1>2, <2>2, UnsentAgrees, StartedAgrees DEF CancelRead
  <1>3. ASSUME NEW p \in PaymentIds, SubmitRead(x, p) PROVE CallsAgree'
    BY <1>3, StoredAgrees, StartedAgrees DEF SubmitRead
  <1>4. ASSUME NEW pid \in ProviderIds, NEW status \in ReportedStatuses,
               SubmitCall(x, pid, status)
        PROVE  CallsAgree'
    <2> DEFINE new == submit(proc[x].row, pid)
    <2>1. proc[x].row \in Row /\ Coherent(proc[x].row) /\ proc[x].row.status = "AUTHORIZED"
      BY <1>4, InHand DEF RowInv, CallFits, SubmitCall, At
    <2>2. new.providerPaymentId = pid /\ new.status = "SUBMITTED"
      BY <2>1, SubmitCoherent
    <2>3. Start(x, "submit", "commit", proc[x].payment, proc[x].base, new, None)
      BY <1>4 DEF SubmitCall
    <2> HIDE DEF new
    <2>4. provider'[pid] # None /\ provider'[pid].payment = proc[x].payment
      BY <1>4, InHandSubmit
    <2>5. Agrees(provider', new, proc[x].payment)
      BY <2>2, <2>4 DEF Agrees, Verdicts
    <2> QED BY <2>3, <2>5, StartedAgrees
  <1>5. ASSUME AuthorizeCommit(x) \/ CancelCommit(x) \/ SubmitCommit(x) PROVE CallsAgree'
    BY <1>5, EndedAgrees DEF AuthorizeCommit, CancelCommit, SubmitCommit, CommitRow
  <1> QED BY <1>1, <1>2, <1>3, <1>4, <1>5 DEF ClientStep

LEMMA CreateAgrees ==
    ASSUME RowInv, OutcomeInv, ProviderKeeps, NEW x \in Requests, CreateStep(x)
    PROVE  CallsAgree'
  <1> x \in Procs
    BY DEF Procs
  <1> CallsAgree
    BY DEF OutcomeInv
  <1>1. ASSUME NEW key \in Keys \cup {None}, NEW p \in PaymentIds, CreateRead(x, key, p)
        PROVE  CallsAgree'
    <2>1. requestAuthorization(create(key)).providerPaymentId = None
      BY DEF requestAuthorization, create, MovedTo
    <2> QED BY <1>1, <2>1, UnsentAgrees, StartedAgrees DEF CreateRead
  <1>2. ASSUME NEW key \in Keys, NEW p \in PaymentIds, CreateReplay(x, key, p)
        PROVE  CallsAgree'
    BY <1>2, RestAgree DEF CreateReplay
  <1>3. ASSUME NEW key \in Keys, NEW p \in PaymentIds, CreateRaced(x, key, p)
        PROVE  CallsAgree'
    BY <1>3, EndedAgrees DEF CreateRaced
  <1>4. ASSUME CreateCommit(x) PROVE CallsAgree'
    BY <1>4, EndedAgrees DEF CreateCommit
  <1> QED BY <1>1, <1>2, <1>3, <1>4 DEF CreateStep

LEMMA CallbackAgrees ==
    ASSUME RowInv, OutcomeInv, ProviderKeeps, NEW x \in Requests, CallbackStep(x)
    PROVE  CallsAgree'
  <1> x \in Procs
    BY DEF Procs
  <1> CallsAgree /\ RowsAgree /\ WebhooksAgree
    BY DEF OutcomeInv
  <1>1. ASSUME NEW w \in webhooks, NEW p \in PaymentIds, CallbackRead(x, w, p) PROVE CallsAgree'
    <2>1. /\ Exists(p) /\ payments[p].providerPaymentId = w.providerPaymentId
          /\ w.providerPaymentId \in ProviderIds /\ w.providerPaymentId # None
      BY <1>1, NoneFresh DEF RowInv, TypeOK, CallbackRead, findByProviderPaymentId
    <2>2. payments[p] \in Row /\ Coherent(payments[p])
      BY <2>1, StoredRow
    <2>3. PICK row \in Applied(payments[p], w.status) :
             Start(x, "callback", "commit", p, payments[p], row, w.event)
      BY <1>1 DEF CallbackRead
    <2>4. w.status \in Outcomes => provider[payments[p].providerPaymentId].status = w.status
      BY <2>1 DEF WebhooksAgree
    <2>5. Agrees(provider, row, p)
      BY <2>1, <2>2, <2>4, AppliedAgrees DEF RowsAgree
    <2>6. row.providerPaymentId \in ProviderIds
      BY <2>1, <2>2, AppliedCoherent
    <2>7. Agrees(provider', row, p)
      BY <2>5, <2>6, StillAgrees
    <2> QED BY <2>3, <2>7, StartedAgrees
  <1>2. ASSUME CallbackCommit(x) PROVE CallsAgree'
    BY <1>2, EndedAgrees DEF CallbackCommit
  <1> QED BY <1>1, <1>2 DEF CallbackStep

LEMMA ReconcileAgrees ==
    ASSUME RowInv, OutcomeInv, ProviderKeeps, NEW x \in Workers, ReconcileStep(x)
    PROVE  CallsAgree'
  <1> x \in Procs
    BY DEF Procs
  <1> CallsAgree /\ RowsAgree
    BY DEF OutcomeInv
  <1>1. ASSUME NEW p \in PaymentIds, ReconcileRead(x, p) PROVE CallsAgree'
    BY <1>1, StoredAgrees, StartedAgrees DEF ReconcileRead, findSubmitted
  <1>2. ASSUME ReconcilePoll(x) PROVE CallsAgree'
    <2>1. /\ ~IsIdle(x) /\ proc[x].row \in Row /\ Coherent(proc[x].row)
          /\ proc[x].row.providerPaymentId # None
      <3>1. proc[x].op = "reconcile" /\ proc[x].pc = "provider"
        BY <1>2 DEF ReconcilePoll, At
      <3>2. ~IsIdle(x)
        BY <3>1 DEF IsIdle, Idle
      <3>3. CallFits(proc[x])
        BY <3>1, InHand DEF RowInv
      <3>4. /\ proc[x].row \in Row /\ Coherent(proc[x].row)
            /\ proc[x].row.status = "SUBMITTED"
        BY <3>1, <3>3 DEF CallFits
      <3> QED BY <3>2, <3>4 DEF Coherent
    <2>2. Agrees(provider, proc[x].row, proc[x].payment)
      BY <2>1 DEF CallsAgree
    <2>3. CASE Finish(x)
      BY <2>3, EndedAgrees
    <2>4. ASSUME NEW row \in Applied(proc[x].row,
                                     provider[proc[x].row.providerPaymentId].status),
                 Start(x, "reconcile", "commit", proc[x].payment, proc[x].base, row, None)
          PROVE  CallsAgree'
      <3>1. Agrees(provider, row, proc[x].payment)
        BY <2>1, <2>2, AppliedAgrees
      <3>2. UNCHANGED provider
        BY <1>2 DEF ReconcilePoll
      <3> QED BY <2>4, <3>1, <3>2, StartedAgrees
    <2> QED BY <1>2, <2>3, <2>4 DEF ReconcilePoll
  <1>3. ASSUME ReconcileCommit(x) PROVE CallsAgree'
    BY <1>3, EndedAgrees DEF ReconcileCommit, CommitRow
  <1> QED BY <1>1, <1>2, <1>3 DEF ReconcileStep

LEMMA OtherAgrees ==
    ASSUME RowInv, OutcomeInv, ProviderKeeps,
           \/ \E x \in Procs : Abort(x)
           \/ ProviderStep
           \/ UNCHANGED vars
    PROVE  CallsAgree'
  <1> CallsAgree
    BY DEF OutcomeInv
  <1>1. ASSUME NEW x \in Procs, Abort(x) PROVE CallsAgree'
    BY <1>1, EndedAgrees DEF Abort
  <1>2. CASE ProviderStep \/ UNCHANGED vars
    BY <1>2, RestAgree DEF ProviderStep, ProviderAdvance, ProviderNotify, vars
  <1> QED BY <1>1, <1>2

LEMMA RowsStillAgree ==
    ASSUME RowInv, OutcomeInv, ProviderKeeps, [Next]_vars
    PROVE  RowsAgree'
  <1>1. ASSUME NEW p \in PaymentIds, payments'[p] # None
        PROVE  Agrees(provider', payments'[p], p)
    <2>1. CASE payments'[p] = payments[p]
      BY <1>1, <2>1, StoredAgrees DEF OutcomeInv, Exists
    <2>2. CASE payments'[p] # payments[p]
      <3>1. PICK x \in Procs : /\ proc[x].op # "none"
                               /\ save(proc[x].payment, proc[x].row)
        BY <2>2, SaveOrNot
      <3>2. CallFits(proc[x]) /\ ~IsIdle(x)
        BY <3>1, InHand DEF RowInv, IsIdle, Idle
      <3>3. proc[x].payment = p /\ payments'[p] = proc[x].row
        BY <2>2, <3>1, <3>2 DEF save, RowInv, TypeOK, CallFits
      <3>4. proc[x].row.providerPaymentId \in ProviderIds \cup {None}
        BY <3>2 DEF CallFits, Row
      <3>5. Agrees(provider, proc[x].row, p)
        BY <3>2, <3>3 DEF OutcomeInv, CallsAgree
      <3> QED BY <3>3, <3>4, <3>5, StillAgrees
    <2> QED BY <2>1, <2>2
  <1> QED BY <1>1 DEF RowsAgree, Exists

LEMMA WebhooksStillAgree ==
    ASSUME RowInv, OutcomeInv, ProviderKeeps, [Next]_vars
    PROVE  WebhooksAgree'
  <1>1. \A w \in webhooks : w.providerPaymentId \in ProviderIds
    BY DEF RowInv, TypeOK
  <1>2. CASE UNCHANGED webhooks
    BY <1>1, <1>2 DEF ProviderKeeps, OutcomeInv, WebhooksAgree
  <1>3. ASSUME NEW pid \in ProviderIds, NEW event \in EventIds, ProviderNotify(pid, event)
        PROVE  WebhooksAgree'
    BY <1>3 DEF ProviderNotify, Outcomes, OutcomeInv, WebhooksAgree
  <1>4. UNCHANGED webhooks
        \/ \E pid \in ProviderIds, event \in EventIds : ProviderNotify(pid, event)
    <2>1. ASSUME NEW x \in Requests, CreateStep(x) \/ CallbackStep(x) PROVE UNCHANGED webhooks
      BY <2>1 DEF CreateStep, CreateReplay, CreateRead, CreateCommit, CreateRaced,
                  CallbackStep, CallbackRead, CallbackCommit
    <2>2. ASSUME NEW x \in Requests, ClientStep(x) PROVE UNCHANGED webhooks
      BY <2>2 DEF ClientStep, AuthorizeRead, CancelRead, SubmitRead, SubmitCall,
                  AuthorizeCommit, CancelCommit, SubmitCommit, CommitRow
    <2>3. ASSUME NEW x \in Workers, ReconcileStep(x) PROVE UNCHANGED webhooks
      BY <2>3 DEF ReconcileStep, ReconcileRead, ReconcilePoll, ReconcileCommit, CommitRow
    <2>4. ASSUME NEW x \in Procs, Abort(x) PROVE UNCHANGED webhooks
      BY <2>4 DEF Abort
    <2>5. CASE UNCHANGED vars
      BY <2>5 DEF vars
    <2>6. CASE ProviderStep
      BY <2>6 DEF ProviderStep, ProviderAdvance
    <2> QED BY <2>1, <2>2, <2>3, <2>4, <2>5, <2>6 DEF Next
  <1> QED BY <1>2, <1>3, <1>4

LEMMA OutcomeInvInit == Init => OutcomeInv
  BY DEF Init, OutcomeInv, RowsAgree, CallsAgree, WebhooksAgree, Exists, IsIdle

LEMMA OutcomeInvStep ==
    ASSUME RowInv, OutcomeInv, [Next]_vars
    PROVE  OutcomeInv'
  <1>1. ProviderKeeps
    BY ProviderKept
  <1>2. CallsAgree'
    BY <1>1, CreateAgrees, ClientAgrees, CallbackAgrees, ReconcileAgrees, OtherAgrees DEF Next
  <1> QED BY <1>1, <1>2, RowsStillAgree, WebhooksStillAgree DEF OutcomeInv

\* However calls overlap, webhooks are late, repeated or out of order, and payments are
\* submitted twice: a stored payment names a submission of its own, and a payment that
\* is SETTLED, REJECTED or FAILED is so because the provider says that of it.
THEOREM OutcomesComeFromProvider == Spec => []OutcomeIsProviders
  <1>1. OutcomeInv => OutcomeIsProviders
    BY DEF OutcomeInv, RowsAgree, Agrees, OutcomeIsProviders, Outcomes, NormalizedStatus, Verdicts
  <1>2. RowInv /\ OutcomeInv /\ [Next]_vars => OutcomeInv'
    BY OutcomeInvStep
  <1> QED BY <1>1, <1>2, OutcomeInvInit, RowInvariance, PTL DEF Spec

-----------------------------------------------------------------------------
\* An event counts once.

\* The i-th outbox row of payment p was written for webhook event e.
Carries(p, i, e) == i \in DOMAIN outbox[p] /\ outbox[p][i].event = e

EventOnce ==
    \A e \in EventIds : \A p \in PaymentIds, i \in Nat : Carries(p, i, e) =>
        /\ e \in callbacks
        /\ \A q \in PaymentIds, j \in Nat : Carries(q, j, e) => p = q /\ i = j

\* The domain and the elements of a longer sequence.
LEMMA Appended ==
    ASSUME NEW S, NEW s \in Seq(S), NEW a \in S
    PROVE  /\ Append(s, a) \in Seq(S) /\ DOMAIN s = 1..Len(s) /\ Len(s) \in Nat
           /\ DOMAIN Append(s, a) = 1..(Len(s) + 1)
           /\ Len(Append(s, a)) = Len(s) + 1
           /\ \A i \in 1..Len(s) : Append(s, a)[i] = s[i]
           /\ Append(s, a)[Len(s) + 1] = a
  OBVIOUS

LEMMA OneMore ==
    ASSUME RowInv, NEW p \in PaymentIds, NEW type \in EventTypes, NEW row \in Row,
           addOutboxEvent(p, type, row)
    PROVE  \A e \in EventIds : \A q \in PaymentIds, i \in Nat :
              Carries(q, i, e)' => Carries(q, i, e)
  <1> DEFINE new == DomainEvent(type, row, None)
  <1>1. new \in OutboxEvent /\ new.event = None
    BY EventType DEF DomainEvent
  <1>2. \A q \in PaymentIds :
           outbox[q] \in Seq(OutboxEvent)
           /\ outbox'[q] = IF q = p THEN Append(outbox[q], new) ELSE outbox[q]
    BY DEF RowInv, TypeOK, addOutboxEvent
  <1> HIDE DEF new
  <1>3. ASSUME NEW e \in EventIds, NEW q \in PaymentIds, NEW i \in Nat,
               i \in DOMAIN outbox'[q], outbox'[q][i].event = e
        PROVE  i \in DOMAIN outbox[q] /\ outbox[q][i].event = e
    <2>1. CASE q # p
      BY <1>2, <1>3, <2>1
    <2>2. CASE q = p
      <3>1. outbox'[q] = Append(outbox[q], new)
        BY <1>2, <2>2
      <3>2. i \in 1..(Len(outbox[q]) + 1) /\ e # None
        BY <1>1, <1>2, <1>3, <3>1, Appended, NoneFresh
      <3>3. i # Len(outbox[q]) + 1
        BY <1>1, <1>2, <1>3, <3>1, <3>2, Appended
      <3> QED BY <1>1, <1>2, <1>3, <3>1, <3>2, <3>3, Appended
    <2> QED BY <2>1, <2>2
  <1> QED BY <1>3 DEF Carries

\* The first of the two events of a callback is the one place its event id goes.
LEMMA TwoMore ==
    ASSUME RowInv, NEW p \in PaymentIds, NEW row \in Row, NEW event \in EventIds,
           addCallbackEvents(p, row, event)
    PROVE  \A e \in EventIds : \A q \in PaymentIds, i \in Nat : Carries(q, i, e)' =>
              \/ Carries(q, i, e)
              \/ e = event /\ q = p /\ i = Len(outbox[p]) + 1
  <1> DEFINE first  == DomainEvent("PROVIDER_CALLBACK_RECEIVED", row, event)
             second == DomainEvent("PAYMENT_STATUS_CHANGED", row, None)
  <1>1. /\ first \in OutboxEvent /\ first.event = event
        /\ second \in OutboxEvent /\ second.event = None
    BY EventType DEF DomainEvent, EventTypes
  <1>2. \A q \in PaymentIds :
           /\ outbox[q] \in Seq(OutboxEvent)
           /\ outbox'[q] = IF q = p THEN Append(Append(outbox[q], first), second)
                           ELSE outbox[q]
    BY DEF RowInv, TypeOK, addCallbackEvents
  <1> HIDE DEF first, second
  <1>3. ASSUME NEW e \in EventIds, NEW q \in PaymentIds, NEW i \in Nat,
               i \in DOMAIN outbox'[q], outbox'[q][i].event = e
        PROVE  \/ i \in DOMAIN outbox[q] /\ outbox[q][i].event = e
               \/ e = event /\ q = p /\ i = Len(outbox[p]) + 1
    <2>1. CASE q # p
      BY <1>2, <1>3, <2>1
    <2>2. CASE q = p
      <3> DEFINE old == outbox[q]
                 mid == Append(old, first)
      <3>1. outbox'[q] = Append(mid, second) /\ old \in Seq(OutboxEvent)
        BY <1>2, <2>2
      <3>2. /\ mid \in Seq(OutboxEvent) /\ Len(mid) = Len(old) + 1 /\ Len(old) \in Nat
            /\ \A k \in 1..Len(old) : mid[k] = old[k]
            /\ mid[Len(old) + 1] = first /\ DOMAIN old = 1..Len(old)
        BY <1>1, <3>1, Appended
      <3> HIDE DEF mid
      <3>3. /\ DOMAIN outbox'[q] = 1..(Len(mid) + 1)
            /\ \A k \in 1..Len(mid) : outbox'[q][k] = mid[k]
            /\ outbox'[q][Len(mid) + 1] = second
        BY <1>1, <3>1, <3>2, Appended
      <3>4. i # Len(mid) + 1 /\ i \in 1..Len(mid)
        BY <1>1, <1>3, <3>2, <3>3, NoneFresh
      <3>5. CASE i = Len(old) + 1
        BY <1>1, <1>3, <2>2, <3>2, <3>3, <3>4, <3>5
      <3>6. CASE i # Len(old) + 1
        <4>1. i \in 1..Len(old)
          BY <3>2, <3>4, <3>6
        <4>2. outbox'[q][i] = old[i] /\ i \in DOMAIN old
          BY <3>2, <3>3, <3>4, <4>1
        <4> QED BY <1>3, <4>2
      <3> QED BY <3>5, <3>6
    <2> QED BY <2>1, <2>2
  <1> QED BY <1>3 DEF Carries

LEMMA EventOnceStep ==
    ASSUME RowInv, EventOnce, [Next]_vars
    PROVE  EventOnce'
  <1>1. CASE UNCHANGED <<payments, callbacks, outbox>>
    BY <1>1 DEF EventOnce, Carries
  <1>2. ASSUME NEW x \in Procs, NEW type \in EventTypes, proc[x].op # "none",
               addOutboxEvent(proc[x].payment, type, proc[x].row), UNCHANGED callbacks
        PROVE  EventOnce'
    <2>1. proc[x].payment \in PaymentIds /\ proc[x].row \in Row
      BY <1>2, InHand DEF RowInv, CallFits
    <2>2. \A e \in EventIds : \A q \in PaymentIds, i \in Nat : Carries(q, i, e)' => Carries(q, i, e)
      BY <1>2, <2>1, OneMore
    <2> QED BY <1>2, <2>2 DEF EventOnce
  <1>3. ASSUME NEW x \in Procs, CallbackCommit(x) PROVE EventOnce'
    <2> DEFINE p == proc[x].payment
               event == proc[x].event
    <2>1. /\ p \in PaymentIds /\ proc[x].row \in Row /\ event \in EventIds
          /\ event \notin callbacks
      BY <1>3, InHand DEF RowInv, CallFits, CallbackCommit, At, EventRecorded
    <2>2. callbacks' = callbacks \cup {event}
      BY <1>3 DEF CallbackCommit
    <2>3. CASE UNCHANGED outbox
      BY <2>2, <2>3 DEF EventOnce, Carries
    <2>4. CASE addCallbackEvents(p, proc[x].row, event)
      <3>1. PICK n : n = Len(outbox[p]) + 1
        OBVIOUS
      <3>2. \A e \in EventIds : \A q \in PaymentIds, i \in Nat : Carries(q, i, e)' =>
               Carries(q, i, e) \/ (e = event /\ q = p /\ i = n)
        BY <2>1, <2>4, <3>1, TwoMore
      <3>3. \A q \in PaymentIds, i \in Nat : ~Carries(q, i, event)
        BY <2>1 DEF EventOnce
      <3> HIDE DEF p, event
      <3>4. ASSUME NEW e \in EventIds, NEW q \in PaymentIds, NEW i \in Nat, Carries(q, i, e)'
            PROVE  /\ e \in callbacks'
                   /\ \A r \in PaymentIds, j \in Nat : Carries(r, j, e)' => q = r /\ i = j
        <4>1. CASE e = event
          BY <2>2, <3>2, <3>3, <3>4, <4>1
        <4>2. CASE e # event
          BY <2>2, <3>2, <3>4, <4>2 DEF EventOnce
        <4> QED BY <4>1, <4>2
      <3> QED BY <3>4 DEF EventOnce
    <2> QED BY <1>3, <2>3, <2>4 DEF CallbackCommit
  <1> QED BY <1>1, <1>2, <1>3, TableWrites

\* However often and however concurrently a webhook is delivered, its event is on record
\* before a second delivery can commit: one outbox row at most is written for it.
THEOREM EventsCountOnce == Spec => []CallbackAppliedOnce
  <1>1. Init => EventOnce
    <2> SUFFICES ASSUME Init PROVE EventOnce
      OBVIOUS
    <2>1. \A p \in PaymentIds : outbox[p] = << >>
      BY DEF Init
    <2> QED BY <2>1 DEF EventOnce, Carries
  <1>2. RowInv /\ EventOnce /\ [Next]_vars => EventOnce'
    BY EventOnceStep
  <1>3. RowInv /\ EventOnce => CallbackAppliedOnce
    <2> SUFFICES ASSUME RowInv, EventOnce, NEW p \in PaymentIds, NEW q \in PaymentIds,
                        NEW i \in DOMAIN outbox[p], NEW j \in DOMAIN outbox[q],
                        outbox[p][i].event # None
                 PROVE  /\ outbox[p][i].event \in callbacks
                        /\ outbox[q][j].event = outbox[p][i].event => p = q /\ i = j
      BY DEF CallbackAppliedOnce
    <2>1. outbox[p] \in Seq(OutboxEvent) /\ outbox[q] \in Seq(OutboxEvent)
      BY DEF RowInv, TypeOK
    <2>2. i \in Nat /\ j \in Nat /\ outbox[p][i] \in OutboxEvent
      BY <2>1
    <2>3. outbox[p][i].event \in EventIds
      BY <2>2 DEF OutboxEvent
    <2> QED BY <2>2, <2>3 DEF EventOnce, Carries
  <1> QED BY <1>1, <1>2, <1>3, RowInvariance, PTL DEF Spec

-----------------------------------------------------------------------------
\* What is forgotten.  A row or a call that carries the provider's id of a payment hands
\* it on: a call begins with the id of the row it read, and no step of it drops the id.

\* The row a call will save has the provider's id of the row it read, if that has one.
IdKept(c) ==
    c.base # None /\ c.base.providerPaymentId # None =>
        c.row.providerPaymentId = c.base.providerPaymentId

IdsKept == \A x \in Procs : IsIdle(x) \/ IdKept(proc[x])

\* Process x goes on with the call c: one that carries an id still does, for its payment.
GoesOn(x, c) ==
    /\ proc' = [proc EXCEPT ![x] = c] /\ UNCHANGED payments
    /\ c.row \in Row /\ IdKept(c)
    /\ ~IsIdle(x) /\ proc[x].row.providerPaymentId # None =>
          /\ c.payment = proc[x].payment
          /\ c.row.providerPaymentId = proc[x].row.providerPaymentId

LEMMA StartGoesOn ==
    ASSUME NEW x \in Procs, NEW op, NEW pc, NEW p, NEW base, NEW row \in Row, NEW event,
           Start(x, op, pc, p, base, row, event), UNCHANGED payments,
           base # None /\ base.providerPaymentId # None =>
              row.providerPaymentId = base.providerPaymentId,
           ~IsIdle(x) /\ proc[x].row.providerPaymentId # None =>
              /\ p = proc[x].payment
              /\ row.providerPaymentId = proc[x].row.providerPaymentId
    PROVE  \E c : GoesOn(x, c)
  <1> PICK c : c = [op |-> op, pc |-> pc, payment |-> p, base |-> base, row |-> row,
                    event |-> event]
    OBVIOUS
  <1>1. c.payment = p /\ c.base = base /\ c.row = row
    OBVIOUS
  <1>2. proc' = [proc EXCEPT ![x] = c]
    BY DEF Start
  <1>3. GoesOn(x, c)
    BY ONLY <1>1, <1>2, UNCHANGED payments, row \in Row,
            base # None /\ base.providerPaymentId # None =>
               row.providerPaymentId = base.providerPaymentId,
            ~IsIdle(x) /\ proc[x].row.providerPaymentId # None =>
               /\ p = proc[x].payment
               /\ row.providerPaymentId = proc[x].row.providerPaymentId
       DEF GoesOn, IdKept
  <1> QED BY <1>3

LEMMA ClientGoesOn ==
    ASSUME RowInv, NEW x \in Requests, CreateStep(x) \/ ClientStep(x)
    PROVE  Finish(x) \/ (\E c : GoesOn(x, c)) \/ UNCHANGED <<proc, payments>>
  <1> x \in Procs
    BY DEF Procs
  <1>1. ASSUME NEW key \in Keys \cup {None}, NEW p \in PaymentIds, CreateRead(x, key, p)
        PROVE  \E c : GoesOn(x, c)
    <2>1. requestAuthorization(create(key)) \in Row
      BY CreateCoherent
    <2> QED BY <1>1, <2>1, StartGoesOn DEF CreateRead
  <1>2. ASSUME NEW p \in PaymentIds, AuthorizeRead(x, p) PROVE \E c : GoesOn(x, c)
    <2>1. payments[p] \in Row /\ Coherent(payments[p])
      BY <1>2, StoredRow DEF AuthorizeRead
    <2>2. authorize(payments[p]) \in Row /\ payments[p].providerPaymentId = None
      BY <1>2, <2>1, AuthorizeCoherent DEF AuthorizeRead, Coherent
    <2> QED BY <1>2, <2>2, StartGoesOn DEF AuthorizeRead
  <1>3. ASSUME NEW p \in PaymentIds, CancelRead(x, p) PROVE \E c : GoesOn(x, c)
    <2>1. payments[p] \in Row /\ Coherent(payments[p])
      BY <1>3, StoredRow DEF CancelRead
    <2>2. cancel(payments[p]) \in Row /\ payments[p].providerPaymentId = None
      BY <1>3, <2>1, CancelCoherent DEF CancelRead, Coherent, isCancellable
    <2> QED BY <1>3, <2>2, StartGoesOn DEF CancelRead
  <1>4. ASSUME NEW p \in PaymentIds, SubmitRead(x, p) PROVE \E c : GoesOn(x, c)
    BY <1>4, StoredRow, StartGoesOn DEF SubmitRead
  <1>5. ASSUME NEW pid \in ProviderIds, NEW status \in ReportedStatuses,
               SubmitCall(x, pid, status)
        PROVE  \E c : GoesOn(x, c)
    <2>1. /\ proc[x].row \in Row /\ Coherent(proc[x].row) /\ proc[x].row.status = "AUTHORIZED"
          /\ proc[x].row = proc[x].base
      BY <1>5, InHand DEF RowInv, CallFits, SubmitCall, At
    <2>2. submit(proc[x].row, pid) \in Row /\ proc[x].row.providerPaymentId = None
      BY <2>1, SubmitCoherent DEF Coherent
    <2>3. /\ Start(x, "submit", "commit", proc[x].payment, proc[x].base,
                   submit(proc[x].row, pid), None)
          /\ UNCHANGED payments
      BY <1>5 DEF SubmitCall
    <2> QED BY <2>1, <2>2, <2>3, StartGoesOn
  <1>6. CASE CreateStep(x)
    BY <1>1, <1>6 DEF CreateStep, CreateReplay, CreateCommit, CreateRaced
  <1>7. CASE ClientStep(x)
    BY <1>2, <1>3, <1>4, <1>5, <1>7
       DEF ClientStep, AuthorizeCommit, CancelCommit, SubmitCommit, CommitRow
  <1> QED BY <1>6, <1>7

LEMMA WebhookGoesOn ==
    ASSUME RowInv, NEW x \in Requests, CallbackStep(x)
    PROVE  Finish(x) \/ \E c : GoesOn(x, c)
  <1> x \in Procs
    BY DEF Procs
  <1>1. ASSUME NEW w \in webhooks, NEW p \in PaymentIds, CallbackRead(x, w, p)
        PROVE  \E c : GoesOn(x, c)
    <2>1. Exists(p) /\ payments[p].providerPaymentId # None
      BY <1>1, NoneFresh DEF RowInv, TypeOK, CallbackRead, findByProviderPaymentId
    <2>2. PICK row \in Applied(payments[p], w.status) :
             Start(x, "callback", "commit", p, payments[p], row, w.event)
      BY <1>1 DEF CallbackRead
    <2>3. row \in Row /\ row.providerPaymentId = payments[p].providerPaymentId
      BY <2>1, StoredRow, AppliedCoherent
    <2> QED BY <1>1, <2>2, <2>3, StartGoesOn DEF CallbackRead
  <1> QED BY <1>1 DEF CallbackStep, CallbackCommit

LEMMA PollGoesOn ==
    ASSUME RowInv, NEW x \in Workers, ReconcileStep(x)
    PROVE  Finish(x) \/ \E c : GoesOn(x, c)
  <1> x \in Procs
    BY DEF Procs
  <1>1. ASSUME NEW p \in PaymentIds, ReconcileRead(x, p) PROVE \E c : GoesOn(x, c)
    BY <1>1, StoredRow, StartGoesOn DEF ReconcileRead, findSubmitted
  <1>2. ASSUME ReconcilePoll(x) PROVE Finish(x) \/ \E c : GoesOn(x, c)
    <2>1. CallFits(proc[x])
      BY <1>2, InHand DEF RowInv, ReconcilePoll, At
    <2>2. /\ proc[x].row \in Row /\ Coherent(proc[x].row) /\ proc[x].row = proc[x].base
          /\ proc[x].row.providerPaymentId # None
      BY <1>2, <2>1 DEF CallFits, ReconcilePoll, At, Coherent
    <2>3. ASSUME NEW row \in Applied(proc[x].row,
                                     provider[proc[x].row.providerPaymentId].status),
                 Start(x, "reconcile", "commit", proc[x].payment, proc[x].base, row, None)
          PROVE  \E c : GoesOn(x, c)
      <3>1. row \in Row /\ row.providerPaymentId = proc[x].row.providerPaymentId
        BY <2>2, AppliedCoherent
      <3>2. UNCHANGED payments
        BY <1>2 DEF ReconcilePoll
      <3> QED BY <2>2, <2>3, <3>1, <3>2, StartGoesOn
    <2> QED BY <1>2, <2>3 DEF ReconcilePoll
  <1> QED BY <1>1, <1>2 DEF ReconcileStep, ReconcileCommit, CommitRow

\* A call ends, or goes on, or nothing happens to calls and rows.
LEMMA CallWrites ==
    ASSUME RowInv, [Next]_vars
    PROVE  \/ UNCHANGED <<proc, payments>>
           \/ \E x \in Procs : Finish(x)
           \/ \E x \in Procs : \E c : GoesOn(x, c)
  <1>1. ASSUME NEW x \in Procs, Abort(x) PROVE Finish(x)
    BY <1>1 DEF Abort
  <1>2. CASE ProviderStep \/ UNCHANGED vars
    BY <1>2 DEF ProviderStep, ProviderAdvance, ProviderNotify, vars
  <1> QED BY <1>1, <1>2, ClientGoesOn, WebhookGoesOn, PollGoesOn DEF Next, Procs

LEMMA IdsKeptStep ==
    ASSUME RowInv, IdsKept, [Next]_vars
    PROVE  IdsKept'
  <1> SUFFICES ASSUME NEW y \in Procs PROVE proc'[y] = Idle \/ IdKept(proc'[y])
    BY DEF IdsKept, IsIdle, IdKept
  <1>1. proc[y] = Idle \/ IdKept(proc[y])
    BY DEF IdsKept, IsIdle
  <1>2. CASE UNCHANGED <<proc, payments>>
    BY <1>1, <1>2
  <1>3. ASSUME NEW x \in Procs, Finish(x) PROVE proc'[y] = Idle \/ IdKept(proc'[y])
    <2>1. proc'[y] = IF y = x THEN Idle ELSE proc[y]
      BY <1>3 DEF Finish, RowInv, TypeOK
    <2> QED BY <1>1, <2>1
  <1>4. ASSUME NEW x \in Procs, NEW c, GoesOn(x, c) PROVE proc'[y] = Idle \/ IdKept(proc'[y])
    <2>1. proc'[y] = IF y = x THEN c ELSE proc[y]
      BY <1>4 DEF GoesOn, RowInv, TypeOK
    <2>2. IdKept(c)
      BY <1>4 DEF GoesOn
    <2> QED BY <1>1, <2>1, <2>2
  <1> QED BY <1>2, <1>3, <1>4, CallWrites

Carrier(x, p, pid) ==
    /\ proc[x].payment = p /\ proc[x].row # None /\ proc[x].row.providerPaymentId = pid

LEMMA ForgottenStep ==
    ASSUME RowInv, IdsKept, [Next]_vars, NEW pid \in ProviderIds, provider[pid] # None,
           Remembered(pid), ~Remembered(pid)', NEW p, p = provider[pid].payment
    PROVE  \E x \in Procs :
             /\ proc[x].payment = p /\ proc'[x] = Idle
             /\ IF payments'[p] = payments[p] THEN proc[x].row.providerPaymentId = pid
                ELSE proc[x].base # payments[p]
  <1>1. p \in PaymentIds /\ provider'[pid].payment = p /\ pid # None
    BY ProviderKept, NoneFresh DEF ProviderKeeps, RowInv, TypeOK, ProviderPayment
  <1>2. /\ ~ (payments'[p] # None /\ payments'[p].providerPaymentId = pid)
        /\ \A x \in Procs : ~ Carrier(x, p, pid)'
    BY <1>1 DEF Remembered, Exists, Carrier
  <1>3. \/ payments[p] # None /\ payments[p].providerPaymentId = pid
        \/ \E x \in Procs : Carrier(x, p, pid)
    BY DEF Remembered, Exists, Carrier
  <1>4. ~ UNCHANGED <<proc, payments>>
    BY <1>2, <1>3 DEF Carrier
  <1>5. ASSUME NEW x \in Procs, NEW c, GoesOn(x, c) PROVE FALSE
    <2>1. /\ payments' = payments
          /\ \A y \in Procs : proc'[y] = IF y = x THEN c ELSE proc[y]
      BY <1>5 DEF GoesOn, RowInv, TypeOK
    <2>2. PICK y \in Procs : Carrier(y, p, pid)
      BY <1>2, <1>3, <2>1
    <2>3. y = x
      BY <1>2, <2>1, <2>2 DEF Carrier
    <2>4. ~IsIdle(x) /\ proc[x].row.providerPaymentId # None
      BY <1>1, <2>2, <2>3 DEF Carrier, IsIdle, Idle
    <2>5. c.payment = p /\ c.row.providerPaymentId = pid /\ c.row # None
      BY <1>5, <2>2, <2>3, <2>4, NoneIsNoRow DEF GoesOn, Carrier
    <2> QED BY <1>2, <2>1, <2>3, <2>5 DEF Carrier
  <1>6. PICK x \in Procs : Finish(x)
    BY <1>4, <1>5, CallWrites
  <1>7. \A y \in Procs : proc'[y] = IF y = x THEN Idle ELSE proc[y]
    BY <1>6 DEF Finish, RowInv, TypeOK
  <1>8. ASSUME NEW y \in Procs, Carrier(y, p, pid) PROVE y = x
    BY <1>2, <1>7, <1>8 DEF Carrier
  <1>9. CASE payments'[p] = payments[p]
    <2>1. PICK y \in Procs : Carrier(y, p, pid)
      BY <1>2, <1>3, <1>9
    <2> QED BY <1>7, <1>8, <1>9, <2>1 DEF Carrier
  <1>10. CASE payments'[p] # payments[p]
    <2>1. PICK z \in Procs : /\ proc[z].op # "none"
                             /\ save(proc[z].payment, proc[z].row) /\ Finish(z)
      BY <1>10, SaveOrNot
    <2>2. CallFits(proc[z]) /\ ~IsIdle(z)
      BY <2>1, InHand DEF RowInv, IsIdle, Idle
    <2>3. proc[z].payment = p /\ payments'[p] = proc[z].row /\ proc'[z] = Idle
      BY <1>10, <2>1, <2>2 DEF save, Finish, RowInv, TypeOK, CallFits
    <2>4. proc[z].row # None
      BY <2>2, NoneIsNoRow DEF CallFits
    <2>5. proc[z].row.providerPaymentId # pid
      BY <1>2, <2>3, <2>4
    <2>6. proc[z].base # payments[p]
      <3> SUFFICES ASSUME proc[z].base = payments[p] PROVE FALSE
        OBVIOUS
      <3>1. IdKept(proc[z])
        BY <2>2 DEF IdsKept
      <3>2. PICK y \in Procs : Carrier(y, p, pid)
        BY <1>1, <1>3, <2>5, <3>1 DEF IdKept
      <3>3. y = z
        BY <1>7, <1>8, <2>2, <2>3, <3>2 DEF IsIdle
      <3> QED BY <2>5, <3>2, <3>3 DEF Carrier
    <2> QED BY <1>10, <2>3, <2>6
  <1> QED BY <1>9, <1>10

\* Of a payment the provider has taken, the id is on record or in the hands of a call that
\* will record it until that call is lost, or a save overwrites a row it did not read.
THEOREM IdsAreNotDropped == Spec => ForgottenOnlyByLoss
  <1>1. Init => IdsKept
    BY DEF Init, IdsKept, IsIdle
  <1>2. RowInv /\ IdsKept /\ [Next]_vars => IdsKept'
    BY IdsKeptStep
  <1>3. RowInv /\ IdsKept /\ [Next]_vars =>
        [\A pid \in ProviderIds :
            provider[pid] # None /\ Remembered(pid) /\ ~Remembered(pid)' =>
            LET p == provider[pid].payment IN
            \E x \in Procs :
               /\ proc[x].payment = p /\ proc'[x] = Idle
               /\ IF payments'[p] = payments[p] THEN proc[x].row.providerPaymentId = pid
                  ELSE proc[x].base # payments[p]]_vars
    BY ForgottenStep
  <1> QED BY <1>1, <1>2, <1>3, RowInvariance, PTL DEF Spec, ForgottenOnlyByLoss

=============================================================================
