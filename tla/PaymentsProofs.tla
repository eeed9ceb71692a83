---------------------------- MODULE PaymentsProofs ----------------------------
(***************************************************************************)
(* What holds of Payments for every set of payments, keys, provider ids,   *)
(* events, calls and workers.                                              *)
(*                                                                         *)
(* A stored row is only as good as the copies in flight that will replace  *)
(* it, so the invariants of the table are not inductive: they are proved   *)
(* together with what every call in flight holds.                          *)
(***************************************************************************)
EXTENDS Payments, TLAPS

\* The copy a call in flight will save is coherent by itself, and one edge of the
\* graph (or nothing) away from the row the call read.
CallFits(c) ==
    /\ c.op # "none"
    /\ c.payment \in PaymentIds
    /\ c.row \in Row /\ Coherent(c.row)
    /\ c.op # "create" => \/ c.row = c.base
                          \/ c.row.status \in PAYMENT_TRANSITIONS[c.base.status]
    /\ c.pc = "provider" => /\ c.row = c.base
                            /\ c.op = "submit" => c.row.status = "AUTHORIZED"
                            /\ c.op = "reconcile" => c.row.status = "SUBMITTED"
    /\ c.op = "callback" => c.event \in EventIds

CallsFit == \A x \in Procs : IsIdle(x) \/ CallFits(proc[x])

RowInv == TypeOK /\ NoTornRow /\ CallsFit

-----------------------------------------------------------------------------
\* The methods of the aggregate keep a row coherent when their guard holds.


\* What every method does to the row; the version has room for one more step.
LEMMA MovedToFields ==
    ASSUME NEW row \in Row, NEW status \in PaymentStatus, row.version # MaxVersion,
           NEW stamps \in SUBSET Stamps
    PROVE  /\ MovedTo(row, status, stamps) \in Row
           /\ MovedTo(row, status, stamps).status = status
           /\ MovedTo(row, status, stamps).version = row.version + 1
           /\ MovedTo(row, status, stamps).stamps = row.stamps \cup stamps
           /\ MovedTo(row, status, stamps).providerPaymentId = row.providerPaymentId
           /\ MovedTo(row, status, stamps).idempotencyKey = row.idempotencyKey
  <1>1. /\ row.version \in 1..6 /\ row.version + 1 \in 1..6
    BY DEF Row, MaxVersion
  <1>2. row.stamps \cup stamps \in SUBSET Stamps
    BY DEF Row
  <1>3. MovedTo(row, status, stamps) \in Row
    BY <1>1, <1>2 DEF MovedTo, Row, MaxVersion
  <1>4. MovedTo(row, status, stamps).status = status
    BY DEF MovedTo, Row
  <1>5. MovedTo(row, status, stamps).version = row.version + 1
    BY DEF MovedTo, Row
  <1>6. MovedTo(row, status, stamps).stamps = row.stamps \cup stamps
    BY DEF MovedTo, Row
  <1> QED BY <1>3, <1>4, <1>5, <1>6 DEF MovedTo, Row

LEMMA CreateCoherent ==
    ASSUME NEW key \in Keys \cup {None}
    PROVE  /\ requestAuthorization(create(key)) \in Row
           /\ Coherent(requestAuthorization(create(key)))
           /\ requestAuthorization(create(key)).idempotencyKey = key
  <1> DEFINE row == create(key)
  <1>1. /\ row \in Row /\ row.version = 1 /\ row.stamps = {}
        /\ row.providerPaymentId = None /\ row.idempotencyKey = key
    BY DEF create, Row, MaxVersion, PaymentStatus
  <1>2. /\ "AWAITING_AUTHORIZATION" \in PaymentStatus
        /\ requestAuthorization(row) = MovedTo(row, "AWAITING_AUTHORIZATION", {})
    BY DEF PaymentStatus, requestAuthorization
  <1> HIDE DEF row
  <1>3. /\ requestAuthorization(row) \in Row
        /\ requestAuthorization(row).status = "AWAITING_AUTHORIZATION"
        /\ requestAuthorization(row).version = 2
        /\ requestAuthorization(row).stamps = {}
        /\ requestAuthorization(row).providerPaymentId = None
        /\ requestAuthorization(row).idempotencyKey = key
    BY <1>1, <1>2, MovedToFields DEF MaxVersion
  <1>4. Coherent(requestAuthorization(row))
    BY <1>3 DEF Coherent
  <1> QED BY <1>3, <1>4 DEF row

LEMMA AuthorizeCoherent ==
    ASSUME NEW row \in Row, Coherent(row), row.status = "AWAITING_AUTHORIZATION"
    PROVE  /\ authorize(row) \in Row /\ Coherent(authorize(row))
           /\ authorize(row).status \in PAYMENT_TRANSITIONS[row.status]
           /\ authorize(row).providerPaymentId = None
           /\ authorize(row).idempotencyKey = row.idempotencyKey
  <1>1. row.version = 2 /\ row.stamps = {} /\ row.providerPaymentId = None
    BY DEF Coherent
  <1>2. /\ "AUTHORIZED" \in PaymentStatus /\ {"authorizedAt"} \in SUBSET Stamps
        /\ {} \cup {"authorizedAt"} = {"authorizedAt"}
    BY DEF PaymentStatus, Stamps
  <1>3. /\ authorize(row) \in Row
        /\ authorize(row).status = "AUTHORIZED" /\ authorize(row).version = 3
        /\ authorize(row).stamps = {"authorizedAt"} /\ authorize(row).providerPaymentId = None
        /\ authorize(row).idempotencyKey = row.idempotencyKey
    BY <1>1, <1>2, MovedToFields DEF authorize, MaxVersion
  <1>4. Coherent(authorize(row))
    BY <1>3 DEF Coherent
  <1>5. authorize(row).status \in PAYMENT_TRANSITIONS[row.status]
    BY <1>3 DEF PAYMENT_TRANSITIONS, PaymentStatus
  <1> QED BY <1>3, <1>4, <1>5

LEMMA CancelCoherent ==
    ASSUME NEW row \in Row, Coherent(row), isCancellable(row.status)
    PROVE  /\ cancel(row) \in Row /\ Coherent(cancel(row))
           /\ cancel(row).status \in PAYMENT_TRANSITIONS[row.status]
           /\ cancel(row).providerPaymentId = None
           /\ cancel(row).idempotencyKey = row.idempotencyKey
  <1>1. \/ row.status = "AWAITING_AUTHORIZATION" /\ row.version = 2 /\ row.stamps = {}
        \/ row.status = "AUTHORIZED" /\ row.version = 3 /\ row.stamps = {"authorizedAt"}
    BY DEF Coherent, isCancellable
  <1>2. row.providerPaymentId = None
    BY <1>1 DEF Coherent
  <1>3. /\ "CANCELLED" \in PaymentStatus /\ {"cancelledAt"} \in SUBSET Stamps
        /\ {} \cup {"cancelledAt"} = {"cancelledAt"}
        /\ {"authorizedAt"} \cup {"cancelledAt"} = {"authorizedAt", "cancelledAt"}
    BY DEF PaymentStatus, Stamps
  <1>4. /\ cancel(row) \in Row /\ cancel(row).status = "CANCELLED"
        /\ cancel(row).version = row.version + 1
        /\ cancel(row).stamps = row.stamps \cup {"cancelledAt"}
        /\ cancel(row).providerPaymentId = None
        /\ cancel(row).idempotencyKey = row.idempotencyKey
    BY <1>1, <1>2, <1>3, MovedToFields DEF cancel, MaxVersion
  <1>5. \/ cancel(row).version = 3 /\ cancel(row).stamps = {"cancelledAt"}
        \/ cancel(row).version = 4 /\ cancel(row).stamps = {"authorizedAt", "cancelledAt"}
    BY <1>1, <1>3, <1>4
  <1>6. Coherent(cancel(row))
    BY <1>4, <1>5 DEF Coherent
  <1>7. cancel(row).status \in PAYMENT_TRANSITIONS[row.status]
    BY <1>1, <1>4 DEF PAYMENT_TRANSITIONS, PaymentStatus
  <1> QED BY <1>4, <1>6, <1>7

LEMMA SubmitCoherent ==
    ASSUME NEW row \in Row, Coherent(row), row.status = "AUTHORIZED", NEW pid \in ProviderIds
    PROVE  /\ submit(row, pid) \in Row /\ Coherent(submit(row, pid))
           /\ submit(row, pid).status \in PAYMENT_TRANSITIONS[row.status]
           /\ submit(row, pid).status = "SUBMITTED"
           /\ submit(row, pid).providerPaymentId = pid
           /\ submit(row, pid).idempotencyKey = row.idempotencyKey
  <1> DEFINE moved == MovedTo(row, "SUBMITTED", {"submittedAt"})
  <1>1. row.version = 3 /\ row.stamps = {"authorizedAt"}
    BY DEF Coherent
  <1>2. /\ "SUBMITTED" \in PaymentStatus /\ {"submittedAt"} \in SUBSET Stamps
        /\ {"authorizedAt"} \cup {"submittedAt"} = {"authorizedAt", "submittedAt"}
    BY DEF PaymentStatus, Stamps
  <1>3. /\ moved \in Row /\ moved.status = "SUBMITTED" /\ moved.version = 4
        /\ moved.stamps = {"authorizedAt", "submittedAt"}
        /\ moved.idempotencyKey = row.idempotencyKey
    BY <1>1, <1>2, MovedToFields DEF MaxVersion
  <1> HIDE DEF moved
  <1>4. submit(row, pid) = [moved EXCEPT !.providerPaymentId = pid]
    BY DEF submit, moved
  <1>5. /\ submit(row, pid) \in Row
        /\ submit(row, pid).status = "SUBMITTED" /\ submit(row, pid).version = 4
        /\ submit(row, pid).stamps = {"authorizedAt", "submittedAt"}
        /\ submit(row, pid).providerPaymentId = pid
        /\ submit(row, pid).idempotencyKey = row.idempotencyKey
    BY <1>3, <1>4 DEF Row
  <1>6. Coherent(submit(row, pid))
    BY <1>5, NoneFresh DEF Coherent
  <1>7. submit(row, pid).status \in PAYMENT_TRANSITIONS[row.status]
    BY <1>5 DEF PAYMENT_TRANSITIONS, PaymentStatus
  <1> QED BY <1>5, <1>6, <1>7

\* Also when the provider reports something that is not a status of the domain.
LEMMA AppliedCoherent ==
    ASSUME NEW row \in Row, Coherent(row), row.providerPaymentId # None, NEW status,
           NEW new \in Applied(row, status)
    PROVE  /\ new \in Row /\ Coherent(new)
           /\ new = row \/ new.status \in PAYMENT_TRANSITIONS[row.status]
           /\ status \in NormalizedStatus /\ new.status = PROVIDER_STATUS_MAP[status]
           /\ new.providerPaymentId = row.providerPaymentId
           /\ new.idempotencyKey = row.idempotencyKey
  <1>0. status \in NormalizedStatus
    BY DEF Applied
  <1>1. CASE row.status = PROVIDER_STATUS_MAP[status]
    <2>1. row.status \notin PAYMENT_TRANSITIONS[row.status]
      BY DEF PAYMENT_TRANSITIONS, PaymentStatus, Row
    <2>2. new = row
      BY <1>1, <2>1 DEF Applied, canTransitionPayment
    <2> QED BY <1>0, <1>1, <2>2
  <1>2. CASE row.status # PROVIDER_STATUS_MAP[status]
    <2> DEFINE target == PROVIDER_STATUS_MAP[status]
               sent == {"authorizedAt", "submittedAt"}
    <2>1. new = applyProviderStatus(row, target) /\ target \in PAYMENT_TRANSITIONS[row.status]
      BY <1>2 DEF Applied, canTransitionPayment
    <2> HIDE DEF target
    <2>2. \/ row.status = "SUBMITTED" /\ row.version = 4
          \/ row.status = "ACCEPTED" /\ row.version = 5
      BY <2>1 DEF Coherent, PAYMENT_TRANSITIONS, PaymentStatus, Row
    <2>3. row.stamps = sent
      BY <2>2 DEF Coherent
    <2>4. /\ target \in {"ACCEPTED", "SETTLED", "REJECTED", "FAILED"}
          /\ target = "ACCEPTED" => row.status = "SUBMITTED"
      BY <2>1, <2>2 DEF PAYMENT_TRANSITIONS, PaymentStatus
    <2>5. /\ target \in PaymentStatus /\ {"settledAt"} \in SUBSET Stamps
          /\ {} \in SUBSET Stamps /\ sent \cup {} = sent
      BY <2>4 DEF PaymentStatus, Stamps
    <2> DEFINE stamps == IF target = "SETTLED" THEN {"settledAt"} ELSE {}
    <2>6. new = MovedTo(row, target, stamps)
      BY <2>1 DEF applyProviderStatus
    <2>7. /\ stamps \in SUBSET Stamps
          /\ sent \cup stamps = IF target = "SETTLED" THEN sent \cup {"settledAt"} ELSE sent
      BY <2>5
    <2> HIDE DEF stamps
    <2>8. /\ new \in Row /\ new.status = target /\ new.version = row.version + 1
          /\ new.stamps = row.stamps \cup stamps
          /\ new.providerPaymentId = row.providerPaymentId
          /\ new.idempotencyKey = row.idempotencyKey
      BY <2>2, <2>5, <2>6, <2>7, MovedToFields DEF MaxVersion
    <2>9. Coherent(new)
      BY <2>2, <2>3, <2>4, <2>7, <2>8 DEF Coherent
    <2> QED BY <1>0, <2>1, <2>8, <2>9 DEF target
  <1> QED BY <1>1, <1>2

-----------------------------------------------------------------------------
\* What the steps have in common: a call begins or goes on, a call ends, a row is
\* saved, an event is added.

LEMMA Began ==
    ASSUME TypeOK, CallsFit, NEW x \in Procs, NEW c \in Call, CallFits(c),
           proc' = [proc EXCEPT ![x] = c]
    PROVE  proc' \in [Procs -> Call] /\ CallsFit'
  <1>1. proc \in [Procs -> Call] /\ \A y \in Procs : proc'[y] = IF y = x THEN c ELSE proc[y]
    BY DEF TypeOK
  <1>2. proc' \in [Procs -> Call]
    BY DEF TypeOK
  <1>3. ASSUME NEW y \in Procs PROVE proc'[y] = Idle \/ CallFits(proc'[y])
    BY <1>1, <1>3 DEF CallsFit, IsIdle
  <1> QED BY <1>2, <1>3 DEF CallsFit, IsIdle

LEMMA Ended ==
    ASSUME TypeOK, CallsFit, NEW x \in Procs, Finish(x)
    PROVE  proc' \in [Procs -> Call] /\ CallsFit'
  <1>1. proc \in [Procs -> Call] /\ \A y \in Procs : proc'[y] = IF y = x THEN Idle ELSE proc[y]
    BY DEF TypeOK, Finish
  <1>2. proc' \in [Procs -> Call]
    BY <1>1 DEF TypeOK, Finish, Idle, Call, Ops
  <1> QED BY <1>1, <1>2 DEF CallsFit, IsIdle

LEMMA Saved ==
    ASSUME TypeOK, NoTornRow, NEW p \in PaymentIds, NEW row \in Row, Coherent(row),
           save(p, row)
    PROVE  payments' \in [PaymentIds -> Row \cup {None}] /\ NoTornRow'
  <1>1. /\ payments \in [PaymentIds -> Row \cup {None}]
        /\ \A q \in PaymentIds : payments'[q] = IF q = p THEN row ELSE payments[q]
    BY DEF TypeOK, save
  <1>2. payments' \in [PaymentIds -> Row \cup {None}]
    BY <1>1 DEF save
  <1> QED BY <1>1, <1>2 DEF NoTornRow, Exists

LEMMA EventType ==
    ASSUME NEW type \in EventTypes, NEW row \in Row, NEW event \in EventIds \cup {None}
    PROVE  DomainEvent(type, row, event) \in OutboxEvent
  BY DEF DomainEvent, OutboxEvent, Row

LEMMA Added ==
    ASSUME TypeOK, NEW p \in PaymentIds, NEW type \in EventTypes, NEW row \in Row,
           addOutboxEvent(p, type, row)
    PROVE  outbox' \in [PaymentIds -> Seq(OutboxEvent)]
  <1>1. outbox \in [PaymentIds -> Seq(OutboxEvent)]
    BY DEF TypeOK
  <1>2. DomainEvent(type, row, None) \in OutboxEvent
    BY EventType
  <1>3. Append(outbox[p], DomainEvent(type, row, None)) \in Seq(OutboxEvent)
    BY <1>1, <1>2
  <1> QED BY <1>1, <1>3 DEF addOutboxEvent

\* The call in hand, once its operation is known.
LEMMA InHand ==
    ASSUME CallsFit, NEW x \in Procs, proc[x].op # "none"
    PROVE  CallFits(proc[x])
  BY DEF CallsFit, IsIdle, Idle

LEMMA CommitRowInv ==
    ASSUME RowInv, NEW x \in Procs, NEW op \in Ops \ {"none"}, NEW type \in EventTypes,
           CommitRow(x, op, type)
    PROVE  RowInv'
  <1>1. CallFits(proc[x])
    BY InHand DEF RowInv, CommitRow, At
  <1>2. proc[x].payment \in PaymentIds /\ proc[x].row \in Row /\ Coherent(proc[x].row)
    BY <1>1 DEF CallFits
  <1>3. payments' \in [PaymentIds -> Row \cup {None}] /\ NoTornRow'
    BY <1>2, Saved DEF RowInv, CommitRow
  <1>4. outbox' \in [PaymentIds -> Seq(OutboxEvent)]
    BY <1>2, Added DEF RowInv, CommitRow
  <1>5. proc' \in [Procs -> Call] /\ CallsFit'
    BY Ended DEF RowInv, CommitRow
  <1> QED BY <1>3, <1>4, <1>5 DEF RowInv, TypeOK, CommitRow


-----------------------------------------------------------------------------
\* Every step keeps the rows and the calls well formed.

LEMMA CreateRowInv ==
    ASSUME RowInv, NEW x \in Requests, CreateStep(x)
    PROVE  RowInv'
  <1> x \in Procs
    BY DEF Procs
  <1>1. ASSUME NEW key \in Keys, NEW p \in PaymentIds, CreateReplay(x, key, p)
        PROVE  RowInv'
    <2>1. answers' \in SUBSET (Keys \X PaymentIds)
      BY <1>1 DEF CreateReplay, RowInv, TypeOK
    <2> QED BY <1>1, <2>1 DEF CreateReplay, RowInv, TypeOK, NoTornRow, Exists, CallsFit, IsIdle
  <1>2. ASSUME NEW key \in Keys \cup {None}, NEW p \in PaymentIds, CreateRead(x, key, p)
        PROVE  RowInv'
    <2> DEFINE new == requestAuthorization(create(key))
               c   == [op |-> "create", pc |-> "commit", payment |-> p, base |-> None,
                       row |-> new, event |-> None]
    <2>1. new \in Row /\ Coherent(new)
      BY CreateCoherent
    <2> HIDE DEF new
    <2>2. c \in Call /\ CallFits(c)
      BY <2>1 DEF Call, Ops, CallFits
    <2>3. proc' = [proc EXCEPT ![x] = c]
      BY <1>2 DEF CreateRead, Start, new
    <2> HIDE DEF c
    <2>4. proc' \in [Procs -> Call] /\ CallsFit'
      BY <2>2, <2>3, Began DEF RowInv
    <2> QED BY <1>2, <2>4 DEF CreateRead, RowInv, TypeOK, NoTornRow, Exists
  <1>3. ASSUME CreateCommit(x) PROVE RowInv'
    <2>1. CallFits(proc[x])
      BY <1>3, InHand DEF RowInv, CreateCommit, At
    <2>2. proc[x].payment \in PaymentIds /\ proc[x].row \in Row /\ Coherent(proc[x].row)
      BY <2>1 DEF CallFits
    <2>3. payments' \in [PaymentIds -> Row \cup {None}] /\ NoTornRow'
      BY <1>3, <2>2, Saved DEF RowInv, CreateCommit
    <2>4. outbox' \in [PaymentIds -> Seq(OutboxEvent)]
      BY <1>3, <2>2, Added DEF RowInv, CreateCommit, EventTypes
    <2>5. proc' \in [Procs -> Call] /\ CallsFit'
      BY <1>3, Ended DEF RowInv, CreateCommit
    <2>6. answers' \in SUBSET (Keys \X PaymentIds)
      BY <1>3, <2>2 DEF CreateCommit, RowInv, TypeOK, Row
    <2> QED BY <1>3, <2>3, <2>4, <2>5, <2>6 DEF RowInv, TypeOK, CreateCommit
  <1>4. ASSUME NEW key \in Keys, NEW raced \in PaymentIds, CreateRaced(x, key, raced)
        PROVE  RowInv'
    <2>1. answers' \in SUBSET (Keys \X PaymentIds)
      BY <1>4 DEF CreateRaced, RowInv, TypeOK
    <2>2. proc' \in [Procs -> Call] /\ CallsFit'
      BY <1>4, Ended DEF RowInv, CreateRaced
    <2> QED BY <1>4, <2>1, <2>2 DEF CreateRaced, RowInv, TypeOK, NoTornRow, Exists
  <1> QED BY <1>1, <1>2, <1>3, <1>4 DEF CreateStep

\* A call that has just read payment p and goes on with a fitting copy.
LEMMA ReadRowInv ==
    ASSUME RowInv, NEW x \in Procs, NEW op \in Ops \ {"none"}, NEW pc \in {"provider", "commit"},
           NEW p \in PaymentIds, NEW base \in Row \cup {None}, NEW row \in Row, Coherent(row),
           row = base \/ row.status \in PAYMENT_TRANSITIONS[base.status],
           pc = "provider" => /\ row = base
                              /\ op = "submit" => row.status = "AUTHORIZED"
                              /\ op = "reconcile" => row.status = "SUBMITTED",
           NEW event \in EventIds \cup {None}, op = "callback" => event \in EventIds,
           Start(x, op, pc, p, base, row, event)
    PROVE  proc' \in [Procs -> Call] /\ CallsFit'
  <1> DEFINE c == [op |-> op, pc |-> pc, payment |-> p, base |-> base, row |-> row,
                   event |-> event]
  <1>1. c \in Call
    BY DEF Call
  <1>2. CallFits(c)
    BY DEF CallFits
  <1>3. proc' = [proc EXCEPT ![x] = c]
    BY DEF Start
  <1> HIDE DEF c
  <1> QED BY <1>1, <1>2, <1>3, Began DEF RowInv

\* A payment that exists is a coherent row.
LEMMA StoredRow ==
    ASSUME RowInv, NEW p \in PaymentIds, Exists(p)
    PROVE  payments[p] \in Row /\ Coherent(payments[p])
  BY DEF RowInv, TypeOK, NoTornRow, Exists

LEMMA ClientRowInv ==
    ASSUME RowInv, NEW x \in Requests, ClientStep(x)
    PROVE  RowInv'
  <1> x \in Procs
    BY DEF Procs
  <1>1. ASSUME NEW p \in PaymentIds, AuthorizeRead(x, p) PROVE RowInv'
    <2>1. proc' \in [Procs -> Call] /\ CallsFit'
      BY <1>1, StoredRow, AuthorizeCoherent, ReadRowInv DEF AuthorizeRead, Ops
    <2> QED BY <1>1, <2>1 DEF AuthorizeRead, RowInv, TypeOK, NoTornRow, Exists
  <1>2. ASSUME NEW p \in PaymentIds, CancelRead(x, p) PROVE RowInv'
    <2>1. proc' \in [Procs -> Call] /\ CallsFit'
      BY <1>2, StoredRow, CancelCoherent, ReadRowInv DEF CancelRead, Ops
    <2> QED BY <1>2, <2>1 DEF CancelRead, RowInv, TypeOK, NoTornRow, Exists
  <1>3. ASSUME NEW p \in PaymentIds, SubmitRead(x, p) PROVE RowInv'
    <2>1. proc' \in [Procs -> Call] /\ CallsFit'
      <3>1. payments[p] \in Row /\ Coherent(payments[p])
        BY <1>3, StoredRow DEF SubmitRead
      <3>2. "submit" \in Ops \ {"none"}
        BY DEF Ops
      <3> QED BY <1>3, <3>1, <3>2, ReadRowInv DEF SubmitRead
    <2> QED BY <1>3, <2>1 DEF SubmitRead, RowInv, TypeOK, NoTornRow, Exists
  <1>4. ASSUME NEW pid \in ProviderIds, NEW status \in ReportedStatuses,
               SubmitCall(x, pid, status)
        PROVE  RowInv'
    <2>1. CallFits(proc[x])
      BY <1>4, InHand DEF RowInv, SubmitCall, At
    <2>2. /\ proc[x].payment \in PaymentIds /\ proc[x].row \in Row /\ Coherent(proc[x].row)
          /\ proc[x].row = proc[x].base /\ proc[x].row.status = "AUTHORIZED"
      BY <1>4, <2>1 DEF CallFits, SubmitCall, At
    <2>3. proc' \in [Procs -> Call] /\ CallsFit'
      <3>1. PICK row : row = submit(proc[x].row, pid)
        OBVIOUS
      <3>2. /\ row \in Row /\ Coherent(row)
            /\ row.status \in PAYMENT_TRANSITIONS[proc[x].base.status]
        BY <1>4, <2>2, <3>1, SubmitCoherent DEF SubmitCall
      <3>3. PICK p, base : p = proc[x].payment /\ base = proc[x].base
        OBVIOUS
      <3>4. Start(x, "submit", "commit", p, base, row, None)
        BY <1>4, <3>1, <3>3 DEF SubmitCall
      <3>5. "submit" \in Ops \ {"none"}
        BY DEF Ops
      <3> HIDE DEF Start, Coherent
      <3> QED BY <2>2, <3>2, <3>3, <3>4, <3>5, ReadRowInv
    <2>4. provider' \in [ProviderIds -> ProviderPayment \cup {None}]
      BY <1>4, <2>2 DEF SubmitCall, RowInv, TypeOK, ProviderPayment
    <2> QED BY <1>4, <2>3, <2>4 DEF SubmitCall, RowInv, TypeOK, NoTornRow, Exists
  <1>5. ASSUME AuthorizeCommit(x) \/ CancelCommit(x) \/ SubmitCommit(x) PROVE RowInv'
    BY <1>5, CommitRowInv DEF AuthorizeCommit, CancelCommit, SubmitCommit, Ops, EventTypes
  <1> QED BY <1>1, <1>2, <1>3, <1>4, <1>5 DEF ClientStep

LEMMA CallbackRowInv ==
    ASSUME RowInv, NEW x \in Requests, CallbackStep(x)
    PROVE  RowInv'
  <1> x \in Procs
    BY DEF Procs
  <1>1. ASSUME NEW w \in webhooks, NEW p \in PaymentIds, CallbackRead(x, w, p) PROVE RowInv'
    <2>1. /\ w.event \in EventIds /\ w.providerPaymentId \in ProviderIds
          /\ Exists(p) /\ payments[p].providerPaymentId # None
      BY <1>1, NoneFresh DEF RowInv, TypeOK, CallbackRead, findByProviderPaymentId
    <2>2. payments[p] \in Row /\ Coherent(payments[p])
      BY <2>1, StoredRow
    <2>3. PICK row \in Applied(payments[p], w.status) :
             Start(x, "callback", "commit", p, payments[p], row, w.event)
      BY <1>1 DEF CallbackRead
    <2>4. /\ row \in Row /\ Coherent(row)
          /\ row = payments[p] \/ row.status \in PAYMENT_TRANSITIONS[payments[p].status]
      BY <2>1, <2>2, AppliedCoherent
    <2>5. proc' \in [Procs -> Call] /\ CallsFit'
      BY <2>1, <2>2, <2>3, <2>4, ReadRowInv DEF Ops
    <2> QED BY <1>1, <2>5 DEF CallbackRead, RowInv, TypeOK, NoTornRow, Exists
  <1>2. ASSUME CallbackCommit(x) PROVE RowInv'
    <2> DEFINE p == proc[x].payment
               row == proc[x].row
    <2>1. CallFits(proc[x])
      BY <1>2, InHand DEF RowInv, CallbackCommit, At
    <2>2. p \in PaymentIds /\ row \in Row /\ Coherent(row) /\ proc[x].event \in EventIds
      BY <1>2, <2>1 DEF CallFits, CallbackCommit, At
    <2>3. proc' \in [Procs -> Call] /\ CallsFit'
      BY <1>2, Ended DEF RowInv, CallbackCommit
    <2>4. callbacks' \in SUBSET EventIds
      BY <1>2, <2>2 DEF CallbackCommit, RowInv, TypeOK
    <2>5. payments' \in [PaymentIds -> Row \cup {None}] /\ NoTornRow'
      <3>1. CASE proc[x].row = proc[x].base
        BY <1>2, <3>1 DEF CallbackCommit, RowInv, TypeOK, NoTornRow, Exists
      <3>2. CASE proc[x].row # proc[x].base
        BY <1>2, <2>2, <3>2, Saved DEF CallbackCommit, RowInv
      <3> QED BY <3>1, <3>2
    <2>6. outbox' \in [PaymentIds -> Seq(OutboxEvent)]
      <3> DEFINE first  == DomainEvent("PROVIDER_CALLBACK_RECEIVED", row, proc[x].event)
                 second == DomainEvent("PAYMENT_STATUS_CHANGED", row, None)
      <3>1. outbox \in [PaymentIds -> Seq(OutboxEvent)]
        BY DEF RowInv, TypeOK
      <3>2. first \in OutboxEvent /\ second \in OutboxEvent
        BY <2>2, EventType DEF EventTypes
      <3> HIDE DEF first, second
      <3>3. Append(Append(outbox[p], first), second) \in Seq(OutboxEvent)
        BY <2>2, <3>1, <3>2
      <3>4. \/ outbox' = outbox
            \/ outbox' = [outbox EXCEPT ![p] = Append(Append(outbox[p], first), second)]
        BY <1>2 DEF CallbackCommit, addCallbackEvents, first, second
      <3> QED BY <3>1, <3>3, <3>4
    <2> QED BY <1>2, <2>3, <2>4, <2>5, <2>6 DEF CallbackCommit, RowInv, TypeOK
  <1> QED BY <1>1, <1>2 DEF CallbackStep

LEMMA ReconcileRowInv ==
    ASSUME RowInv, NEW x \in Workers, ReconcileStep(x)
    PROVE  RowInv'
  <1> x \in Procs
    BY DEF Procs
  <1>1. ASSUME NEW p \in PaymentIds, ReconcileRead(x, p) PROVE RowInv'
    <2>1. proc' \in [Procs -> Call] /\ CallsFit'
      BY <1>1, StoredRow, ReadRowInv DEF ReconcileRead, findSubmitted, Ops
    <2> QED BY <1>1, <2>1 DEF ReconcileRead, RowInv, TypeOK, NoTornRow, Exists
  <1>2. ASSUME ReconcilePoll(x) PROVE RowInv'
    <2>1. CallFits(proc[x])
      BY <1>2, InHand DEF RowInv, ReconcilePoll, At
    <2>2. /\ proc[x].payment \in PaymentIds /\ proc[x].row \in Row /\ Coherent(proc[x].row)
          /\ proc[x].row = proc[x].base /\ proc[x].row.providerPaymentId # None
      BY <1>2, <2>1 DEF CallFits, ReconcilePoll, At, Coherent
    <2>3. proc' \in [Procs -> Call] /\ CallsFit'
      <3>1. CASE Finish(x)
        BY <3>1, Ended DEF RowInv
      <3>2. CASE \E row \in Applied(proc[x].row,
                                    provider[proc[x].row.providerPaymentId].status) :
                   Start(x, "reconcile", "commit", proc[x].payment, proc[x].base, row, None)
        <4>1. PICK row \in Applied(proc[x].row,
                                   provider[proc[x].row.providerPaymentId].status) :
                     Start(x, "reconcile", "commit", proc[x].payment, proc[x].base, row, None)
          BY <3>2
        <4>2. /\ row \in Row /\ Coherent(row)
              /\ row = proc[x].base \/ row.status \in PAYMENT_TRANSITIONS[proc[x].base.status]
          BY <2>2, AppliedCoherent
        <4>3. PICK p, base : p = proc[x].payment /\ base = proc[x].base
          OBVIOUS
        <4>4. Start(x, "reconcile", "commit", p, base, row, None)
          BY <4>1, <4>3
        <4>5. "reconcile" \in Ops \ {"none"}
          BY DEF Ops
        <4> HIDE DEF Start, Coherent, Applied
        <4> QED BY <2>2, <4>2, <4>3, <4>4, <4>5, ReadRowInv
      <3> QED BY <1>2, <3>1, <3>2 DEF ReconcilePoll
    <2> QED BY <1>2, <2>3 DEF ReconcilePoll, RowInv, TypeOK, NoTornRow, Exists
  <1>3. ASSUME ReconcileCommit(x) PROVE RowInv'
    BY <1>3, CommitRowInv DEF ReconcileCommit, Ops, EventTypes
  <1> QED BY <1>1, <1>2, <1>3 DEF ReconcileStep

LEMMA OtherRowInv ==
    ASSUME RowInv, (\E x \in Procs : Abort(x)) \/ ProviderStep
    PROVE  RowInv'
  <1>1. ASSUME NEW x \in Procs, Abort(x) PROVE RowInv'
    <2>1. proc' \in [Procs -> Call] /\ CallsFit'
      BY <1>1, Ended DEF Abort, RowInv
    <2> QED BY <1>1, <2>1 DEF Abort, RowInv, TypeOK, NoTornRow, Exists
  <1>2. ASSUME NEW pid \in ProviderIds, NEW status \in ReportedStatuses,
               ProviderAdvance(pid, status)
        PROVE  RowInv'
    <2>1. provider' \in [ProviderIds -> ProviderPayment \cup {None}]
      BY <1>2 DEF ProviderAdvance, RowInv, TypeOK, ProviderPayment
    <2> QED BY <1>2, <2>1 DEF ProviderAdvance, RowInv, TypeOK, NoTornRow, Exists, CallsFit, IsIdle
  <1>3. ASSUME NEW pid \in ProviderIds, NEW event \in EventIds, ProviderNotify(pid, event)
        PROVE  RowInv'
    <2>1. webhooks' \in SUBSET [event: EventIds, providerPaymentId: ProviderIds,
                                status: WebhookStatuses]
      BY <1>3, NoneIsNoRow DEF ProviderNotify, WebhookStatuses, RowInv, TypeOK, ProviderPayment
    <2> QED BY <1>3, <2>1 DEF ProviderNotify, RowInv, TypeOK, NoTornRow, Exists, CallsFit, IsIdle
  <1> QED BY <1>1, <1>2, <1>3 DEF ProviderStep

LEMMA RowInvInit == Init => RowInv
  <1> SUFFICES ASSUME Init PROVE RowInv
    OBVIOUS
  <1>1. << >> \in Seq(OutboxEvent) /\ Idle \in Call
    BY DEF Idle, Call, Ops
  <1>2. TypeOK
    BY <1>1 DEF Init, TypeOK
  <1> QED BY <1>2 DEF Init, RowInv, NoTornRow, Exists, CallsFit, IsIdle

LEMMA RowInvStep == RowInv /\ [Next]_vars => RowInv'
  <1>1. ASSUME RowInv, Next PROVE RowInv'
    BY <1>1, CreateRowInv, ClientRowInv, CallbackRowInv, ReconcileRowInv, OtherRowInv DEF Next
  <1>2. ASSUME RowInv, UNCHANGED vars PROVE RowInv'
    BY <1>2 DEF vars, RowInv, TypeOK, NoTornRow, Exists, CallsFit, IsIdle
  <1> QED BY <1>1, <1>2

LEMMA RowInvariance == Spec => []RowInv
  BY RowInvInit, RowInvStep, PTL DEF Spec

\* Only saves change the table.
LEMMA SaveOrNot ==
    ASSUME [Next]_vars
    PROVE  \/ UNCHANGED payments
           \/ \E x \in Procs : /\ proc[x].op # "none"
                               /\ save(proc[x].payment, proc[x].row) /\ Finish(x)
  <1>1. ASSUME NEW x \in Requests, CreateStep(x) \/ ClientStep(x) \/ CallbackStep(x)
        PROVE  \/ UNCHANGED payments
               \/ /\ proc[x].op # "none"
                  /\ save(proc[x].payment, proc[x].row) /\ Finish(x)
    <2>1. CASE CreateStep(x)
      BY <2>1 DEF CreateStep, CreateReplay, CreateRead, CreateCommit, CreateRaced, At
    <2>2. CASE ClientStep(x)
      BY <2>2 DEF ClientStep, AuthorizeRead, CancelRead, SubmitRead, SubmitCall,
                  AuthorizeCommit, CancelCommit, SubmitCommit, CommitRow, At
    <2>3. CASE CallbackStep(x)
      BY <2>3 DEF CallbackStep, CallbackRead, CallbackCommit, At
    <2> QED BY <1>1, <2>1, <2>2, <2>3
  <1>2. ASSUME NEW x \in Workers, ReconcileStep(x)
        PROVE  \/ UNCHANGED payments
               \/ /\ proc[x].op # "none"
                  /\ save(proc[x].payment, proc[x].row) /\ Finish(x)
    BY <1>2 DEF ReconcileStep, ReconcileRead, ReconcilePoll, ReconcileCommit, CommitRow, At
  <1>3. CASE (\E x \in Procs : Abort(x)) \/ ProviderStep \/ UNCHANGED vars
    BY <1>3 DEF Abort, ProviderStep, ProviderAdvance, ProviderNotify, vars
  <1> QED BY <1>1, <1>2, <1>3 DEF Next, Procs

\* Every table, call and history keeps its type for any number of payments, calls and
\* workers; in particular versions stay within the longest path of the status graph,
\* although saves are blind and calls overlap.
THEOREM TypeCorrect == Spec => []TypeOK
  BY RowInvariance, PTL DEF RowInv

\* Lost updates never mix the fields of two calls: a stored payment is always one that
\* a single sequence of legal calls leaves.
THEOREM RowsAreWhole == Spec => []NoTornRow
  BY RowInvariance, PTL DEF RowInv

(***************************************************************************)
(* Creation with an idempotency key: no two payments share a key, answers  *)
(* name the holder, and creation implements the register of                *)
(* IdempotentRegister.  With the same invariant: what is left of the       *)
(* status graph when calls overlap.                                        *)
(***************************************************************************)

\* A payment being created is not stored yet and is nobody else's; any other call
\* is about a stored payment and keeps its idempotency key.
KeysFit ==
    \A x \in Procs :
        IF proc[x].op = "create"
        THEN /\ ~Exists(proc[x].payment)
             /\ \A y \in Procs : y # x => proc[y].payment # proc[x].payment
        ELSE ~IsIdle(x) => /\ Exists(proc[x].payment)
                           /\ proc[x].row.idempotencyKey
                                 = payments[proc[x].payment].idempotencyKey

KeyInv == KeysFit /\ CreateIsIdempotent

-----------------------------------------------------------------------------
\* Steps that leave the keys of the table alone.

SameKeys ==
    \A p \in PaymentIds :
        /\ Exists(p)' <=> Exists(p)
        /\ Exists(p) => payments'[p].idempotencyKey = payments[p].idempotencyKey

LEMMA SameKeysUnchanged ==
    ASSUME UNCHANGED payments PROVE SameKeys
  BY DEF SameKeys, Exists

LEMMA SameKeysSave ==
    ASSUME TypeOK, NEW p \in PaymentIds, NEW row \in Row, Exists(p), save(p, row),
           row.idempotencyKey = payments[p].idempotencyKey
    PROVE  SameKeys
  BY NoneIsNoRow DEF SameKeys, Exists, TypeOK, save

LEMMA SameKeysHasKey ==
    ASSUME SameKeys, NEW p \in PaymentIds, NEW key
    PROVE  HasKey(p, key)' <=> HasKey(p, key)
  BY DEF SameKeys, HasKey

\* Answers are only ever added, each one naming the holder of its key.
LEMMA SameKeysAnswers ==
    ASSUME RowInv, CreateIsIdempotent, SameKeys,
           \/ UNCHANGED answers
           \/ \E key \in Keys, p \in PaymentIds :
                 HasKey(p, key) /\ answers' = answers \cup {<<key, p>>}
    PROVE  CreateIsIdempotent'
  <1>1. \A p, q \in PaymentIds, key \in Keys : HasKey(p, key)' /\ HasKey(q, key)' => p = q
    BY SameKeysHasKey DEF CreateIsIdempotent
  <1>2. ASSUME NEW a \in answers' PROVE HasKey(a[2], a[1])'
    <2>1. a[2] \in PaymentIds /\ HasKey(a[2], a[1])
      BY <1>2 DEF CreateIsIdempotent, RowInv, TypeOK
    <2> QED BY <2>1, SameKeysHasKey
  <1> QED BY <1>1, <1>2 DEF CreateIsIdempotent

\* The call ends, or goes on about the same payment with the same key.
LEMMA KeysGoOn ==
    ASSUME RowInv, KeysFit, SameKeys, NEW x \in Procs, NEW c, c.op # "create",
           proc' = [proc EXCEPT ![x] = c],
           \/ c = Idle
           \/ /\ c.payment \in PaymentIds /\ Exists(c.payment)
              /\ c.row.idempotencyKey = payments[c.payment].idempotencyKey
    PROVE  KeysFit'
  <1>1. \A y \in Procs : proc'[y] = IF y = x THEN c ELSE proc[y]
    BY DEF RowInv, TypeOK
  <1>2. \A y \in Procs : proc[y] # Idle => proc[y].payment \in PaymentIds
    BY DEF RowInv, CallsFit, IsIdle, CallFits
  <1>3. ASSUME NEW y \in Procs, proc'[y].op = "create"
        PROVE  /\ ~Exists(proc[y].payment)'
               /\ \A z \in Procs : z # y => proc'[z].payment # proc'[y].payment
    <2>1. y # x /\ proc'[y] = proc[y] /\ proc[y] # Idle /\ ~Exists(proc[y].payment)
      BY <1>1, <1>3 DEF KeysFit, Idle
    <2>2. proc[y].payment \in PaymentIds /\ ~Exists(proc[y].payment)'
      BY <1>2, <2>1 DEF SameKeys, Exists
    <2>3. proc[y].payment # None
      BY <2>2, NoneFresh
    <2>4. c.payment # proc[y].payment
      BY <2>1, <2>3 DEF Idle
    <2>5. \A z \in Procs : z # y => proc[z].payment # proc[y].payment
      BY <1>3, <2>1 DEF KeysFit
    <2>6. \A z \in Procs : z # y => proc'[z].payment # proc'[y].payment
      BY <1>1, <2>1, <2>4, <2>5
    <2> QED BY <2>2, <2>6
  <1>4. ASSUME NEW y \in Procs, proc'[y].op # "create", proc'[y] # Idle
        PROVE  /\ Exists(proc[y].payment)'
               /\ proc'[y].row.idempotencyKey = payments'[proc'[y].payment].idempotencyKey
    <2>1. CASE y = x
      BY <1>1, <1>4, <2>1 DEF SameKeys, Exists
    <2>2. CASE y # x
      <3>1. /\ proc'[y] = proc[y] /\ proc[y].payment \in PaymentIds
            /\ Exists(proc[y].payment)
            /\ proc[y].row.idempotencyKey = payments[proc[y].payment].idempotencyKey
        BY <1>1, <1>2, <1>4, <2>2 DEF KeysFit, IsIdle
      <3> QED BY <3>1 DEF SameKeys, Exists
    <2> QED BY <2>1, <2>2
  <1> QED BY <1>3, <1>4 DEF KeysFit, IsIdle, Exists

-----------------------------------------------------------------------------
\* Every step keeps the keys in order.

LEMMA EndedKeys ==
    ASSUME RowInv, KeysFit, SameKeys, NEW x \in Procs, Finish(x)
    PROVE  KeysFit'
  BY KeysGoOn DEF Finish, Idle

\* A call begins, or goes on after the provider, with a copy that has the same key.
LEMMA StartedKeys ==
    ASSUME RowInv, KeysFit, SameKeys, NEW x \in Procs, NEW op, op # "create", NEW pc,
           NEW p \in PaymentIds, NEW base, NEW row, NEW event,
           Start(x, op, pc, p, base, row, event),
           Exists(p), row.idempotencyKey = payments[p].idempotencyKey
    PROVE  KeysFit'
  <1> DEFINE c == [op |-> op, pc |-> pc, payment |-> p, base |-> base, row |-> row,
                   event |-> event]
  <1>1. c.op # "create" /\ c.payment = p /\ c.row = row
    OBVIOUS
  <1>2. proc' = [proc EXCEPT ![x] = c]
    BY DEF Start
  <1> HIDE DEF c
  <1> QED BY <1>1, <1>2, KeysGoOn

\* The payment of a call that is not a create is stored, with the key of the copy.
LEMMA InHandKey ==
    ASSUME RowInv, KeysFit, NEW x \in Procs, proc[x].op \notin {"none", "create"}
    PROVE  /\ proc[x].payment \in PaymentIds /\ Exists(proc[x].payment)
           /\ proc[x].row \in Row
           /\ proc[x].row.idempotencyKey = payments[proc[x].payment].idempotencyKey
  <1>1. CallFits(proc[x])
    BY InHand DEF RowInv
  <1> QED BY <1>1 DEF CallFits, KeysFit, IsIdle, Idle

LEMMA CommitRowKeys ==
    ASSUME RowInv, KeyInv, NEW x \in Procs, NEW op, op \notin {"none", "create"}, NEW type,
           CommitRow(x, op, type)
    PROVE  KeyInv' /\ SameKeys
  <1>1. SameKeys
    BY InHandKey, SameKeysSave DEF KeyInv, RowInv, CommitRow, At
  <1>2. KeysFit'
    BY <1>1, EndedKeys DEF KeyInv, CommitRow
  <1>3. CreateIsIdempotent'
    BY <1>1, SameKeysAnswers DEF KeyInv, CommitRow
  <1> QED BY <1>1, <1>2, <1>3 DEF KeyInv

\* What a create does to the keys and the answers: nothing, an answer that names the
\* holder, or a new holder for a free key with the first answer.
Claims(key, p) ==
    /\ \A q \in PaymentIds : ~HasKey(q, key)
    /\ \A q \in PaymentIds, k \in Keys : HasKey(q, k)' <=> HasKey(q, k) \/ (q = p /\ k = key)
    /\ answers' = answers \cup {<<key, p>>}

Tells(key, p) == SameKeys /\ HasKey(p, key) /\ answers' = answers \cup {<<key, p>>}

SilentOnKeys ==
    (\A q \in PaymentIds, k \in Keys : HasKey(q, k)' <=> HasKey(q, k)) /\ UNCHANGED answers

LEMMA CreateCommitKeys ==
    ASSUME RowInv, KeyInv, NEW x \in Procs, CreateCommit(x)
    PROVE  /\ KeyInv'
           /\ SilentOnKeys \/ \E key \in Keys, p \in PaymentIds : Claims(key, p)
  <1> DEFINE p   == proc[x].payment
             row == proc[x].row
             key == row.idempotencyKey
  <1>1. p \in PaymentIds /\ row \in Row /\ key \in Keys \cup {None}
    <2>1. CallFits(proc[x])
      BY InHand DEF RowInv, CreateCommit, At
    <2> QED BY <2>1 DEF CallFits, Row
  <1>2. ~Exists(p) /\ \A y \in Procs : y # x => proc[y].payment # p
    BY DEF KeyInv, KeysFit, CreateCommit, At
  <1>3. \A q \in PaymentIds : payments'[q] = IF q = p THEN row ELSE payments[q]
    BY <1>1 DEF RowInv, TypeOK, CreateCommit, save
  <1>4. \A q \in PaymentIds, k \in Keys : HasKey(q, k)' <=> HasKey(q, k) \/ (q = p /\ k = key)
    BY <1>1, <1>2, <1>3, NoneIsNoRow DEF HasKey, Exists
  <1>5. key # None => \A q \in PaymentIds : ~HasKey(q, key)
    BY DEF CreateCommit, KeyTaken
  <1>6. answers' = IF key = None THEN answers ELSE answers \cup {<<key, p>>}
    BY DEF CreateCommit
  <1> HIDE DEF p, row, key
  <1>7. SilentOnKeys \/ \E k \in Keys, q \in PaymentIds : Claims(k, q)
    <2>1. CASE key = None
      BY <1>4, <1>6, <2>1, NoneFresh DEF SilentOnKeys
    <2>2. CASE key # None
      BY <1>1, <1>4, <1>5, <1>6, <2>2 DEF Claims
    <2> QED BY <2>1, <2>2
  <1>8. CreateIsIdempotent'
    <2>1. \A q, r \in PaymentIds, k \in Keys : HasKey(q, k)' /\ HasKey(r, k)' => q = r
      BY <1>4, <1>5, NoneFresh DEF KeyInv, CreateIsIdempotent
    <2>2. ASSUME NEW a \in answers' PROVE HasKey(a[2], a[1])'
      <3>1. CASE a \in answers
        BY <1>4, <3>1 DEF KeyInv, CreateIsIdempotent, RowInv, TypeOK
      <3>2. CASE a \notin answers
        BY <1>1, <1>4, <1>6, <2>2, <3>2
      <3> QED BY <3>1, <3>2
    <2> QED BY <2>1, <2>2 DEF CreateIsIdempotent
  <1>9. KeysFit'
    <2>1. \A y \in Procs : proc'[y] = IF y = x THEN Idle ELSE proc[y]
      BY DEF RowInv, TypeOK, CreateCommit, Finish
    <2>2. \A y \in Procs : y # x => proc[y].payment # p
      BY <1>2
    <2>3. ASSUME NEW y \in Procs, proc'[y].op = "create"
          PROVE  /\ ~Exists(proc[y].payment)'
                 /\ \A z \in Procs : z # y => proc'[z].payment # proc'[y].payment
      <3>1. y # x /\ proc'[y] = proc[y] /\ ~Exists(proc[y].payment) /\ proc[y] # Idle
        BY <2>1, <2>3 DEF KeyInv, KeysFit, Idle
      <3>2. proc[y].payment \in PaymentIds
        BY <3>1 DEF RowInv, CallsFit, IsIdle, CallFits
      <3>3. ~Exists(proc[y].payment)'
        BY <1>3, <2>2, <3>1, <3>2 DEF Exists
      <3>4. \A z \in Procs : z # y => proc[z].payment # proc[y].payment
        BY <2>3, <3>1 DEF KeyInv, KeysFit
      <3>5. \A z \in Procs : z # y => proc'[z].payment # proc'[y].payment
        BY <2>1, <3>1, <3>2, <3>4, NoneFresh DEF Idle
      <3> QED BY <3>3, <3>5
    <2>4. ASSUME NEW y \in Procs, proc'[y].op # "create", proc'[y] # Idle
          PROVE  /\ Exists(proc[y].payment)'
                 /\ proc'[y].row.idempotencyKey = payments'[proc'[y].payment].idempotencyKey
      <3>1. y # x /\ proc'[y] = proc[y]
        BY <2>1, <2>4
      <3>2. /\ Exists(proc[y].payment)
            /\ proc[y].row.idempotencyKey = payments[proc[y].payment].idempotencyKey
        BY <2>4, <3>1 DEF KeyInv, KeysFit, IsIdle
      <3>3. proc[y].payment \in PaymentIds /\ proc[y].payment # p
        BY <2>2, <2>4, <3>1 DEF RowInv, CallsFit, IsIdle, CallFits
      <3> QED BY <1>3, <3>1, <3>2, <3>3 DEF Exists
    <2> QED BY <2>3, <2>4 DEF KeysFit, IsIdle, Exists
  <1> QED BY <1>7, <1>8, <1>9 DEF KeyInv


\* The new payment belongs to the create that will insert it.
LEMMA CreateReadKeys ==
    ASSUME RowInv, KeyInv, NEW x \in Procs, NEW key, NEW p \in PaymentIds,
           CreateRead(x, key, p)
    PROVE  KeyInv' /\ SilentOnKeys
  <1> DEFINE c == [op |-> "create", pc |-> "commit", payment |-> p, base |-> None,
                   row |-> requestAuthorization(create(key)), event |-> None]
  <1>1. \A y \in Procs : proc'[y] = IF y = x THEN c ELSE proc[y]
    BY DEF RowInv, TypeOK, CreateRead, Start
  <1>2. c.op = "create" /\ c.payment = p
    OBVIOUS
  <1> HIDE DEF c
  <1>3. ~Exists(p) /\ \A y \in Procs : proc[y].payment # p
    BY DEF CreateRead
  <1>4. /\ \A q : Exists(q)' <=> Exists(q)
        /\ \A q, k : HasKey(q, k)' <=> HasKey(q, k)
        /\ UNCHANGED <<payments, answers>>
    BY DEF CreateRead, Exists, HasKey
  <1>5. ASSUME NEW y \in Procs, proc'[y].op = "create"
        PROVE  /\ ~Exists(proc[y].payment)'
               /\ \A z \in Procs : z # y => proc'[z].payment # proc'[y].payment
    <2>1. CASE y = x
      BY <1>1, <1>2, <1>3, <2>1, <1>4 DEF Exists
    <2>2. CASE y # x
      <3>1. proc'[y] = proc[y] /\ proc[y].op = "create"
        BY <1>1, <1>5, <2>2
      <3>2. /\ ~Exists(proc[y].payment)
            /\ \A z \in Procs : z # y => proc[z].payment # proc[y].payment
        BY <3>1 DEF KeyInv, KeysFit
      <3> QED BY <1>1, <1>2, <1>3, <1>4, <3>1, <3>2 DEF Exists
    <2> QED BY <2>1, <2>2
  <1>6. ASSUME NEW y \in Procs, proc'[y].op # "create", proc'[y] # Idle
        PROVE  /\ Exists(proc[y].payment)'
               /\ proc'[y].row.idempotencyKey = payments'[proc'[y].payment].idempotencyKey
    <2>1. proc'[y] = proc[y]
      BY <1>1, <1>2, <1>6
    <2>2. /\ Exists(proc[y].payment)
          /\ proc[y].row.idempotencyKey = payments[proc[y].payment].idempotencyKey
      BY <1>6, <2>1 DEF KeyInv, KeysFit, IsIdle
    <2> QED BY <1>4, <2>1, <2>2 DEF Exists
  <1>7. KeysFit'
    BY <1>5, <1>6 DEF KeysFit, IsIdle, Exists
  <1>8. CreateIsIdempotent'
    BY <1>4 DEF KeyInv, CreateIsIdempotent
  <1> QED BY <1>4, <1>7, <1>8 DEF KeyInv, SilentOnKeys

LEMMA CreateKeys ==
    ASSUME RowInv, KeyInv, NEW x \in Requests, CreateStep(x)
    PROVE  /\ KeyInv'
           /\ \/ SilentOnKeys
              \/ \E key \in Keys, p \in PaymentIds : Claims(key, p) \/ Tells(key, p)
  <1> x \in Procs
    BY DEF Procs
  <1> DEFINE Goal == /\ KeyInv'
                     /\ \/ SilentOnKeys
                        \/ \E key \in Keys, p \in PaymentIds : Claims(key, p) \/ Tells(key, p)
  <1>1. ASSUME NEW key \in Keys, NEW p \in PaymentIds, CreateReplay(x, key, p) PROVE Goal
    <2>1. SameKeys
      BY <1>1, SameKeysUnchanged DEF CreateReplay
    <2>2. Tells(key, p)
      BY <1>1, <2>1 DEF CreateReplay, Tells
    <2>3. CreateIsIdempotent'
      BY <2>1, <2>2, SameKeysAnswers DEF KeyInv, Tells
    <2>4. KeysFit'
      BY <1>1 DEF CreateReplay, KeyInv, KeysFit, IsIdle, Exists
    <2> QED BY <2>2, <2>3, <2>4 DEF KeyInv
  <1>2. ASSUME NEW key \in Keys \cup {None}, NEW p \in PaymentIds, CreateRead(x, key, p)
        PROVE  Goal
    BY <1>2, CreateReadKeys
  <1>3. ASSUME CreateCommit(x) PROVE Goal
    BY <1>3, CreateCommitKeys
  <1>4. ASSUME NEW key \in Keys, NEW raced \in PaymentIds, CreateRaced(x, key, raced)
        PROVE  Goal
    <2>1. SameKeys
      BY <1>4, SameKeysUnchanged DEF CreateRaced
    <2>2. Tells(key, raced)
      BY <1>4, <2>1 DEF CreateRaced, Tells
    <2>3. CreateIsIdempotent'
      BY <2>1, <2>2, SameKeysAnswers DEF KeyInv, Tells
    <2>4. KeysFit'
      BY <1>4, <2>1, EndedKeys DEF CreateRaced, KeyInv
    <2> QED BY <2>2, <2>3, <2>4 DEF KeyInv
  <1> QED BY <1>1, <1>2, <1>3, <1>4 DEF CreateStep

\* Steps that leave the answers alone and the keys of the table as they are.
LEMMA SameKeysSilent ==
    ASSUME RowInv, KeyInv, SameKeys, KeysFit', UNCHANGED answers
    PROVE  KeyInv' /\ SilentOnKeys
  BY SameKeysHasKey, SameKeysAnswers DEF KeyInv, SilentOnKeys

LEMMA ClientKeys ==
    ASSUME RowInv, KeyInv, NEW x \in Requests, ClientStep(x)
    PROVE  KeyInv' /\ SilentOnKeys
  <1> x \in Procs
    BY DEF Procs
  <1> KeysFit
    BY DEF KeyInv
  <1>1. ASSUME NEW p \in PaymentIds, AuthorizeRead(x, p) \/ CancelRead(x, p) \/ SubmitRead(x, p)
        PROVE  KeyInv' /\ SilentOnKeys
    <2>1. SameKeys /\ UNCHANGED answers /\ Exists(p)
      BY <1>1, SameKeysUnchanged DEF AuthorizeRead, CancelRead, SubmitRead
    <2>2. payments[p] \in Row /\ Coherent(payments[p])
      BY <2>1, StoredRow
    <2>3. CASE AuthorizeRead(x, p)
      <3>1. KeysFit'
        BY <2>1, <2>2, <2>3, AuthorizeCoherent, StartedKeys DEF AuthorizeRead
      <3> QED BY <2>1, <3>1, SameKeysSilent
    <2>4. CASE CancelRead(x, p)
      <3>1. KeysFit'
        BY <2>1, <2>2, <2>4, CancelCoherent, StartedKeys DEF CancelRead
      <3> QED BY <2>1, <3>1, SameKeysSilent
    <2>5. CASE SubmitRead(x, p)
      <3>1. KeysFit'
        BY <2>1, <2>2, <2>5, StartedKeys DEF SubmitRead
      <3> QED BY <2>1, <3>1, SameKeysSilent
    <2> QED BY <1>1, <2>3, <2>4, <2>5
  <1>2. ASSUME NEW pid \in ProviderIds, NEW status \in ReportedStatuses,
               SubmitCall(x, pid, status)
        PROVE  KeyInv' /\ SilentOnKeys
    <2>1. SameKeys /\ UNCHANGED answers
      BY <1>2, SameKeysUnchanged DEF SubmitCall
    <2>2. /\ proc[x].payment \in PaymentIds /\ Exists(proc[x].payment) /\ proc[x].row \in Row
          /\ proc[x].row.idempotencyKey = payments[proc[x].payment].idempotencyKey
      BY <1>2, InHandKey DEF SubmitCall, At
    <2>3. Coherent(proc[x].row) /\ proc[x].row.status = "AUTHORIZED"
      BY <1>2, InHand DEF RowInv, CallFits, SubmitCall, At
    <2>4. submit(proc[x].row, pid).idempotencyKey = payments[proc[x].payment].idempotencyKey
      BY <2>2, <2>3, SubmitCoherent
    <2>5. KeysFit'
      BY <1>2, <2>1, <2>2, <2>4, StartedKeys DEF SubmitCall
    <2> QED BY <2>1, <2>5, SameKeysSilent
  <1>3. ASSUME AuthorizeCommit(x) \/ CancelCommit(x) \/ SubmitCommit(x)
        PROVE  KeyInv' /\ SilentOnKeys
    <2>1. PICK op \in {"authorize", "cancel", "submit"}, type \in EventTypes :
             CommitRow(x, op, type)
      BY <1>3 DEF AuthorizeCommit, CancelCommit, SubmitCommit, EventTypes
    <2>2. KeyInv' /\ SameKeys /\ UNCHANGED answers
      BY <2>1, CommitRowKeys DEF CommitRow
    <2> QED BY <2>2, SameKeysSilent DEF KeyInv
  <1> QED BY <1>1, <1>2, <1>3 DEF ClientStep

LEMMA CallbackKeys ==
    ASSUME RowInv, KeyInv, NEW x \in Requests, CallbackStep(x)
    PROVE  KeyInv' /\ SilentOnKeys
  <1> x \in Procs
    BY DEF Procs
  <1> KeysFit
    BY DEF KeyInv
  <1>1. ASSUME NEW w \in webhooks, NEW p \in PaymentIds, CallbackRead(x, w, p)
        PROVE  KeyInv' /\ SilentOnKeys
    <2>1. SameKeys /\ UNCHANGED answers
      BY <1>1, SameKeysUnchanged DEF CallbackRead
    <2>2. Exists(p) /\ payments[p].providerPaymentId # None
      BY <1>1, NoneFresh DEF RowInv, TypeOK, CallbackRead, findByProviderPaymentId
    <2>3. payments[p] \in Row /\ Coherent(payments[p])
      BY <2>2, StoredRow
    <2>4. PICK row \in Applied(payments[p], w.status) :
             Start(x, "callback", "commit", p, payments[p], row, w.event)
      BY <1>1 DEF CallbackRead
    <2>5. row.idempotencyKey = payments[p].idempotencyKey
      BY <2>2, <2>3, AppliedCoherent
    <2>6. KeysFit'
      BY <2>1, <2>2, <2>4, <2>5, StartedKeys
    <2> QED BY <2>1, <2>6, SameKeysSilent
  <1>2. ASSUME CallbackCommit(x) PROVE KeyInv' /\ SilentOnKeys
    <2>1. /\ proc[x].payment \in PaymentIds /\ Exists(proc[x].payment) /\ proc[x].row \in Row
          /\ proc[x].row.idempotencyKey = payments[proc[x].payment].idempotencyKey
      BY <1>2, InHandKey DEF CallbackCommit, At
    <2>2. SameKeys
      <3>1. CASE proc[x].row = proc[x].base
        BY <1>2, <3>1, SameKeysUnchanged DEF CallbackCommit
      <3>2. CASE proc[x].row # proc[x].base
        BY <1>2, <2>1, <3>2, SameKeysSave DEF CallbackCommit, RowInv
      <3> QED BY <3>1, <3>2
    <2>3. KeysFit' /\ UNCHANGED answers
      BY <1>2, <2>2, EndedKeys DEF CallbackCommit
    <2> QED BY <2>2, <2>3, SameKeysSilent
  <1> QED BY <1>1, <1>2 DEF CallbackStep

LEMMA ReconcileKeys ==
    ASSUME RowInv, KeyInv, NEW x \in Workers, ReconcileStep(x)
    PROVE  KeyInv' /\ SilentOnKeys
  <1> x \in Procs
    BY DEF Procs
  <1> KeysFit
    BY DEF KeyInv
  <1>1. ASSUME NEW p \in PaymentIds, ReconcileRead(x, p) PROVE KeyInv' /\ SilentOnKeys
    <2>1. SameKeys /\ UNCHANGED answers /\ Exists(p)
      BY <1>1, SameKeysUnchanged DEF ReconcileRead, findSubmitted
    <2>2. KeysFit'
      BY <1>1, <2>1, StartedKeys DEF ReconcileRead
    <2> QED BY <2>1, <2>2, SameKeysSilent
  <1>2. ASSUME ReconcilePoll(x) PROVE KeyInv' /\ SilentOnKeys
    <2>1. SameKeys /\ UNCHANGED answers
      BY <1>2, SameKeysUnchanged DEF ReconcilePoll
    <2>2. /\ proc[x].payment \in PaymentIds /\ Exists(proc[x].payment) /\ proc[x].row \in Row
          /\ proc[x].row.idempotencyKey = payments[proc[x].payment].idempotencyKey
      BY <1>2, InHandKey DEF ReconcilePoll, At
    <2>3. Coherent(proc[x].row) /\ proc[x].row.providerPaymentId # None
      BY <1>2, InHand DEF RowInv, CallFits, ReconcilePoll, At, Coherent
    <2>4. KeysFit'
      <3>1. CASE Finish(x)
        BY <2>1, <3>1, EndedKeys
      <3>2. ASSUME NEW row \in Applied(proc[x].row,
                                       provider[proc[x].row.providerPaymentId].status),
                   Start(x, "reconcile", "commit", proc[x].payment, proc[x].base, row, None)
            PROVE  KeysFit'
        <4>1. row.idempotencyKey = payments[proc[x].payment].idempotencyKey
          BY <2>2, <2>3, AppliedCoherent
        <4> QED BY <2>1, <2>2, <3>2, <4>1, StartedKeys
      <3> QED BY <1>2, <3>1, <3>2 DEF ReconcilePoll
    <2> QED BY <2>1, <2>4, SameKeysSilent
  <1>3. ASSUME ReconcileCommit(x) PROVE KeyInv' /\ SilentOnKeys
    <2>1. KeyInv' /\ SameKeys /\ UNCHANGED answers
      BY <1>3, CommitRowKeys DEF ReconcileCommit, CommitRow
    <2> QED BY <2>1, SameKeysSilent DEF KeyInv
  <1> QED BY <1>1, <1>2, <1>3 DEF ReconcileStep

LEMMA OtherKeys ==
    ASSUME RowInv, KeyInv, \/ \E x \in Procs : Abort(x)
                           \/ ProviderStep
                           \/ UNCHANGED vars
    PROVE  KeyInv' /\ SilentOnKeys
  <1>1. SameKeys /\ UNCHANGED answers
    BY SameKeysUnchanged DEF Abort, ProviderStep, ProviderAdvance, ProviderNotify, vars
  <1>2. KeysFit'
    <2>1. ASSUME NEW x \in Procs, Abort(x) PROVE KeysFit'
      BY <1>1, <2>1, EndedKeys DEF KeyInv, Abort
    <2>2. CASE ProviderStep \/ UNCHANGED vars
      <3>1. UNCHANGED <<payments, proc>>
        BY <2>2 DEF ProviderStep, ProviderAdvance, ProviderNotify, vars
      <3> QED BY <3>1 DEF KeyInv, KeysFit, IsIdle, Exists
    <2> QED BY <2>1, <2>2
  <1> QED BY <1>1, <1>2, SameKeysSilent

LEMMA KeyInvInit == Init => KeyInv
  BY NoneFresh DEF Init, KeyInv, KeysFit, CreateIsIdempotent, HasKey, Exists, IsIdle, Idle

LEMMA KeyInvStep ==
    ASSUME RowInv, KeyInv, [Next]_vars
    PROVE  /\ KeyInv'
           /\ \/ SilentOnKeys
              \/ \E key \in Keys, p \in PaymentIds : Claims(key, p) \/ Tells(key, p)
  BY CreateKeys, ClientKeys, CallbackKeys, ReconcileKeys, OtherKeys DEF Next

LEMMA Invariance == Spec => [](RowInv /\ KeyInv)
  <1>1. Init => RowInv /\ KeyInv
    BY RowInvInit, KeyInvInit
  <1>2. RowInv /\ KeyInv /\ [Next]_vars => (RowInv /\ KeyInv)'
    BY RowInvStep, KeyInvStep
  <1> QED BY <1>1, <1>2, PTL DEF Spec

\* Creates that retry or race, for any number of keys, payments and calls: no two
\* payments share a key and every answer ever given names the holder of its key.
THEOREM CreateCorrect == Spec => []CreateIsIdempotent
  BY Invariance, PTL DEF KeyInv

-----------------------------------------------------------------------------
\* Creation implements the register.

holders == [key \in Keys |-> KeyHolder(key)]

LEMMA HolderIs ==
    ASSUME CreateIsIdempotent, NEW key \in Keys, NEW p \in PaymentIds, HasKey(p, key)
    PROVE  holders[key] = p
  <1>1. \A q \in PaymentIds : HasKey(q, key) => q = p
    BY DEF CreateIsIdempotent
  <1> QED BY <1>1 DEF holders, KeyHolder

LEMMA HolderIsNone ==
    ASSUME NEW key \in Keys, \A p \in PaymentIds : ~HasKey(p, key)
    PROVE  holders[key] = None
  BY DEF holders, KeyHolder

LEMMA HolderIsNext ==
    ASSUME CreateIsIdempotent', NEW key \in Keys, NEW p \in PaymentIds, HasKey(p, key)'
    PROVE  holders'[key] = p
  <1>1. \A q \in PaymentIds : HasKey(q, key)' => q = p
    BY DEF CreateIsIdempotent
  <1> QED BY <1>1 DEF holders, KeyHolder

LEMMA HolderIsNoneNext ==
    ASSUME NEW key \in Keys, \A p \in PaymentIds : ~HasKey(p, key)'
    PROVE  holders'[key] = None
  BY DEF holders, KeyHolder

\* A key that stays with its payment, or stays free, keeps its holder.
LEMMA HolderStays ==
    ASSUME CreateIsIdempotent, CreateIsIdempotent', NEW key \in Keys,
           \A p \in PaymentIds : HasKey(p, key)' <=> HasKey(p, key)
    PROVE  holders'[key] = holders[key]
  <1>1. CASE \E p \in PaymentIds : HasKey(p, key)
    BY <1>1, HolderIs, HolderIsNext
  <1>2. CASE \A p \in PaymentIds : ~HasKey(p, key)
    BY <1>2, HolderIsNone, HolderIsNoneNext
  <1> QED BY <1>1, <1>2

LEMMA RegisterInit == Init => Register!Init
  <1> SUFFICES ASSUME Init PROVE Register!Init
    OBVIOUS
  <1>1. \A key \in Keys : KeyHolder(key) = None
    BY DEF Init, KeyHolder, HasKey, Exists
  <1> QED BY <1>1 DEF Init, Register!Init

LEMMA RegisterStep ==
    ASSUME RowInv, KeyInv, [Next]_vars
    PROVE  [Register!Next]_<<holders, answers>>
  <1>1. /\ CreateIsIdempotent /\ CreateIsIdempotent'
        /\ \/ SilentOnKeys
           \/ \E key \in Keys, p \in PaymentIds : Claims(key, p) \/ Tells(key, p)
    BY KeyInvStep DEF KeyInv
  <1>2. /\ holders \in [Keys -> PaymentIds \cup {None}]
        /\ DOMAIN holders = Keys /\ DOMAIN holders' = Keys
        /\ holders  = [key \in Keys |-> holders[key]]
        /\ holders' = [key \in Keys |-> holders'[key]]
    BY DEF holders, KeyHolder
  <1>3. CASE SilentOnKeys
    <2>1. \A key \in Keys : holders'[key] = holders[key]
      BY <1>1, <1>3, HolderStays DEF SilentOnKeys
    <2> QED BY <1>2, <1>3, <2>1 DEF SilentOnKeys
  <1>4. ASSUME NEW key \in Keys, NEW p \in PaymentIds, Tells(key, p)
        PROVE  Register!Tell(key)
    <2>1. \A k \in Keys : holders'[k] = holders[k]
      BY <1>1, <1>4, SameKeysHasKey, HolderStays DEF Tells
    <2>2. holders[key] = p
      BY <1>1, <1>4, HolderIs DEF Tells
    <2>3. holders' = holders
      BY <1>2, <2>1
    <2>4. holders[key] # None
      BY <2>2, NoneFresh
    <2> QED BY <1>4, <2>2, <2>3, <2>4 DEF Tells, Register!Tell, holders
  <1>5. ASSUME NEW key \in Keys, NEW p \in PaymentIds, Claims(key, p)
        PROVE  Register!Claim(key, p)
    <2>1. holders[key] = None
      BY <1>5, HolderIsNone DEF Claims
    <2>2. holders'[key] = p
      BY <1>1, <1>5, HolderIsNext DEF Claims
    <2>3. \A k \in Keys : k # key => holders'[k] = holders[k]
      BY <1>1, <1>5, HolderStays DEF Claims
    <2>4. holders' = [holders EXCEPT ![key] = p]
      BY <1>2, <2>2, <2>3
    <2> QED BY <1>5, <2>1, <2>4 DEF Claims, Register!Claim, holders
  <1> QED BY <1>1, <1>3, <1>4, <1>5 DEF Register!Next

\* Creation with a key implements the register: the first insert decides for good.
THEOREM CreateRefines == Spec => CreateImplementsRegister
  <1>1. Init => Register!Init
    BY RegisterInit
  <1>2. RowInv /\ KeyInv /\ [Next]_vars => [Register!Next]_<<holders, answers>>
    BY RegisterStep
  <1> QED BY <1>1, <1>2, Invariance, PTL DEF Spec, CreateImplementsRegister, Register!Spec, holders

-----------------------------------------------------------------------------
\* The status graph.

LEMMA SaveIsLegal ==
    ASSUME RowInv, KeyInv, NEW x \in Procs, proc[x].op # "none",
           save(proc[x].payment, proc[x].row), Finish(x),
           NEW p \in PaymentIds, Exists(p), payments'[p] # payments[p]
    PROVE  /\ proc[x].payment = p /\ proc[x].row = payments'[p] /\ proc'[x] = Idle
           /\ proc[x].base = payments[p] =>
                 payments'[p].status \in PAYMENT_TRANSITIONS[payments[p].status]
  <1>1. CallFits(proc[x])
    BY InHand DEF RowInv
  <1>2. proc[x].payment = p /\ proc[x].row = payments'[p]
    BY <1>1 DEF RowInv, TypeOK, save, CallFits
  <1>3. proc[x].op # "create"
    BY <1>2 DEF KeyInv, KeysFit
  <1>4. proc'[x] = Idle
    BY DEF RowInv, TypeOK, Finish
  <1>5. proc[x].row = proc[x].base
        \/ proc[x].row.status \in PAYMENT_TRANSITIONS[proc[x].base.status]
    BY <1>1, <1>3 DEF CallFits
  <1> QED BY <1>2, <1>4, <1>5

\* However calls overlap, a stored payment leaves the status graph only by a save whose
\* call had read another row than the one it replaces.
THEOREM GraphBrokenOnlyByStaleSaves == Spec => LegalUnlessStale
  <1>1. ASSUME RowInv, KeyInv, [Next]_vars, NEW p \in PaymentIds, Exists(p),
               payments'[p] # payments[p]
        PROVE  \E x \in Procs :
                  /\ proc[x].payment = p /\ proc[x].row = payments'[p] /\ proc'[x] = Idle
                  /\ proc[x].base = payments[p] =>
                        payments'[p].status \in PAYMENT_TRANSITIONS[payments[p].status]
    BY <1>1, SaveOrNot, SaveIsLegal
  <1>2. RowInv /\ KeyInv /\ [Next]_vars =>
           [\A p \in PaymentIds : Exists(p) /\ payments'[p] # payments[p] =>
               \E x \in Procs :
                  /\ proc[x].payment = p /\ proc[x].row = payments'[p] /\ proc'[x] = Idle
                  /\ proc[x].base = payments[p] =>
                        payments'[p].status \in PAYMENT_TRANSITIONS[payments[p].status]]_vars
    BY <1>1
  <1> QED BY <1>2, Invariance, PTL DEF Spec, LegalUnlessStale

\* A call saves a copy of another row than the one it replaces.
StaleSave ==
    \E x \in Procs, p \in PaymentIds :
        /\ Exists(p) /\ payments'[p] # payments[p]
        /\ proc[x].payment = p /\ proc[x].row = payments'[p] /\ proc'[x] = Idle
        /\ proc[x].base # payments[p]

\* Blind saves are the only way out of a terminal status: were a save refused when the row
\* is no longer the one that was read, no overlap of calls would leave it.
THEOREM TerminalUnlessStale == Spec /\ [][~StaleSave]_vars => TerminalIsFinal
  <1>1. ASSUME RowInv, KeyInv, [Next]_vars, [~StaleSave]_vars, NEW p \in PaymentIds, Exists(p),
               isTerminalPayment(payments[p].status)
        PROVE  payments'[p].status = payments[p].status
    <2>1. CASE payments'[p] = payments[p]
      BY <2>1
    <2>2. CASE payments'[p] # payments[p]
      <3>1. PICK x \in Procs :
               /\ proc[x].payment = p /\ proc[x].row = payments'[p] /\ proc'[x] = Idle
               /\ proc[x].base = payments[p] =>
                     payments'[p].status \in PAYMENT_TRANSITIONS[payments[p].status]
        BY <1>1, <2>2, SaveOrNot, SaveIsLegal
      <3>2. proc[x].base = payments[p]
        BY <1>1, <2>2, <3>1 DEF StaleSave, vars
      <3>3. PAYMENT_TRANSITIONS[payments[p].status] = {}
        BY <1>1 DEF isTerminalPayment, PAYMENT_TRANSITIONS, PaymentStatus
      <3> QED BY <3>1, <3>2, <3>3
    <2> QED BY <2>1, <2>2
  <1>2. RowInv /\ KeyInv /\ [Next]_vars /\ [~StaleSave]_vars =>
           [\A p \in PaymentIds : Exists(p) /\ isTerminalPayment(payments[p].status) =>
               payments'[p].status = payments[p].status]_payments
    BY <1>1
  <1> QED BY <1>2, Invariance, PTL DEF Spec, TerminalIsFinal

=============================================================================
