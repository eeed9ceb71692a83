------------------------------ MODULE WorkerProofs ------------------------------
(***************************************************************************)
(* What runs on timers, for any numbers of payments, providers, rows and   *)
(* callers: the reconciliation batches, and that the relay, the batches    *)
(* and the breaker keep in one run what each of them keeps alone.          *)
(***************************************************************************)
EXTENDS MCWorker, OutboxProofs, LimitsProofs, SequenceTheorems

-----------------------------------------------------------------------------
\* The inductive invariant of the batches.

Transferred == [code: Providers, digit: Digits, status: PaymentStatus]

\* What a payment is once it was submitted.
Onward == {"SUBMITTED", "ACCEPTED", "REJECTED", "SETTLED", "FAILED"}

\* Every payment in the line has one place there.
InLineOnce ==
    /\ waiting \in Seq(Transfers)
    /\ \A i, j \in 1..Len(waiting) : waiting[i] = waiting[j] => i = j

IsSubmitted(t) == transfer[t] # Unsent /\ transfer[t].status = "SUBMITTED"

\* The line is the SUBMITTED payments, and none comes back to that status.
PollsInv ==
    /\ transfer \in [Transfers -> Transferred \cup {Unsent}]
    /\ InLineOnce
    /\ \A t \in Transfers : Waiting(t) <=> IsSubmitted(t)
    /\ \A t \in Transfers : transfer[t] # Unsent => transfer[t].status \in Onward
    /\ batch \in Seq(Transfers) /\ Len(batch) <= BatchLimit
    /\ down \subseteq Providers

-----------------------------------------------------------------------------
\* Facts about the graph and the line.

\* A report moves a submitted payment onward, never back to SUBMITTED.
LEMMA ReportsMoveOn ==
    ASSUME NEW s \in Onward, NEW reported, NEW target \in Reached(s, reported)
    PROVE  target \in Onward \ {"SUBMITTED"} /\ target \in PaymentStatus
  <1>1. target \in PaymentStatus /\ target \in PAYMENT_TRANSITIONS[s]
    BY DEF Reached, canTransitionPayment
  <1>2. s \in PaymentStatus
    BY DEF Onward, PaymentStatus
  <1>3. PAYMENT_TRANSITIONS[s] \subseteq Onward \ {"SUBMITTED"}
    BY <1>2 DEF Onward, PAYMENT_TRANSITIONS
  <1> QED BY <1>1, <1>3

LEMMA FunctionIsSeq ==
    ASSUME NEW S, NEW n \in Nat, NEW f \in [1..n -> S]
    PROVE  f \in Seq(S) /\ Len(f) = n
  BY LenProperties

LEMMA LineIsFunction ==
    InLineOnce => /\ waiting \in [1..Len(waiting) -> Transfers]
                  /\ DOMAIN waiting = 1..Len(waiting)
  BY DEF InLineOnce

LEMMA LineLength == InLineOnce => \E n \in Nat : n = Len(waiting)
  BY DEF InLineOnce

\* No two places are the same payment's, so there are no more places than payments.
LEMMA LineIsShort == InLineOnce => Len(waiting) <= Cardinality(Transfers)
  <1> SUFFICES ASSUME InLineOnce PROVE Len(waiting) <= Cardinality(Transfers)
    OBVIOUS
  <1>1. waiting \in Injection(1..Len(waiting), Transfers)
    BY LineIsFunction DEF InLineOnce, Injection, IsInjective
  <1>2. Cardinality(1..Len(waiting)) <= Cardinality(Transfers)
    BY <1>1, FS_Injection, ReconciliationAssumption
  <1> PICK n \in Nat : n = Len(waiting)
    BY LineLength
  <1>3. 1 \in Int /\ n \in Int
    OBVIOUS
  <1>4. Cardinality(1..n) = IF 1 > n THEN 0 ELSE n - 1 + 1
    BY <1>3, FS_Interval
  <1> QED BY <1>2, <1>4

\* The one that leaves was in the line once, so it is gone, and the others stay.
LEMMA LineCloses ==
    ASSUME InLineOnce, NEW t \in Transfers, LeaveLine(t)
    PROVE  InLineOnce' /\ \A u \in Transfers : Waiting(u)' <=> Waiting(u) /\ u # t
  <1> PICK n \in Nat : n = Len(waiting)
    BY LineLength
  <1>1. waiting \in [1..n -> Transfers] /\ DOMAIN waiting = 1..n
        /\ \A i, j \in 1..n : waiting[i] = waiting[j] => i = j
    BY LineIsFunction DEF InLineOnce
  <1> PICK place \in 1..n :
          /\ waiting[place] = t
          /\ waiting' = [i \in 1..(n - 1) |-> waiting[IF i < place THEN i ELSE i + 1]]
    BY <1>1 DEF LeaveLine
  <1> DEFINE From(i) == IF i < place THEN i ELSE i + 1
  <1>2. n - 1 \in Nat /\ \A i \in 1..(n - 1) : From(i) \in 1..n /\ From(i) # place
    OBVIOUS
  <1>3. \A i, j \in 1..(n - 1) : From(i) = From(j) => i = j
    OBVIOUS
  <1>4. waiting' = [i \in 1..(n - 1) |-> waiting[From(i)]]
    OBVIOUS
  <1>5. \A i \in (1..n) \ {place} : \E j \in 1..(n - 1) : From(j) = i
    <2> SUFFICES ASSUME NEW i \in (1..n) \ {place}
                 PROVE  \E j \in 1..(n - 1) : From(j) = i
      OBVIOUS
    <2>1. CASE i < place
      <3>1. i \in 1..(n - 1) /\ From(i) = i
        BY <2>1
      <3> QED BY <3>1
    <2>2. CASE i > place
      <3>1. i - 1 \in 1..(n - 1) /\ From(i - 1) = i
        BY <2>2
      <3> QED BY <3>1
    <2>3. i < place \/ i > place
      OBVIOUS
    <2> QED BY <2>1, <2>2, <2>3
  <1> HIDE DEF From
  <1>6. waiting' \in [1..(n - 1) -> Transfers] /\ DOMAIN waiting' = 1..(n - 1)
    BY <1>1, <1>2, <1>4
  <1>7. waiting' \in Seq(Transfers) /\ Len(waiting') = n - 1
    <2> PICK m \in Nat : m = n - 1
      BY <1>2
    <2>1. waiting' \in [1..m -> Transfers]
      BY <1>6
    <2>2. waiting' \in Seq(Transfers) /\ Len(waiting') = m
      BY <2>1, FunctionIsSeq, ZenonT(20)
    <2> QED BY <2>2
  <1>8. \A i, j \in 1..(n - 1) : waiting'[i] = waiting'[j] => i = j
    <2> SUFFICES ASSUME NEW i \in 1..(n - 1), NEW j \in 1..(n - 1), waiting'[i] = waiting'[j]
                 PROVE  i = j
      OBVIOUS
    <2>1. waiting[From(i)] = waiting[From(j)]
      BY <1>4
    <2>2. From(i) = From(j)
      BY <1>1, <1>2, <2>1
    <2> QED BY <1>3, <2>2
  <1>9. ASSUME NEW u \in Transfers
        PROVE  Waiting(u)' <=> Waiting(u) /\ u # t
    <2>1. ASSUME NEW j \in 1..(n - 1), waiting'[j] = u
          PROVE  Waiting(u) /\ u # t
      <3>1. From(j) \in 1..n /\ From(j) # place /\ waiting[From(j)] = u
        BY <1>2, <1>4, <2>1
      <3> QED BY <1>1, <3>1 DEF Waiting
    <2>2. ASSUME NEW i \in 1..n, waiting[i] = u, u # t
          PROVE  \E j \in 1..(n - 1) : waiting'[j] = u
      <3>1. PICK j \in 1..(n - 1) : From(j) = i
        BY <1>5, <2>2
      <3> QED BY <1>4, <2>2, <3>1
    <2> QED BY <1>1, <1>6, <2>1, <2>2 DEF Waiting
  <1> QED BY <1>7, <1>8, <1>9 DEF InLineOnce

LEMMA LineGrows ==
    ASSUME InLineOnce, NEW t \in Transfers, ~Waiting(t), waiting' = Append(waiting, t)
    PROVE  InLineOnce' /\ \A u \in Transfers : Waiting(u)' <=> Waiting(u) \/ u = t
  <1> PICK n \in Nat : n = Len(waiting)
    BY LineLength
  <1>1. waiting \in [1..n -> Transfers] /\ DOMAIN waiting = 1..n
        /\ \A i, j \in 1..n : waiting[i] = waiting[j] => i = j
    BY LineIsFunction DEF InLineOnce
  <1>2. waiting' \in Seq(Transfers) /\ Len(waiting') = n + 1 /\ DOMAIN waiting' = 1..(n + 1)
        /\ waiting'[n + 1] = t /\ \A i \in 1..n : waiting'[i] = waiting[i]
    BY AppendProperties, LineIsFunction DEF InLineOnce
  <1>3. \A i \in 1..n : waiting[i] # t
    BY <1>1 DEF Waiting
  <1>4. \A i \in 1..(n + 1) : i \in 1..n \/ i = n + 1
    OBVIOUS
  <1>5. InLineOnce'
    BY <1>1, <1>2, <1>3, <1>4 DEF InLineOnce
  <1>6. ASSUME NEW u \in Transfers
        PROVE  Waiting(u)' <=> Waiting(u) \/ u = t
    <2>1. \A i \in 1..n : i \in 1..(n + 1)
      OBVIOUS
    <2>2. n + 1 \in 1..(n + 1)
      OBVIOUS
    <2> QED BY <1>1, <1>2, <1>4, <2>1, <2>2 DEF Waiting
  <1> QED BY <1>5, <1>6

\* The batch is what stands first in the line.
LEMMA BatchIsHead ==
    ASSUME PollsInv, NEW b, b = findSubmitted(BatchLimit)
    PROVE  /\ b \in Seq(Transfers) /\ Len(b) <= BatchLimit
           /\ \E k \in Nat : /\ DOMAIN b = 1..k /\ k <= Len(waiting)
                             /\ k = BatchLimit \/ k = Len(waiting)
                             /\ \A i \in 1..k : b[i] = waiting[i]
  <1> PICK n \in Nat : n = Len(waiting)
    BY LineLength DEF PollsInv
  <1> PICK k \in Nat : k = IF BatchLimit < n THEN BatchLimit ELSE n
    BY ReconciliationAssumption
  <1>1. waiting \in [1..n -> Transfers]
    BY LineIsFunction DEF PollsInv
  <1>2. b = [i \in 1..k |-> waiting[i]]
    BY DEF findSubmitted, Positions
  <1>3. k <= n /\ k <= BatchLimit /\ (k = BatchLimit \/ k = n)
    BY ReconciliationAssumption
  <1>4. b \in [1..k -> Transfers]
    BY <1>1, <1>2, <1>3
  <1>5. b \in Seq(Transfers) /\ Len(b) = k
    BY <1>4, FunctionIsSeq
  <1> QED BY <1>2, <1>3, <1>5

-----------------------------------------------------------------------------
\* The steps of the batches.

LEMMA PollsInvInit == PollsInit => PollsInv
  <1> SUFFICES ASSUME PollsInit PROVE PollsInv
    OBVIOUS
  <1>1. InLineOnce
    BY EmptySeq DEF PollsInit, InLineOnce
  <1>2. \A t \in Transfers : ~Waiting(t) /\ transfer[t] = Unsent
    BY DEF PollsInit, Waiting
  <1>3. batch \in Seq(Transfers) /\ Len(batch) <= BatchLimit
    BY EmptySeq, ReconciliationAssumption DEF PollsInit
  <1> QED BY <1>1, <1>2, <1>3 DEF PollsInit, PollsInv, IsSubmitted

\* A payment that was submitted moves onward and leaves the line, if it stood there.
LEMMA MoveToInv ==
    ASSUME PollsInv, NEW t \in Transfers, transfer[t] # Unsent,
           NEW s \in Onward \ {"SUBMITTED"}, MoveTo(t, s),
           batch' \in Seq(Transfers), Len(batch') <= BatchLimit, down' = down
    PROVE  PollsInv'
  <1>1. transfer[t] \in Transferred /\ s \in PaymentStatus
    BY DEF PollsInv, Onward, PaymentStatus
  <1> DEFINE row == [transfer[t] EXCEPT !.status = s]
  <1>2. row \in Transferred /\ row.status = s
    BY <1>1 DEF Transferred
  <1>3. row # Unsent
    BY <1>2, ReconciliationAssumption DEF Transferred
  <1>4. transfer' = [transfer EXCEPT ![t] = row]
    BY DEF MoveTo
  <1> HIDE DEF row
  <1>5. transfer' \in [Transfers -> Transferred \cup {Unsent}]
        /\ \A u \in Transfers : transfer'[u] = IF u = t THEN row ELSE transfer[u]
    BY <1>2, <1>4 DEF PollsInv
  <1>6. InLineOnce' /\ \A u \in Transfers : Waiting(u)' <=> Waiting(u) /\ u # t
    <2>1. CASE Waiting(t)
      BY <2>1, LineCloses DEF MoveTo, PollsInv
    <2>2. CASE ~Waiting(t)
      BY <2>2 DEF MoveTo, PollsInv, InLineOnce, Waiting
    <2> QED BY <2>1, <2>2
  <1>7. ~IsSubmitted(t)'
    BY <1>2, <1>5 DEF IsSubmitted
  <1>8. \A u \in Transfers : Waiting(u)' <=> IsSubmitted(u)'
    BY <1>5, <1>6, <1>7 DEF PollsInv, IsSubmitted
  <1>9. \A u \in Transfers : transfer'[u] # Unsent => transfer'[u].status \in Onward
    BY <1>2, <1>5 DEF PollsInv
  <1> QED BY <1>5, <1>6, <1>8, <1>9 DEF PollsInv

\* The batch changes and the payments do not.
LEMMA BatchInv ==
    ASSUME PollsInv, batch' \in Seq(Transfers), Len(batch') <= BatchLimit, down' \subseteq Providers,
           UNCHANGED <<transfer, waiting>>
    PROVE  PollsInv'
  BY DEF PollsInv, InLineOnce, Waiting, IsSubmitted

LEMMA SubmitTransferInv ==
    ASSUME PollsInv, NEW t \in Transfers, NEW code \in Providers, NEW digit \in Digits,
           SubmitTransfer(t, code, digit)
    PROVE  PollsInv'
  <1> DEFINE row == [code |-> code, digit |-> digit, status |-> "SUBMITTED"]
  <1>1. row \in Transferred /\ row.status = "SUBMITTED"
    BY DEF Transferred, PaymentStatus
  <1>2. row # Unsent
    BY <1>1, ReconciliationAssumption DEF Transferred
  <1>3. /\ transfer[t] = Unsent /\ transfer' = [transfer EXCEPT ![t] = row]
        /\ waiting' = Append(waiting, t) /\ UNCHANGED <<batch, down>>
    BY DEF SubmitTransfer
  <1> HIDE DEF row
  <1>4. transfer' \in [Transfers -> Transferred \cup {Unsent}]
        /\ \A u \in Transfers : transfer'[u] = IF u = t THEN row ELSE transfer[u]
    BY <1>1, <1>3 DEF PollsInv
  <1>5. ~Waiting(t)
    BY <1>3 DEF PollsInv, IsSubmitted
  <1>6. InLineOnce' /\ \A u \in Transfers : Waiting(u)' <=> Waiting(u) \/ u = t
    BY <1>3, <1>5, LineGrows DEF PollsInv
  <1>7. \A u \in Transfers : IsSubmitted(u)' <=> IsSubmitted(u) \/ u = t
    BY <1>1, <1>2, <1>4 DEF IsSubmitted
  <1>8. \A u \in Transfers : transfer'[u] # Unsent => transfer'[u].status \in Onward
    BY <1>1, <1>4 DEF PollsInv, Onward
  <1> QED BY <1>3, <1>4, <1>6, <1>7, <1>8 DEF PollsInv

LEMMA PollsInvStep == PollsInv /\ [PollsNext]_pollVars => PollsInv'
  <1> SUFFICES ASSUME PollsInv, [PollsNext]_pollVars PROVE PollsInv'
    OBVIOUS
  <1>1. CASE StartTick
    <2>1. batch' \in Seq(Transfers) /\ Len(batch') <= BatchLimit
      BY <1>1, BatchIsHead DEF StartTick
    <2> QED BY <1>1, <2>1, BatchInv DEF StartTick, PollsInv
  <1>2. CASE TickEnds
    <2>1. batch' \in Seq(Transfers) /\ Len(batch') <= BatchLimit
      BY <1>2, EmptySeq, ReconciliationAssumption DEF TickEnds
    <2> QED BY <1>2, <2>1, BatchInv DEF TickEnds, PollsInv
  <1>3. ASSUME NEW t \in Transfers, PollMoves(t) \/ PollLeaves(t) \/ PollFails(t)
        PROVE  PollsInv'
    <2>1. batch # << >> /\ batch' = Tail(batch)
      BY <1>3 DEF PollMoves, PollLeaves, PollFails, AtHead
    <2>2. batch' \in Seq(Transfers) /\ Len(batch') <= BatchLimit
      <3>1. batch \in Seq(Transfers) /\ Len(batch) <= BatchLimit
        BY DEF PollsInv
      <3>2. batch' \in Seq(Transfers) /\ Len(batch') = Len(batch) - 1 /\ Len(batch) \in Nat
        BY <2>1, <3>1, HeadTailProperties, LenProperties
      <3> QED BY <3>1, <3>2, ReconciliationAssumption
    <2>3. CASE PollMoves(t)
      <3>1. PICK target \in PollTarget(t) : MoveTo(t, target)
        BY <2>3 DEF PollMoves
      <3>2. transfer[t] # Unsent /\ transfer[t].status \in Onward
        BY <2>3 DEF PollMoves, PollsInv, IsSubmitted
      <3>3. target \in Onward \ {"SUBMITTED"}
        BY <3>1, <3>2, ReportsMoveOn DEF PollTarget
      <3> QED BY <2>2, <2>3, <3>1, <3>2, <3>3, MoveToInv DEF PollMoves
    <2>4. CASE PollLeaves(t) \/ PollFails(t)
      BY <2>2, <2>4, BatchInv DEF PollLeaves, PollFails, PollsInv
    <2> QED BY <1>3, <2>3, <2>4
  <1>4. ASSUME NEW t \in Transfers, NEW word \in Words, Callback(t, word)
        PROVE  PollsInv'
    <2>1. PICK target \in Reached(transfer[t].status, ReportedBy(transfer[t].code, word)) :
              MoveTo(t, target)
      BY <1>4 DEF Callback
    <2>2. transfer[t] # Unsent /\ transfer[t].status \in Onward
          /\ batch' \in Seq(Transfers) /\ Len(batch') <= BatchLimit /\ down' = down
      BY <1>4 DEF Callback, PollsInv
    <2>3. target \in Onward \ {"SUBMITTED"}
      BY <2>1, <2>2, ReportsMoveOn
    <2> QED BY <2>1, <2>2, <2>3, MoveToInv
  <1>5. ASSUME NEW code \in Providers, ProviderReturns(code)
        PROVE  PollsInv'
    BY <1>5, BatchInv DEF ProviderReturns, PollsInv
  <1>6. CASE UNCHANGED pollVars
    BY <1>6, BatchInv DEF pollVars, PollsInv
  <1> QED BY <1>1, <1>2, <1>3, <1>4, <1>5, <1>6, SubmitTransferInv DEF PollsNext

LEMMA PollsInvariant == PollsSpec => []PollsInv
  BY PollsInvInit, PollsInvStep, PTL DEF PollsSpec

LEMMA PollsTypes == PollsInv => PollsTypeOK
  BY LineIsShort DEF PollsInv, PollsTypeOK, IsSubmitted, Transferred

-----------------------------------------------------------------------------
\* However polls, webhooks and submissions interleave, the line is the SUBMITTED
\* payments and a batch is never too long.
THEOREM LineIsTheSubmitted == PollsSpec => []PollsTypeOK
  BY PollsTypes, PollsInvariant, PTL

\* A whole batch of payments that do not move shuts out every payment behind it.
LEMMA FullBatchShutsOut ==
    ASSUME PollsInv, NEW j \in 1..Len(waiting), BatchLimit < j,
           \A i \in 1..BatchLimit : Stuck(waiting[i])
    PROVE  ShutOut(waiting[j])
  <1> DEFINE t == waiting[j]
             S == {u \in Ahead(t) : Stuck(u)}
             f == [i \in 1..BatchLimit |-> waiting[i]]
  <1> PICK n \in Nat : n = Len(waiting)
    BY LineLength DEF PollsInv
  <1>1. waiting \in [1..n -> Transfers] /\ DOMAIN waiting = 1..n
        /\ \A h, i \in 1..n : waiting[h] = waiting[i] => h = i
    BY LineIsFunction DEF PollsInv, InLineOnce
  <1>2. BatchLimit \in Nat /\ \A i \in 1..BatchLimit : i \in 1..n /\ i < j
    BY ReconciliationAssumption
  <1>3. \A i \in 1..BatchLimit : waiting[i] \in S
    BY <1>1, <1>2 DEF Ahead
  <1>4. IsFiniteSet(S)
    <2>1. S \subseteq Transfers
      BY DEF Ahead
    <2> HIDE DEF S
    <2> QED BY <2>1, FS_Subset, ReconciliationAssumption
  <1> HIDE DEF S
  <1>5. f \in Injection(1..BatchLimit, S)
    <2>1. f \in [1..BatchLimit -> S]
      BY <1>3
    <2>2. \A h, i \in 1..BatchLimit : f[h] = f[i] => h = i
      BY <1>1, <1>2
    <2> HIDE DEF f
    <2> QED BY <2>1, <2>2 DEF Injection, IsInjective
  <1> HIDE DEF f
  <1>6. Cardinality(1..BatchLimit) <= Cardinality(S)
    BY <1>4, <1>5, FS_Injection
  <1>7. Cardinality(1..BatchLimit) = BatchLimit
    BY <1>2, FS_Interval, ReconciliationAssumption
  <1>8. Cardinality(S) \in Nat
    BY <1>4, FS_CardinalityType
  <1>9. Cardinality(S) >= BatchLimit
    BY <1>2, <1>6, <1>7, <1>8
  <1> QED BY <1>9 DEF ShutOut, S

\* One that is not shut out is in the batch itself or behind one there that moves.
LEMMA TickStep ==
    ASSUME PollsInv, StartTick, NEW t \in Transfers, Waiting(t), ~Stuck(t), ~ShutOut(t)
    PROVE  \E i \in DOMAIN batch' : ~Stuck(batch'[i])
  <1> PICK k \in Nat : /\ DOMAIN batch' = 1..k /\ k <= Len(waiting)
                       /\ k = BatchLimit \/ k = Len(waiting)
                       /\ \A i \in 1..k : batch'[i] = waiting[i]
    BY BatchIsHead DEF StartTick
  <1> PICK n \in Nat : n = Len(waiting)
    BY LineLength DEF PollsInv
  <1> PICK j \in 1..n : waiting[j] = t
    BY LineIsFunction DEF PollsInv, Waiting
  <1>1. CASE j <= k
    <2>1. j \in 1..k /\ batch'[j] = t
      BY <1>1
    <2> QED BY <2>1
  <1>2. CASE ~(j <= k)
    <2>1. k = BatchLimit /\ BatchLimit < j
      BY <1>2
    <2>2. PICK i \in 1..BatchLimit : ~Stuck(waiting[i])
      BY <2>1, FullBatchShutsOut
    <2> QED BY <2>1, <2>2
  <1> QED BY <1>1, <1>2

\* For any batch size and any line: a tick that could move a payment which is not behind
\* a whole batch of stuck ones does read one that it can move.
THEOREM BatchesHoldTheMovable == PollsSpec => TicksTakeTheMovable
  <1>1. PollsInv /\ [PollsNext]_pollVars =>
           [StartTick /\ (\E t \in Transfers : Waiting(t) /\ ~Stuck(t) /\ ~ShutOut(t)) =>
               \E i \in DOMAIN batch' : ~Stuck(batch'[i])]_pollVars
    BY TickStep
  <1> QED BY <1>1, PollsInvariant, PTL DEF PollsSpec, TicksTakeTheMovable

-----------------------------------------------------------------------------
\* The parts of MCWorker in one run: a step of one leaves the others alone.

LEMMA PartsRun == PartSpec => Spec /\ PollsSpec /\ BreakerSpec
  <1>1. PartInit => Init /\ PollsInit /\ BreakerInit
    BY DEF PartInit
  <1>2. [PartNext]_partVars => [Next]_vars /\ [PollsNext]_pollVars /\ [BreakerNext]_breakerVars
    BY DEF PartNext, RelayOnly, PollsOnly, BreakerOnly, partVars, vars, pollVars, breakerVars
  <1> QED BY <1>1, <1>2, PTL DEF PartSpec, Spec, PollsSpec, BreakerSpec

\* Each part keeps its promises while the others run: the types, the breaker's limit on
\* failed attempts, and batches that hold what they can move.
THEOREM WorkerCorrect ==
    PartSpec => [](PartTypeOK /\ FailuresAreContained) /\ TicksTakeTheMovable
  <1>1. PollsTypeOK /\ BreakerTypeOK => PartTypeOK
    BY DEF PartTypeOK
  <1> QED BY <1>1, PartsRun, LineIsTheSubmitted, BatchesHoldTheMovable, BreakerTypeCorrect,
             BreakerContainsFailures, PTL

\* And where the relay always has a producer, it delivers at least once.
THEOREM WorkerDelivers == AlwaysProducer /\ PartSpec => DeliversAtLeastOnce
  BY PartsRun, RelayRefines, PTL

=============================================================================
