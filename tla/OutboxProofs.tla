----------------------------- MODULE OutboxProofs ------------------------------
(***************************************************************************)
(* The relay for any numbers of rows, workers, overlapping ticks, batch    *)
(* sizes and attempts: claims are exclusive, duplicates are bounded, only  *)
(* faults strand a row, and without a stop or a start without Kafka it     *)
(* delivers at least once and marks nothing published that was not sent.   *)
(***************************************************************************)
EXTENDS Outbox, TLAPS

-----------------------------------------------------------------------------
\* The inductive invariant.

\* A tick that sends or marks a row has it in hand.
TicksFit ==
    \A t \in Ticks : IF tick[t].step = "loop" THEN tick[t].cur = None
                     ELSE tick[t].cur \in tick[t].rows

\* Rows that were not sent since they were claimed.
NotSent(t) == IF tick[t].step = "loop" THEN tick[t].rows ELSE tick[t].rows \ {tick[t].cur}

\* A row in hand that was not sent yet has a claim that is not used up.
SpareClaim == \A t \in Ticks : \A e \in NotSent(t) : copies[e] < attempts[e]

\* A row that waits has an attempt left.
AttemptLeft ==
    \A e \in Events : status[e] \in {"ABSENT", "PENDING"} => attempts[e] < MaxAttempts

RelayInv ==
    /\ TypeOK /\ TicksFit /\ AttemptLeft /\ SpareClaim
    /\ ClaimsAreExclusive /\ CopiesAreBounded

TickState == [rows: SUBSET Events, cur: Events \cup {None}, step: {"loop", "mark", "fail"}]

-----------------------------------------------------------------------------
\* Facts about states.

LEMMA NoneIsNoEvent == None \notin Events
  BY RelayAssumption DEF Events

LEMMA QuietFits == Quiet \in TickState /\ Quiet.rows = {} /\ Quiet.step = "loop" /\ Quiet.cur = None
  BY DEF Quiet, TickState

LEMMA BatchPending == \A e \in Batch : e \in Events /\ status[e] = "PENDING"
  BY DEF Batch, Claimable

\* The row in hand.
LEMMA RowInHand ==
    ASSUME RelayInv, NEW t \in Ticks, tick[t].step # "loop"
    PROVE  /\ tick[t].cur \in Events /\ tick[t].cur \in tick[t].rows
           /\ status[tick[t].cur] = "PUBLISHING" \/ Unacknowledged(t, tick[t].cur)
           /\ tick[t].step = "mark" => status[tick[t].cur] = "PUBLISHING"
  BY DEF RelayInv, TypeOK, TicksFit, ClaimsAreExclusive, Unacknowledged

\* The other rows of a tick.
LEMMA RowWaits ==
    ASSUME RelayInv, NEW t \in Ticks, NEW e \in tick[t].rows,
           tick[t].step = "loop" \/ tick[t].cur # e
    PROVE  e \in Events /\ status[e] = "PUBLISHING"
  BY DEF RelayInv, TypeOK, ClaimsAreExclusive, Unacknowledged

-----------------------------------------------------------------------------
\* The steps.

LEMMA RelayInvInit == Init => RelayInv
  <1> SUFFICES ASSUME Init PROVE RelayInv
    OBVIOUS
  <1>1. TypeOK
    BY QuietFits, RelayAssumption DEF Init, TypeOK, Statuses, Lives, TickState
  <1>2. TicksFit /\ SpareClaim /\ ClaimsAreExclusive
    BY QuietFits DEF Init, TicksFit, SpareClaim, NotSent, ClaimsAreExclusive
  <1>3. AttemptLeft /\ CopiesAreBounded
    BY RelayAssumption DEF Init, AttemptLeft, CopiesAreBounded
  <1> QED BY <1>1, <1>2, <1>3 DEF RelayInv

LEMMA AddEventInv ==
    ASSUME RelayInv, NEW e \in Events, AddEvent(e) \/ ComesDue(e)
    PROVE  RelayInv'
  <1>1. /\ \/ status' = status
           \/ status[e] = "ABSENT" /\ status' = [status EXCEPT ![e] = "PENDING"]
        /\ due' = due \cup {e}
        /\ UNCHANGED <<attempts, worker, tick, copies>>
    BY DEF AddEvent, ComesDue
  <1>2. TypeOK'
    BY <1>1 DEF RelayInv, TypeOK, Statuses
  <1>3. AttemptLeft' /\ CopiesAreBounded'
    BY <1>1 DEF RelayInv, TypeOK, AttemptLeft, CopiesAreBounded
  <1>4. TicksFit' /\ SpareClaim'
    BY <1>1 DEF RelayInv, TicksFit, SpareClaim, NotSent
  <1>5. ClaimsAreExclusive'
    BY <1>1 DEF RelayInv, TypeOK, ClaimsAreExclusive, Unacknowledged
  <1> QED BY <1>2, <1>3, <1>4, <1>5 DEF RelayInv

\* A tick gets the batch it claimed, or nothing when the reply is lost.
LEMMA BatchGiven ==
    ASSUME RelayInv, NEW t \in Ticks, Claim(t) \/ ClaimReplyLost(t)
    PROVE  \E c \in TickState :
               /\ tick' = [tick EXCEPT ![t] = c]
               /\ c.rows \subseteq Batch /\ c.step = "loop" /\ c.cur = None
  <1> DEFINE B == Batch
  <1>1. B \subseteq Events
    BY BatchPending
  <1>2. CASE Claim(t)
    <2> DEFINE c == [rows |-> B, cur |-> None, step |-> "loop"]
    <2>1. tick' = [tick EXCEPT ![t] = c]
      BY <1>2 DEF Claim
    <2> HIDE DEF B
    <2>2. c \in TickState /\ c.rows = B /\ c.step = "loop" /\ c.cur = None
      BY <1>1 DEF TickState
    <2> QED BY <2>1, <2>2 DEF B
  <1>3. CASE ~Claim(t)
    <2>1. tick[t] = Quiet /\ tick' = tick /\ tick \in [Ticks -> TickState]
      BY <1>3 DEF ClaimReplyLost, TakeBatch, RelayInv, TypeOK, TickState
    <2>2. tick' = [tick EXCEPT ![t] = Quiet]
      BY <2>1
    <2> QED BY <1>3, <2>2, QuietFits
  <1> QED BY <1>2, <1>3

\* No row of the batch is in another hand, and each gets one more attempt.
LEMMA ClaimInv ==
    ASSUME RelayInv, NEW t \in Ticks, Claim(t) \/ ClaimReplyLost(t)
    PROVE  RelayInv'
  <1> DEFINE B == Batch
  <1>1. /\ status' = [e \in Events |-> IF e \in B THEN "PUBLISHING" ELSE status[e]]
        /\ attempts' = [e \in Events |-> IF e \in B THEN attempts[e] + 1 ELSE attempts[e]]
        /\ UNCHANGED <<due, worker, copies>>
    BY DEF Claim, ClaimReplyLost, TakeBatch
  <1>2. \A e \in B : e \in Events /\ status[e] = "PENDING"
    BY BatchPending
  <1> PICK c \in TickState :
          /\ tick' = [tick EXCEPT ![t] = c]
          /\ c.rows \subseteq B /\ c.step = "loop" /\ c.cur = None
    BY BatchGiven
  <1>3. /\ tick' = [tick EXCEPT ![t] = c] /\ c \in TickState
        /\ c.rows \subseteq B /\ c.step = "loop" /\ c.cur = None
    OBVIOUS
  <1> HIDE DEF B
  <1>4. tick' \in [Ticks -> TickState] /\ tick \in [Ticks -> TickState]
    BY <1>3 DEF RelayInv, TypeOK, TickState
  <1>5. \A u \in Ticks : tick'[u] = IF u = t THEN c ELSE tick[u]
    BY <1>3, <1>4
  <1>6. status' \in [Events -> Statuses]
    BY <1>1 DEF RelayInv, TypeOK, Statuses
  <1>7. attempts' \in [Events -> 0..MaxAttempts]
        /\ \A e \in Events : attempts'[e] >= attempts[e]
    BY <1>1, <1>2, RelayAssumption DEF RelayInv, TypeOK, AttemptLeft
  <1>8. TypeOK'
    BY <1>1, <1>4, <1>6, <1>7 DEF RelayInv, TypeOK, TickState
  <1>9. TicksFit'
    BY <1>3, <1>5 DEF RelayInv, TicksFit
  <1>10. AttemptLeft'
    BY <1>1 DEF RelayInv, TypeOK, AttemptLeft
  <1>11. CopiesAreBounded'
    <2>1. ASSUME NEW e \in Events
          PROVE  copies'[e] <= attempts'[e]
      BY <1>1, <1>7, <2>1 DEF RelayInv, TypeOK, CopiesAreBounded
    <2>2. ASSUME NEW e \in Events, status'[e] = "DEAD_LETTER"
          PROVE  attempts'[e] = MaxAttempts
      BY <1>1, <2>2 DEF RelayInv, CopiesAreBounded
    <2> QED BY <2>1, <2>2 DEF CopiesAreBounded
  <1>12. SpareClaim'
    <2> SUFFICES ASSUME NEW u \in Ticks, NEW e \in NotSent(u)' PROVE copies'[e] < attempts'[e]
      BY DEF SpareClaim
    <2>1. CASE u = t
      <3>1. e \in B /\ e \in Events
        BY <1>2, <1>3, <1>5, <2>1 DEF NotSent
      <3> QED BY <1>1, <3>1 DEF RelayInv, TypeOK, CopiesAreBounded
    <2>2. CASE u # t
      <3>1. e \in NotSent(u) /\ e \in Events
        BY <1>4, <1>5, <2>2 DEF NotSent, TickState
      <3>2. copies[e] < attempts[e]
        BY <3>1 DEF RelayInv, SpareClaim
      <3> QED BY <1>1, <1>7, <3>1, <3>2 DEF RelayInv, TypeOK
    <2> QED BY <2>1, <2>2
  <1>13. ClaimsAreExclusive'
    <2>1. ASSUME NEW u \in Ticks, NEW e \in tick[u].rows
          PROVE  /\ e \in Events /\ e \notin B
                 /\ status[e] = "PUBLISHING" \/ Unacknowledged(u, e)
      BY <1>2, <1>4, <2>1 DEF RelayInv, ClaimsAreExclusive, TickState, Unacknowledged
    <2>2. ASSUME NEW u \in Ticks, NEW e \in tick'[u].rows
          PROVE  status'[e] = "PUBLISHING" \/ Unacknowledged(u, e)'
      <3>1. CASE u = t
        BY <1>1, <1>2, <1>3, <1>5, <2>2, <3>1
      <3>2. CASE u # t
        <4>1. tick'[u] = tick[u] /\ e \in tick[u].rows
          BY <1>5, <2>2, <3>2
        <4>2. status'[e] = status[e]
          BY <1>1, <2>1, <4>1
        <4> QED BY <2>1, <4>1, <4>2 DEF Unacknowledged
      <3> QED BY <3>1, <3>2
    <2>3. ASSUME NEW u \in Ticks, NEW v \in Ticks, NEW e \in tick'[u].rows, e \in tick'[v].rows
          PROVE  u = v
      BY <1>3, <1>5, <2>1, <2>3 DEF RelayInv, ClaimsAreExclusive
    <2> QED BY <2>2, <2>3 DEF ClaimsAreExclusive
  <1> QED BY <1>8, <1>9, <1>10, <1>11, <1>12, <1>13 DEF RelayInv

\* Row e goes from waiting in the batch to being in hand, sent or not.
LEMMA TakesInv ==
    ASSUME RelayInv, NEW t \in Ticks, NEW e \in Events, NEW step \in {"mark", "fail"},
           Takes(t, e, step), copies' \in {copies, [copies EXCEPT ![e] = @ + 1]},
           UNCHANGED <<status, attempts, due, worker>>
    PROVE  RelayInv'
  <1> DEFINE c == [rows |-> tick[t].rows, cur |-> e, step |-> step]
  <1>1. tick \in [Ticks -> TickState] /\ copies \in [Events -> Nat]
        /\ attempts \in [Events -> 0..MaxAttempts]
    BY DEF RelayInv, TypeOK, TickState
  <1>2. tick[t].step = "loop" /\ e \in tick[t].rows /\ tick' = [tick EXCEPT ![t] = c]
    BY <1>1 DEF Takes, TickState
  <1>3. c \in TickState /\ c.rows = tick[t].rows /\ c.cur = e /\ c.step = step
    BY <1>1 DEF TickState
  <1> HIDE DEF c
  <1>4. tick' \in [Ticks -> TickState] /\ \A u \in Ticks : tick'[u] = IF u = t THEN c ELSE tick[u]
    BY <1>1, <1>2, <1>3
  <1>5. copies[e] < attempts[e]
    BY <1>2 DEF RelayInv, SpareClaim, NotSent
  <1>6. copies' \in [Events -> Nat] /\ \A d \in Events \ {e} : copies'[d] = copies[d]
    BY <1>1
  <1>7. copies'[e] <= attempts'[e]
    BY <1>1, <1>5, RelayAssumption
  <1>8. TypeOK' /\ AttemptLeft'
    BY <1>4, <1>6 DEF RelayInv, TypeOK, TickState, AttemptLeft
  <1>9. TicksFit'
    BY <1>2, <1>3, <1>4 DEF RelayInv, TicksFit
  <1>10. CopiesAreBounded'
    BY <1>6, <1>7 DEF RelayInv, CopiesAreBounded
  <1>11. \A u \in Ticks : tick'[u].rows = tick[u].rows
    BY <1>3, <1>4
  <1>12. ClaimsAreExclusive'
    <2>1. \A u \in Ticks, d \in Events : Unacknowledged(u, d) => Unacknowledged(u, d)'
      BY <1>2, <1>4 DEF Unacknowledged
    <2>2. \A u \in Ticks : \A d \in tick'[u].rows : d \in Events
      BY <1>4 DEF TickState
    <2> QED BY <1>11, <2>1, <2>2 DEF RelayInv, ClaimsAreExclusive
  <1>13. SpareClaim'
    <2> SUFFICES ASSUME NEW u \in Ticks, NEW d \in NotSent(u)' PROVE copies'[d] < attempts'[d]
      BY DEF SpareClaim
    <2>1. d \in NotSent(u) /\ d # e
      <3>1. CASE u = t
        BY <1>2, <1>3, <1>4, <3>1 DEF NotSent
      <3>2. CASE u # t
        <4>1. d \in NotSent(u) /\ d \in tick[u].rows
          BY <1>4, <3>2 DEF NotSent
        <4> QED BY <1>2, <3>2, <4>1 DEF RelayInv, ClaimsAreExclusive
      <3> QED BY <3>1, <3>2
    <2>2. d \in Events
      BY <1>1, <2>1 DEF NotSent, TickState
    <2> QED BY <1>6, <2>1, <2>2 DEF RelayInv, SpareClaim
  <1> QED BY <1>8, <1>9, <1>10, <1>12, <1>13 DEF RelayInv

\* A tick has less in hand, or the same with another step, and keeps no claim that it
\* did not have: what is known of ticks stays true while rows in hand are left alone.
LEMMA LessInHand ==
    ASSUME RelayInv, tick' \in [Ticks -> TickState], TicksFit', UNCHANGED <<attempts, copies>>,
           \A u \in Ticks : tick'[u].rows \subseteq tick[u].rows /\ NotSent(u)' \subseteq NotSent(u),
           \A u \in Ticks : \A e \in tick'[u].rows :
              status'[e] = "PUBLISHING" \/ Unacknowledged(u, e)'
    PROVE  SpareClaim' /\ ClaimsAreExclusive'
  <1>1. SpareClaim'
    BY DEF RelayInv, SpareClaim
  <1>2. ClaimsAreExclusive'
    BY DEF RelayInv, ClaimsAreExclusive
  <1> QED BY <1>1, <1>2

\* Ticks that end without another word leave their rows as they are.
LEMMA TicksQuiet ==
    ASSUME RelayInv, NEW S, tick' = [u \in Ticks |-> IF u \in S THEN Quiet ELSE tick[u]],
           worker' \in [Workers -> Lives], UNCHANGED <<status, attempts, due, copies>>
    PROVE  RelayInv'
  <1>1. tick \in [Ticks -> TickState]
    BY DEF RelayInv, TypeOK, TickState
  <1>2. tick' \in [Ticks -> TickState]
    BY <1>1, QuietFits
  <1>3. TicksFit'
    BY QuietFits DEF RelayInv, TicksFit
  <1>4. \A u \in Ticks : tick'[u].rows \subseteq tick[u].rows /\ NotSent(u)' \subseteq NotSent(u)
    BY QuietFits DEF NotSent
  <1>5. SpareClaim' /\ ClaimsAreExclusive'
    <2>1. ASSUME NEW u \in Ticks, NEW e \in tick'[u].rows
          PROVE  status'[e] = "PUBLISHING" \/ Unacknowledged(u, e)'
      <3>1. tick'[u] = tick[u] /\ e \in tick[u].rows
        BY <2>1, QuietFits
      <3> QED BY <3>1 DEF RelayInv, ClaimsAreExclusive, Unacknowledged
    <2> QED BY <1>2, <1>3, <1>4, <2>1, LessInHand
  <1>6. TypeOK' /\ AttemptLeft' /\ CopiesAreBounded'
    BY <1>2 DEF RelayInv, TypeOK, TickState, AttemptLeft, CopiesAreBounded
  <1> QED BY <1>3, <1>5, <1>6 DEF RelayInv

\* The tick lets go of the row in hand, or of every row.
LetsGo(t) ==
    \E c \in TickState :
        /\ tick' = [tick EXCEPT ![t] = c]
        /\ c.rows \subseteq tick[t].rows \ {tick[t].cur}
        /\ c.cur = None /\ c.step = "loop"

LEMMA ReleaseLetsGo ==
    ASSUME RelayInv, NEW t \in Ticks, Release(t) \/ tick' = [tick EXCEPT ![t] = Quiet]
    PROVE  LetsGo(t)
  <1>1. CASE Release(t)
    <2> DEFINE c == [rows |-> tick[t].rows \ {tick[t].cur}, cur |-> None, step |-> "loop"]
    <2>1. c \in TickState /\ c.rows = tick[t].rows \ {tick[t].cur}
          /\ c.cur = None /\ c.step = "loop"
      BY DEF RelayInv, TypeOK, TickState
    <2>2. tick' = [tick EXCEPT ![t] = c]
      BY <1>1 DEF Release
    <2> QED BY <2>1, <2>2 DEF LetsGo
  <1>2. CASE tick' = [tick EXCEPT ![t] = Quiet]
    BY <1>2, QuietFits DEF LetsGo
  <1> QED BY <1>1, <1>2

\* The row in hand is decided about and let go.
LEMMA MarksInv ==
    ASSUME RelayInv, NEW t \in Ticks, tick[t].step # "loop", LetsGo(t),
           NEW s \in {"PENDING", "PUBLISHED", "DEAD_LETTER"},
           status' = [status EXCEPT ![tick[t].cur] = s],
           s = "PENDING" => attempts[tick[t].cur] < MaxAttempts,
           s = "DEAD_LETTER" => attempts[tick[t].cur] = MaxAttempts,
           due' \in SUBSET Events, UNCHANGED <<attempts, worker, copies>>
    PROVE  RelayInv'
  <1>1. tick \in [Ticks -> TickState] /\ status \in [Events -> Statuses]
    BY DEF RelayInv, TypeOK, TickState
  <1>2. tick[t].cur \in Events /\ tick[t].cur \in tick[t].rows
    BY RowInHand
  <1> PICK c \in TickState :
          /\ tick' = [tick EXCEPT ![t] = c]
          /\ c.rows \subseteq tick[t].rows \ {tick[t].cur}
          /\ c.cur = None /\ c.step = "loop"
    BY DEF LetsGo
  <1>4. c.rows \subseteq tick[t].rows \ {tick[t].cur} /\ c.cur = None /\ c.step = "loop"
    OBVIOUS
  <1>5. tick' \in [Ticks -> TickState] /\ \A u \in Ticks : tick'[u] = IF u = t THEN c ELSE tick[u]
    BY <1>1
  <1>6. TicksFit'
    BY <1>4, <1>5 DEF RelayInv, TicksFit
  <1>7. \A u \in Ticks : tick'[u].rows \subseteq tick[u].rows /\ NotSent(u)' \subseteq NotSent(u)
    BY <1>4, <1>5 DEF NotSent
  <1>8. ASSUME NEW u \in Ticks, NEW e \in tick'[u].rows
        PROVE  status'[e] = "PUBLISHING" \/ Unacknowledged(u, e)'
    <2>1. e # tick[t].cur /\ e \in tick[u].rows
      BY <1>2, <1>4, <1>5, <1>8 DEF RelayInv, ClaimsAreExclusive
    <2>2. e \in Events
      BY <1>5, <1>8 DEF TickState
    <2>3. status'[e] = status[e]
      BY <1>1, <2>1, <2>2
    <2>4. CASE u = t
      BY <2>1, <2>3, <2>4, RowWaits
    <2>5. CASE u # t
      <3>1. tick'[u] = tick[u]
        BY <1>5, <2>5
      <3> QED BY <2>1, <2>3, <3>1 DEF RelayInv, ClaimsAreExclusive, Unacknowledged
    <2> QED BY <2>4, <2>5
  <1>9. SpareClaim' /\ ClaimsAreExclusive'
    BY <1>5, <1>6, <1>7, <1>8, LessInHand
  <1>10. TypeOK'
    BY <1>1, <1>2, <1>5 DEF RelayInv, TypeOK, TickState, Statuses
  <1>11. AttemptLeft' /\ CopiesAreBounded'
    BY <1>1, <1>2 DEF RelayInv, AttemptLeft, CopiesAreBounded
  <1> QED BY <1>6, <1>9, <1>10, <1>11 DEF RelayInv

\* markFailed's update, whatever the row's status was.
LEMMA PutBackInv ==
    ASSUME RelayInv, NEW t \in Ticks, tick[t].step = "fail", PutBack(t), LetsGo(t),
           UNCHANGED <<attempts, worker, copies>>
    PROVE  RelayInv'
  <1> DEFINE e == tick[t].cur
  <1>1. status' = [status EXCEPT ![e] = StatusAfterFailure(e)] /\ due' = due \ {e}
    BY DEF PutBack
  <1>2. e \in Events
    BY RowInHand
  <1>3. due' \in SUBSET Events /\ attempts[e] \in 0..MaxAttempts
    BY <1>1, <1>2 DEF RelayInv, TypeOK
  <1>4. CASE attempts[e] >= MaxAttempts
    <2>1. StatusAfterFailure(e) = "DEAD_LETTER" /\ attempts[e] = MaxAttempts
      BY <1>3, <1>4, RelayAssumption DEF StatusAfterFailure
    <2> QED BY <1>1, <1>3, <2>1, MarksInv
  <1>5. CASE ~(attempts[e] >= MaxAttempts)
    <2>1. StatusAfterFailure(e) = "PENDING" /\ attempts[e] < MaxAttempts
      BY <1>3, <1>5, RelayAssumption DEF StatusAfterFailure
    <2> QED BY <1>1, <1>3, <2>1, MarksInv
  <1> QED BY <1>4, <1>5

LEMMA HandleRowInv ==
    ASSUME RelayInv, NEW t \in Ticks, HandleRow(t)
    PROVE  RelayInv'
  <1>1. ASSUME NEW e \in Events, Send(t, e) \/ SkipSend(t, e) \/ SendFails(t, e)
        PROVE  RelayInv'
    <2>1. PICK step \in {"mark", "fail"} : Takes(t, e, step)
      BY <1>1 DEF Send, SkipSend, SendFails
    <2>2. copies' \in {copies, [copies EXCEPT ![e] = @ + 1]}
          /\ UNCHANGED <<status, attempts, due, worker>>
      BY <1>1 DEF Send, SkipSend, SendFails
    <2> QED BY <2>1, <2>2, TakesInv
  <1>2. CASE MarkPublished(t)
    <2>1. due' \in SUBSET Events
      BY <1>2 DEF MarkPublished, RelayInv, TypeOK
    <2> QED BY <1>2, <2>1, MarksInv, ReleaseLetsGo DEF MarkPublished
  <1>3. CASE MarkFailed(t)
    BY <1>3, PutBackInv, ReleaseLetsGo DEF MarkFailed
  <1>4. CASE MarkErrors(t)
    <2> DEFINE c == [tick[t] EXCEPT !.step = "fail"]
               d == tick[t].cur
    <2>1. tick \in [Ticks -> TickState] /\ status \in [Events -> Statuses]
      BY DEF RelayInv, TypeOK, TickState
    <2>2. /\ tick[t].step = "mark" /\ UNCHANGED <<attempts, due, worker, copies>>
          /\ status' \in {status, [status EXCEPT ![d] = "PUBLISHED"]}
          /\ tick' = [tick EXCEPT ![t] = c]
      BY <1>4 DEF MarkErrors
    <2>3. c \in TickState /\ c.rows = tick[t].rows /\ c.cur = tick[t].cur /\ c.step = "fail"
      BY <2>1 DEF TickState
    <2>4. d \in Events /\ d \in tick[t].rows /\ status[d] = "PUBLISHING"
      BY <2>2, RowInHand
    <2> HIDE DEF c
    <2>5. tick' \in [Ticks -> TickState]
          /\ \A u \in Ticks : tick'[u] = IF u = t THEN c ELSE tick[u]
      BY <2>1, <2>2, <2>3
    <2>6. TicksFit'
      BY <2>2, <2>3, <2>5 DEF RelayInv, TicksFit
    <2>7. \A u \in Ticks : tick'[u].rows \subseteq tick[u].rows /\ NotSent(u)' \subseteq NotSent(u)
      BY <2>2, <2>3, <2>5 DEF NotSent
    <2>8. ASSUME NEW u \in Ticks, NEW e \in tick'[u].rows
          PROVE  status'[e] = "PUBLISHING" \/ Unacknowledged(u, e)'
      <3>1. e \in tick[u].rows /\ e \in Events
        BY <2>1, <2>7, <2>8 DEF TickState
      <3>2. CASE e = d
        <4>1. u = t
          BY <2>4, <3>1, <3>2 DEF RelayInv, ClaimsAreExclusive
        <4>2. status'[e] \in {"PUBLISHING", "PUBLISHED"}
          BY <2>1, <2>2, <2>4, <3>2
        <4> QED BY <2>3, <2>5, <3>2, <4>1, <4>2 DEF Unacknowledged
      <3>3. CASE e # d
        <4>1. status'[e] = status[e]
          BY <2>1, <2>2, <3>1, <3>3
        <4>2. CASE u = t
          BY <3>1, <3>3, <4>1, <4>2, RowWaits
        <4>3. CASE u # t
          <5>1. tick'[u] = tick[u]
            BY <2>5, <4>3
          <5> QED BY <3>1, <4>1, <5>1 DEF RelayInv, ClaimsAreExclusive, Unacknowledged
        <4> QED BY <4>2, <4>3
      <3> QED BY <3>2, <3>3
    <2>9. SpareClaim' /\ ClaimsAreExclusive'
      BY <2>2, <2>5, <2>6, <2>7, <2>8, LessInHand
    <2>10. status' \in [Events -> Statuses] /\ \A e \in Events : status'[e] = status[e] \/ status'[e] = "PUBLISHED"
      BY <2>1, <2>2 DEF Statuses
    <2>11. TypeOK' /\ AttemptLeft' /\ CopiesAreBounded'
      BY <2>2, <2>5, <2>10 DEF RelayInv, TypeOK, TickState, AttemptLeft, CopiesAreBounded
    <2> QED BY <2>6, <2>9, <2>11 DEF RelayInv
  <1>5. CASE MarkFailedErrors(t)
    <2>1. /\ tick[t].step = "fail" /\ tick' = [tick EXCEPT ![t] = Quiet]
          /\ PutBack(t) \/ UNCHANGED <<status, due>>
          /\ UNCHANGED <<attempts, worker, copies>>
      BY <1>5 DEF MarkFailedErrors
    <2>2. CASE PutBack(t)
      BY <2>1, <2>2, PutBackInv, ReleaseLetsGo
    <2>3. CASE UNCHANGED <<status, due>>
      <3>1. tick' = [u \in Ticks |-> IF u \in {t} THEN Quiet ELSE tick[u]]
        BY <2>1 DEF RelayInv, TypeOK
      <3>2. worker' \in [Workers -> Lives]
        BY <2>1 DEF RelayInv, TypeOK
      <3> QED BY <2>1, <2>3, <3>1, <3>2, TicksQuiet
    <2> QED BY <2>1, <2>2, <2>3
  <1> QED BY <1>1, <1>2, <1>3, <1>4, <1>5 DEF HandleRow

LEMMA LifeInv ==
    ASSUME RelayInv, NEW w \in Workers, Life(w)
    PROVE  RelayInv'
  <1>1. UNCHANGED <<status, attempts, due, copies>>
        /\ worker' \in [Workers -> Lives]
    BY DEF Life, Start, StartUnconnected, HeartbeatFails, Shutdown, Exit, Crash, Becomes,
           RelayInv, TypeOK, Lives
  <1>2. \/ tick' = tick
        \/ tick' = [u \in Ticks |-> IF u \in {v \in Ticks : Host(v) = w} THEN Quiet ELSE tick[u]]
    BY DEF Life, Start, StartUnconnected, HeartbeatFails, Shutdown, Exit, Crash, TicksEnd
  <1>3. CASE tick' = tick
    BY <1>1, <1>3 DEF RelayInv, TypeOK, TicksFit, AttemptLeft, SpareClaim, NotSent,
                      ClaimsAreExclusive, Unacknowledged, CopiesAreBounded
  <1>4. CASE tick' # tick
    BY <1>1, <1>2, <1>4, TicksQuiet
  <1> QED BY <1>3, <1>4

LEMMA RelayInvStep == RelayInv /\ [Next]_vars => RelayInv'
  <1> SUFFICES ASSUME RelayInv, [Next]_vars PROVE RelayInv'
    OBVIOUS
  <1>1. CASE UNCHANGED vars
    BY <1>1 DEF vars, RelayInv, TypeOK, TicksFit, AttemptLeft, SpareClaim, NotSent,
                ClaimsAreExclusive, Unacknowledged, CopiesAreBounded
  <1> QED BY <1>1, AddEventInv, ClaimInv, HandleRowInv, LifeInv DEF Next

LEMMA RelayInvariant == Spec => []RelayInv
  BY RelayInvInit, RelayInvStep, PTL DEF Spec

-----------------------------------------------------------------------------
\* Columns, processes and ticks have their types; no row is tried more often than
\* maxAttempts allows.
THEOREM RelayTypeCorrect == Spec => []TypeOK
  <1>1. RelayInv => TypeOK
    BY DEF RelayInv
  <1> QED BY <1>1, RelayInvariant, PTL

\* However many workers and ticks overlap, a row is in one hand at most, and nobody
\* else has decided about it while it is.
THEOREM ClaimsExclude == Spec => []ClaimsAreExclusive
  <1>1. RelayInv => ClaimsAreExclusive
    BY DEF RelayInv
  <1> QED BY <1>1, RelayInvariant, PTL

\* Whatever fails or crashes, the topic holds no more copies of an event than its row
\* had attempts, and a dead-lettered row used all of them.
THEOREM DuplicatesAreBounded == Spec => []CopiesAreBounded
  <1>1. RelayInv => CopiesAreBounded
    BY DEF RelayInv
  <1> QED BY <1>1, RelayInvariant, PTL

\* What one step may do to row e once it is closed, as OnlyALostReplyReopens has it.
Stays(e) ==
    /\ copies'[e] = copies[e]
    /\ \/ status'[e] = status[e]
       \/ \E t \in Ticks : Unacknowledged(t, e) /\ tick'[t] # tick[t]

LEMMA ClosedStep ==
    ASSUME RelayInv, [Next]_vars, NEW e \in Events, status[e] \in {"PUBLISHED", "DEAD_LETTER"}
    PROVE  Stays(e)
  <1>1. \A t \in Ticks : e \in tick[t].rows => Unacknowledged(t, e)
    BY DEF RelayInv, ClaimsAreExclusive
  <1>2. status \in [Events -> Statuses] /\ copies \in [Events -> Nat]
        /\ tick \in [Ticks -> TickState]
    BY DEF RelayInv, TypeOK, TickState
  <1>3. ASSUME NEW d \in Events, AddEvent(d) \/ ComesDue(d)
        PROVE  Stays(e)
    BY <1>2, <1>3 DEF AddEvent, ComesDue, Stays
  <1>4. ASSUME NEW t \in Ticks, Claim(t) \/ ClaimReplyLost(t)
        PROVE  Stays(e)
    BY <1>2, <1>4, BatchPending DEF Claim, ClaimReplyLost, TakeBatch, Stays
  <1>5. ASSUME NEW t \in Ticks, HandleRow(t)
        PROVE  Stays(e)
    <2>1. ASSUME NEW d \in Events, Send(t, d) \/ SkipSend(t, d) \/ SendFails(t, d)
          PROVE  Stays(e)
      <3>1. d # e
        BY <1>1, <2>1 DEF Send, SkipSend, SendFails, Takes, Unacknowledged
      <3> QED BY <1>2, <2>1, <3>1 DEF Send, SkipSend, SendFails, Stays
    <2>2. CASE MarkPublished(t) \/ MarkErrors(t)
      <3>1. tick[t].step = "mark" /\ tick[t].cur # e
        BY <2>2, RowInHand DEF MarkPublished, MarkErrors
      <3> QED BY <1>2, <2>2, <3>1 DEF MarkPublished, MarkErrors, Stays
    <2>3. CASE MarkFailed(t) \/ MarkFailedErrors(t)
      <3>1. /\ tick[t].step = "fail" /\ copies' = copies
            /\ PutBack(t) \/ UNCHANGED status
        BY <2>3 DEF MarkFailed, MarkFailedErrors
      <3>2. PICK c \in TickState : tick' = [tick EXCEPT ![t] = c] /\ c.step = "loop"
        BY <2>3, ReleaseLetsGo DEF MarkFailed, MarkFailedErrors, LetsGo
      <3>3. tick'[t] # tick[t]
        BY <1>2, <3>1, <3>2
      <3>4. CASE tick[t].cur = e
        <4>1. Unacknowledged(t, e)
          BY <1>1, <3>1, <3>4, RowInHand
        <4> QED BY <3>1, <3>3, <4>1 DEF Stays
      <3>5. CASE tick[t].cur # e
        BY <1>2, <3>1, <3>5 DEF PutBack, Stays
      <3> QED BY <3>4, <3>5
    <2> QED BY <1>5, <2>1, <2>2, <2>3 DEF HandleRow
  <1>6. ASSUME NEW w \in Workers, Life(w)
        PROVE  Stays(e)
    BY <1>6 DEF Life, Start, StartUnconnected, HeartbeatFails, Shutdown, Exit, Crash, Stays
  <1>7. CASE UNCHANGED vars
    BY <1>7 DEF vars, Stays
  <1> QED BY <1>3, <1>4, <1>5, <1>6, <1>7 DEF Next

\* However many ticks overlap, fail and crash: DEAD_LETTER is final, a PUBLISHED row is not
\* sent again, and only the tick that set PUBLISHED and lost the reply takes it back.
THEOREM ReopenedByItsTick == Spec => OnlyALostReplyReopens
  <1>1. RelayInv /\ [Next]_vars =>
           [\A e \in Events : status[e] \in {"PUBLISHED", "DEAD_LETTER"} =>
               /\ copies'[e] = copies[e]
               /\ \/ status'[e] = status[e]
                  \/ \E t \in Ticks : Unacknowledged(t, e) /\ tick'[t] # tick[t]]_vars
    BY ClosedStep DEF Stays
  <1> QED BY <1>1, RelayInvariant, PTL DEF Spec, OnlyALostReplyReopens

\* What one step may do to row e, as OnlyFaultsStrand has it.
StrandsOnlyByFault(e) ==
    /\ Stranded(e)' => Stranded(e) \/ Fault
    /\ Stranded(e) => Stranded(e)' /\ copies'[e] = copies[e]

\* Nothing is stranded or taken up again when neither the row nor who has it changes.
LEMMA SameHands ==
    ASSUME NEW e \in Events, status'[e] = status[e], copies'[e] = copies[e],
           \A t \in Ticks : e \in tick'[t].rows <=> e \in tick[t].rows
    PROVE  StrandsOnlyByFault(e)
  BY DEF StrandsOnlyByFault, Stranded, Left

\* A fault lets go of rows and takes none.
LEMMA FaultStrands ==
    ASSUME NEW e \in Events, Fault, UNCHANGED copies, Stranded(e) => status'[e] = status[e],
           \A t \in Ticks : tick'[t].rows \subseteq tick[t].rows
    PROVE  StrandsOnlyByFault(e)
  BY DEF StrandsOnlyByFault, Stranded, Left

\* A claim that loses its reply strands rows, but takes none that was stranded.
LEMMA LostClaimStrands ==
    ASSUME RelayInv, NEW t \in Ticks, ClaimReplyLost(t), NEW e \in Events
    PROVE  StrandsOnlyByFault(e)
  <1>1. Fault /\ tick' = tick /\ copies' = copies
    BY DEF Fault, ClaimReplyLost, TakeBatch
  <1>2. Stranded(e) => status'[e] = status[e]
    BY BatchPending DEF ClaimReplyLost, TakeBatch, Stranded
  <1> QED BY <1>1, <1>2, FaultStrands

\* The claim has every row it makes PUBLISHING, and takes none that was.
LEMMA ClaimStrandsNone ==
    ASSUME RelayInv, NEW t \in Ticks, Claim(t), NEW e \in Events
    PROVE  StrandsOnlyByFault(e)
  <1> DEFINE c == [rows |-> Batch, cur |-> None, step |-> "loop"]
             B == Batch
  <1>1. /\ status'[e] = IF e \in B THEN "PUBLISHING" ELSE status[e]
        /\ tick' = [tick EXCEPT ![t] = c] /\ tick[t] = Quiet /\ copies' = copies
    BY DEF Claim, TakeBatch
  <1>2. e \in B => status[e] = "PENDING"
    BY BatchPending
  <1>3. c.rows = B
    OBVIOUS
  <1> HIDE DEF c, B
  <1>4. tick \in [Ticks -> TickState]
    BY DEF RelayInv, TypeOK, TickState
  <1>5. \A u \in Ticks : tick'[u] = IF u = t THEN c ELSE tick[u]
    BY <1>1, <1>4
  <1>6. CASE e \in B
    BY <1>1, <1>2, <1>3, <1>5, <1>6 DEF StrandsOnlyByFault, Stranded, Left
  <1>7. CASE e \notin B
    <2>1. \A u \in Ticks : e \in tick'[u].rows <=> e \in tick[u].rows
      BY <1>1, <1>3, <1>5, <1>7, QuietFits
    <2> QED BY <1>1, <1>7, <2>1, SameHands
  <1> QED BY <1>6, <1>7

\* The row in hand gets its mark before it is let go.
LEMMA MarksStrandNone ==
    ASSUME RelayInv, NEW t \in Ticks, tick[t].step # "loop", Release(t),
           NEW s \in {"PENDING", "PUBLISHED", "DEAD_LETTER"},
           status' = [status EXCEPT ![tick[t].cur] = s], copies' = copies, NEW e \in Events
    PROVE  StrandsOnlyByFault(e)
  <1> DEFINE c == [rows |-> tick[t].rows \ {tick[t].cur}, cur |-> None, step |-> "loop"]
  <1>1. tick \in [Ticks -> TickState] /\ status \in [Events -> Statuses]
    BY DEF RelayInv, TypeOK, TickState
  <1>2. tick' = [tick EXCEPT ![t] = c] /\ c.rows = tick[t].rows \ {tick[t].cur}
    BY DEF Release
  <1> HIDE DEF c
  <1>3. \A u \in Ticks : tick'[u] = IF u = t THEN c ELSE tick[u]
    BY <1>1, <1>2
  <1>4. CASE e = tick[t].cur
    <2>1. status'[e] # "PUBLISHING" /\ ~Stranded(e)
      BY <1>1, <1>4, RowInHand DEF Stranded, Left
    <2> QED BY <2>1 DEF StrandsOnlyByFault, Stranded
  <1>5. CASE e # tick[t].cur
    <2>1. \A u \in Ticks : e \in tick'[u].rows <=> e \in tick[u].rows
      BY <1>2, <1>3, <1>5
    <2>2. status'[e] = status[e]
      BY <1>1, <1>5
    <2> QED BY <2>1, <2>2, SameHands
  <1> QED BY <1>4, <1>5

LEMMA HandleRowStrands ==
    ASSUME RelayInv, NEW t \in Ticks, HandleRow(t), NEW e \in Events
    PROVE  StrandsOnlyByFault(e)
  <1>1. tick \in [Ticks -> TickState] /\ copies \in [Events -> Nat]
    BY DEF RelayInv, TypeOK, TickState
  <1>2. ASSUME NEW d \in Events, Send(t, d) \/ SkipSend(t, d) \/ SendFails(t, d)
        PROVE  StrandsOnlyByFault(e)
    <2>1. PICK step \in {"mark", "fail"} : Takes(t, d, step)
      BY <1>2 DEF Send, SkipSend, SendFails
    <2>2. status' = status /\ copies' \in {copies, [copies EXCEPT ![d] = @ + 1]}
      BY <1>2 DEF Send, SkipSend, SendFails
    <2>3. d \in tick[t].rows /\ tick' = [tick EXCEPT ![t].cur = d, ![t].step = step]
      BY <2>1 DEF Takes
    <2>4. \A u \in Ticks : tick'[u].rows = tick[u].rows
      BY <1>1, <2>3 DEF TickState
    <2>5. CASE e = d
      <3>1. ~Stranded(e) /\ ~Stranded(e)'
        BY <2>3, <2>4, <2>5 DEF Stranded, Left
      <3> QED BY <3>1 DEF StrandsOnlyByFault
    <2>6. CASE e # d
      <3>1. copies'[e] = copies[e]
        BY <1>1, <2>2, <2>6
      <3> QED BY <2>2, <2>4, <3>1, SameHands
    <2> QED BY <2>5, <2>6
  <1>3. CASE MarkPublished(t)
    BY <1>3, MarksStrandNone DEF MarkPublished
  <1>4. CASE MarkFailed(t)
    <2> PICK s \in {"PENDING", "DEAD_LETTER"} : s = StatusAfterFailure(tick[t].cur)
      BY DEF StatusAfterFailure
    <2>1. status' = [status EXCEPT ![tick[t].cur] = s]
      BY <1>4 DEF MarkFailed, PutBack
    <2> QED BY <1>4, <2>1, MarksStrandNone DEF MarkFailed
  <1>5. CASE MarkErrors(t)
    <2>1. \A u \in Ticks : tick'[u].rows = tick[u].rows
      BY <1>1, <1>5 DEF MarkErrors, TickState
    <2>2. tick[t].step # "loop" /\ copies' = copies
          /\ \A d \in Events \ {tick[t].cur} : status'[d] = status[d]
      BY <1>5 DEF MarkErrors, RelayInv, TypeOK
    <2>3. CASE e = tick[t].cur
      <3>1. ~Stranded(e) /\ ~Stranded(e)'
        BY <2>1, <2>2, <2>3, RowInHand DEF Stranded, Left
      <3> QED BY <3>1 DEF StrandsOnlyByFault
    <2>4. CASE e # tick[t].cur
      BY <2>1, <2>2, <2>4, SameHands
    <2> QED BY <2>3, <2>4
  <1>6. CASE MarkFailedErrors(t)
    <2>1. \A u \in Ticks : tick'[u].rows \subseteq tick[u].rows
      BY <1>1, <1>6, QuietFits DEF MarkFailedErrors
    <2>2. Fault /\ copies' = copies
      BY <1>6 DEF Fault, MarkFailedErrors
    <2>3. Stranded(e) => e # tick[t].cur
      BY <1>6, RowInHand DEF MarkFailedErrors, Stranded, Left
    <2>4. Stranded(e) => status'[e] = status[e]
      BY <1>6, <2>3 DEF MarkFailedErrors, PutBack, RelayInv, TypeOK
    <2> QED BY <2>1, <2>2, <2>4, FaultStrands
  <1> QED BY <1>2, <1>3, <1>4, <1>5, <1>6 DEF HandleRow

LEMMA LifeStrands ==
    ASSUME RelayInv, NEW w \in Workers, Life(w), NEW e \in Events
    PROVE  StrandsOnlyByFault(e)
  <1>1. CASE Start(w) \/ StartUnconnected(w) \/ Shutdown(w)
    <2>1. UNCHANGED <<status, tick, copies>>
      BY <1>1 DEF Start, StartUnconnected, Shutdown
    <2> QED BY <2>1, SameHands
  <1>2. CASE HeartbeatFails(w) \/ Exit(w) \/ Crash(w)
    <2>1. UNCHANGED <<status, copies>> /\ TicksEnd(w)
          /\ worker[w] # "down" /\ worker' = [worker EXCEPT ![w] = "down"]
      BY <1>2 DEF HeartbeatFails, Exit, Crash, Becomes
    <2>2. Fault
      BY <2>1 DEF Fault, RelayInv, TypeOK
    <2>3. \A t \in Ticks : tick'[t].rows \subseteq tick[t].rows
      BY <2>1, QuietFits DEF TicksEnd
    <2> QED BY <2>1, <2>2, <2>3, FaultStrands
  <1> QED BY <1>1, <1>2 DEF Life

LEMMA StrandStep ==
    ASSUME RelayInv, [Next]_vars, NEW e \in Events
    PROVE  StrandsOnlyByFault(e)
  <1>1. ASSUME NEW d \in Events, AddEvent(d) \/ ComesDue(d)
        PROVE  StrandsOnlyByFault(e)
    <2>1. tick' = tick /\ copies' = copies
      BY <1>1 DEF AddEvent, ComesDue
    <2>2. \/ status'[e] = status[e]
          \/ status[e] = "ABSENT" /\ status'[e] = "PENDING"
      BY <1>1 DEF AddEvent, ComesDue, RelayInv, TypeOK
    <2> QED BY <2>1, <2>2, SameHands DEF StrandsOnlyByFault, Stranded, Left
  <1>2. CASE UNCHANGED vars
    BY <1>2, SameHands DEF vars
  <1> QED BY <1>1, <1>2, ClaimStrandsNone, LostClaimStrands, HandleRowStrands, LifeStrands DEF Next

\* Only a process that ends, a claim whose reply is lost, or a failed update after a
\* failed send or update strands a row, and a stranded row is never taken up again: no other interleaving loses an event.
THEOREM StrandedByFaults == Spec => OnlyFaultsStrand
  <1>1. RelayInv /\ [Next]_vars =>
           [\A e \in Events :
               /\ Stranded(e)' => Stranded(e) \/ Fault
               /\ Stranded(e) => Stranded(e)' /\ copies'[e] = copies[e]]_vars
    BY StrandStep DEF StrandsOnlyByFault
  <1> QED BY <1>1, RelayInvariant, PTL DEF Spec, OnlyFaultsStrand

-----------------------------------------------------------------------------
\* The relay implements AtLeastOnce as long as it always has a producer.

AlwaysProducer == Faults \cap {"shutdown", "kafka_down_at_start"} = {}

\* A row about to be marked published has been sent, and so has a published one.
SentInv ==
    /\ \A w \in Workers : worker[w] \in {"down", "up"}
    /\ \A t \in Ticks : tick[t].step = "mark" => copies[tick[t].cur] > 0
    /\ PublishedWasSent

LEMMA SentInvInit == Init => SentInv
  BY DEF Init, SentInv, Quiet, PublishedWasSent

\* No event leaves the topic, and a row is newly PUBLISHED only after it was sent.
LEMMA SentStays ==
    ASSUME SentInv, \A e \in Events : copies[e] > 0 => copies'[e] > 0,
           \A e \in Events : status'[e] = "PUBLISHED" => status[e] = "PUBLISHED" \/ copies[e] > 0
    PROVE  PublishedWasSent'
  BY DEF SentInv, PublishedWasSent

LEMMA SentInvStep ==
    ASSUME AlwaysProducer, RelayInv, SentInv, [Next]_vars
    PROVE  SentInv'
  <1>1. /\ status \in [Events -> Statuses] /\ copies \in [Events -> Nat]
        /\ worker \in [Workers -> Lives] /\ tick \in [Ticks -> TickState]
    BY DEF RelayInv, TypeOK, TickState
  <1>2. \A t \in Ticks : tick[t].step # "loop" => tick[t].cur \in Events
    BY RowInHand
  <1>3. ASSUME NEW d \in Events, AddEvent(d) \/ ComesDue(d)
        PROVE  SentInv'
    BY <1>1, <1>3 DEF AddEvent, ComesDue, SentInv, PublishedWasSent
  <1>4. ASSUME NEW t \in Ticks, Claim(t) \/ ClaimReplyLost(t)
        PROVE  SentInv'
    <2>1. PublishedWasSent'
      BY <1>1, <1>4, SentStays DEF Claim, ClaimReplyLost, TakeBatch
    <2> QED BY <1>1, <1>4, <2>1 DEF Claim, ClaimReplyLost, TakeBatch, SentInv
  <1>5. ASSUME NEW t \in Ticks, HandleRow(t)
        PROVE  SentInv'
    <2>1. Host(t) \in Workers
      BY DEF Ticks, Host
    <2>2. ASSUME NEW e \in Events, Send(t, e) \/ SendFails(t, e)
          PROVE  SentInv'
      <3>1. UNCHANGED <<worker, status>> /\ copies' \in {copies, [copies EXCEPT ![e] = @ + 1]}
            /\ (Send(t, e) => copies'[e] > 0)
        BY <1>1, <2>2 DEF Send, SendFails
      <3>2. \A d \in Events : copies[d] > 0 => copies'[d] > 0
        BY <1>1, <3>1
      <3>3. \A u \in Ticks : u # t => tick'[u] = tick[u]
        BY <1>1, <2>2 DEF Send, SendFails, Takes
      <3>4. tick'[t].cur = e /\ (tick'[t].step = "mark" => Send(t, e))
        BY <1>1, <2>2 DEF Send, SendFails, Takes, TickState
      <3>5. PublishedWasSent'
        BY <3>1, <3>2, SentStays
      <3> QED BY <1>2, <3>1, <3>2, <3>3, <3>4, <3>5 DEF SentInv
    <2>3. ASSUME NEW e \in Events, SkipSend(t, e)
          PROVE  SentInv'
      BY <2>1, <2>3 DEF SkipSend, SentInv
    <2>4. CASE MarkPublished(t) \/ MarkErrors(t)
      <3>1. /\ UNCHANGED <<worker, copies>>
            /\ copies[tick[t].cur] > 0
            /\ status' \in {status, [status EXCEPT ![tick[t].cur] = "PUBLISHED"]}
        BY <2>4 DEF MarkPublished, MarkErrors, SentInv
      <3>2. PublishedWasSent'
        BY <1>1, <3>1, SentStays
      <3>3. \A u \in Ticks : tick'[u].step = "mark" => tick'[u] = tick[u]
        BY <1>1, <2>4 DEF MarkPublished, MarkErrors, Release, TickState
      <3> QED BY <3>1, <3>2, <3>3 DEF SentInv
    <2>5. CASE MarkFailed(t) \/ MarkFailedErrors(t)
      <3>1. /\ UNCHANGED <<worker, copies>>
            /\ \A e \in Events : status'[e] = status[e] \/ status'[e] # "PUBLISHED"
        BY <1>1, <2>5 DEF MarkFailed, MarkFailedErrors, PutBack, StatusAfterFailure
      <3>2. PublishedWasSent'
        BY <3>1, SentStays
      <3>3. \A u \in Ticks : tick'[u].step = "mark" => tick'[u] = tick[u]
        BY <1>1, <2>5 DEF MarkFailed, MarkFailedErrors, Release, Quiet
      <3> QED BY <3>1, <3>2, <3>3 DEF SentInv
    <2> QED BY <1>5, <2>2, <2>3, <2>4, <2>5 DEF HandleRow
  <1>6. ASSUME NEW w \in Workers, Life(w)
        PROVE  SentInv'
    <2>1. UNCHANGED <<copies, status>> /\ \A v \in Workers : worker'[v] \in {"down", "up"}
      BY <1>1, <1>6 DEF Life, Start, StartUnconnected, HeartbeatFails, Shutdown, Exit, Crash,
                        Becomes, AlwaysProducer, SentInv
    <2>2. tick' = tick \/ tick' = [t \in Ticks |-> IF Host(t) = w THEN Quiet ELSE tick[t]]
      BY <1>6 DEF Life, Start, StartUnconnected, HeartbeatFails, Shutdown, Exit, Crash, TicksEnd
    <2>3. PublishedWasSent'
      BY <2>1, SentStays
    <2> QED BY <2>1, <2>2, <2>3 DEF SentInv, Quiet
  <1>7. CASE UNCHANGED vars
    BY <1>7 DEF vars, SentInv, PublishedWasSent
  <1> QED BY <1>3, <1>4, <1>5, <1>6, <1>7 DEF Next

LEMMA SentInvariant == AlwaysProducer /\ Spec => [](RelayInv /\ SentInv)
  <1>1. AlwaysProducer /\ RelayInv /\ SentInv /\ [Next]_vars => RelayInv' /\ SentInv'
    BY RelayInvStep, SentInvStep
  <1>2. Init => RelayInv /\ SentInv
    BY RelayInvInit, SentInvInit
  <1>3. AlwaysProducer => AlwaysProducer'
    BY DEF AlwaysProducer
  <1> QED BY <1>1, <1>2, <1>3, PTL DEF Spec

\* The two ways to be without a producer are the only ones to mark an unsent row: crashes,
\* failed updates, lost replies and overlapping ticks are not.
THEOREM PublishedOnlyIfSent == AlwaysProducer /\ Spec => []PublishedWasSent
  <1>1. SentInv => PublishedWasSent
    BY DEF SentInv
  <1> QED BY <1>1, SentInvariant, PTL

\* The refinement mapping.
PhaseAt(s, left) == CASE s = "ABSENT"             -> "unborn"
                      [] s = "PUBLISHED" /\ left -> "delivered"
                      [] s = "DEAD_LETTER"        -> "dead"
                      [] OTHER                    -> "open"

Phase == [e \in Events |-> CASE status[e] = "ABSENT"                -> "unborn"
                             [] status[e] = "PUBLISHED" /\ Left(e) -> "delivered"
                             [] status[e] = "DEAD_LETTER"           -> "dead"
                             [] OTHER                               -> "open"]

LEMMA PhaseIs == Phase = [e \in Events |-> PhaseAt(status[e], Left(e))]
  BY DEF Phase, PhaseAt

LEMMA PhaseIsNext == Phase' = [e \in Events |-> PhaseAt(status'[e], Left(e)')]
  BY DEF Phase, PhaseAt

LEMMA PhaseMoves ==
    ASSUME NEW e \in Events, NEW p, p = PhaseAt(status'[e], Left(e)'),
           \A d \in Events \ {e} : PhaseAt(status'[d], Left(d)') = PhaseAt(status[d], Left(d))
    PROVE  Phase' = [Phase EXCEPT ![e] = p]
  BY PhaseIs, PhaseIsNext

LEMMA PhaseStays ==
    ASSUME \A e \in Events : PhaseAt(status'[e], Left(e)') = PhaseAt(status[e], Left(e))
    PROVE  Phase' = Phase
  BY PhaseIs, PhaseIsNext

LEMMA SameRows ==
    ASSUME \A u \in Ticks : tick'[u].rows = tick[u].rows
    PROVE  \A e \in Events : Left(e)' <=> Left(e)
  BY DEF Left

LEMMA SamePhases ==
    ASSUME status' = status, \A u \in Ticks : tick'[u].rows = tick[u].rows
    PROVE  Phase' = Phase
  <1>1. \A e \in Events : PhaseAt(status'[e], Left(e)') = PhaseAt(status[e], Left(e))
    BY SameRows DEF PhaseAt
  <1> QED BY <1>1, PhaseStays

\* A row in hand is open.
LEMMA OpenInHand ==
    ASSUME RelayInv, NEW t \in Ticks, NEW e \in tick[t].rows
    PROVE  e \in Events /\ ~Left(e) /\ Phase[e] = "open"
  <1>1. e \in Events /\ status[e] \in {"PUBLISHING", "PUBLISHED"} /\ ~Left(e)
    BY DEF RelayInv, TypeOK, ClaimsAreExclusive, Unacknowledged, Left
  <1> QED BY <1>1, PhaseIs DEF PhaseAt

\* Ticks that end close the rows they had marked.
LEMMA LetGoStep ==
    ASSUME RelayInv, SentInv, UNCHANGED <<status, copies>>,
           \A u \in Ticks : tick'[u].rows \subseteq tick[u].rows
    PROVE  Delivery!Next
  <1> PICK S : S = {e \in Events : Phase[e] = "open" /\ PhaseAt(status'[e], Left(e)') = "delivered"}
    OBVIOUS
  <1>1. \A e \in Events : Left(e) => Left(e)'
    BY DEF Left
  <1>2. \A e \in Events :
           \/ PhaseAt(status'[e], Left(e)') = PhaseAt(status[e], Left(e))
           \/ status[e] = "PUBLISHED" /\ ~Left(e) /\ Left(e)'
    BY <1>1 DEF PhaseAt
  <1>3. ASSUME NEW e \in Events, PhaseAt(status'[e], Left(e)') # PhaseAt(status[e], Left(e))
        PROVE  e \in S
    BY <1>2, <1>3, PhaseIs DEF PhaseAt
  <1>4. \A e \in S : Phase[e] = "open" /\ copies[e] > 0
    BY <1>2, PhaseIs DEF SentInv, PublishedWasSent, PhaseAt
  <1>5. Phase' = [e \in Events |-> IF e \in S THEN "delivered" ELSE Phase[e]]
    BY <1>3, PhaseIs, PhaseIsNext
  <1>6. S \in SUBSET Events
    OBVIOUS
  <1>7. Delivery!Close(S)
    BY <1>4, <1>5 DEF Delivery!Close, Phase
  <1> QED BY <1>6, <1>7 DEF Delivery!Next

\* The tick decides about the row in hand and lets go of it; what else it had was not
\* decided about.
LEMMA DecideStep ==
    ASSUME RelayInv, NEW t \in Ticks, tick[t].step # "loop", LetsGo(t), NEW s,
           status' = [status EXCEPT ![tick[t].cur] = s]
    PROVE  Phase' = [Phase EXCEPT ![tick[t].cur] = PhaseAt(s, TRUE)]
  <1> PICK e : e = tick[t].cur
    OBVIOUS
  <1>1. tick \in [Ticks -> TickState] /\ status \in [Events -> Statuses]
    BY DEF RelayInv, TypeOK, TickState
  <1>2. e \in Events /\ e \in tick[t].rows
    BY RowInHand
  <1> PICK c \in TickState : tick' = [tick EXCEPT ![t] = c] /\ c.rows \subseteq tick[t].rows \ {e}
    BY DEF LetsGo
  <1>3. \A u \in Ticks : tick'[u] = IF u = t THEN c ELSE tick[u]
    BY <1>1
  <1>4. Left(e)'
    BY <1>2, <1>3 DEF Left, RelayInv, ClaimsAreExclusive
  <1>5. status'[e] = s /\ \A d \in Events \ {e} : status'[d] = status[d]
    BY <1>1, <1>2
  <1>6. ASSUME NEW d \in Events \ {e}
        PROVE  PhaseAt(status'[d], Left(d)') = PhaseAt(status[d], Left(d))
    <2>1. CASE d \in tick[t].rows
      <3>1. status[d] = "PUBLISHING"
        BY <1>2, <2>1, RowWaits
      <3> QED BY <1>5, <3>1 DEF PhaseAt
    <2>2. CASE d \notin tick[t].rows
      <3>1. Left(d)' <=> Left(d)
        BY <1>3, <2>2 DEF Left
      <3> QED BY <1>5, <3>1 DEF PhaseAt
    <2> QED BY <2>1, <2>2
  <1>7. PhaseAt(s, TRUE) = PhaseAt(status'[e], Left(e)')
    BY <1>4, <1>5
  <1> QED BY <1>2, <1>6, <1>7, PhaseMoves

\* What markFailed does is to give the event up, or nothing.
LEMMA PutBackStep ==
    ASSUME RelayInv, NEW t \in Ticks, tick[t].step = "fail", PutBack(t), LetsGo(t), copies' = copies
    PROVE  Delivery!Next \/ UNCHANGED <<Phase, copies>>
  <1> PICK e \in Events : e = tick[t].cur /\ e \in tick[t].rows
    BY RowInHand
  <1> PICK s : s = StatusAfterFailure(e)
    OBVIOUS
  <1>1. Phase' = [Phase EXCEPT ![e] = PhaseAt(s, TRUE)]
    BY DecideStep DEF PutBack
  <1>2. Phase[e] = "open"
    BY OpenInHand
  <1>3. CASE s = "DEAD_LETTER"
    <2>1. Delivery!GiveUp(e)
      BY <1>1, <1>2, <1>3 DEF Delivery!GiveUp, Phase, PhaseAt
    <2> QED BY <2>1 DEF Delivery!Next
  <1>4. CASE s = "PENDING"
    <2>1. PhaseAt(s, TRUE) = Phase[e]
      BY <1>2, <1>4 DEF PhaseAt
    <2>2. Phase' = Phase
      BY <1>1, <2>1, PhaseIs
    <2> QED BY <2>2
  <1> QED BY <1>3, <1>4 DEF StatusAfterFailure

\* Every step of the relay is a step of the abstract specification or a stutter.
LEMMA RelayStep ==
    ASSUME RelayInv, SentInv, [Next]_vars
    PROVE  [Delivery!Next]_<<Phase, copies>>
  <1>1. status \in [Events -> Statuses] /\ copies \in [Events -> Nat]
        /\ tick \in [Ticks -> TickState]
    BY DEF RelayInv, TypeOK, TickState
  <1>2. ASSUME NEW e \in Events, AddEvent(e)
        PROVE  Delivery!Next
    <2>1. /\ status[e] = "ABSENT" /\ status' = [status EXCEPT ![e] = "PENDING"]
          /\ UNCHANGED <<tick, copies>>
      BY <1>2 DEF AddEvent
    <2>2. \A d \in Events : Left(d)' <=> Left(d)
      BY <2>1, SameRows
    <2>3. \A d \in Events \ {e} : PhaseAt(status'[d], Left(d)') = PhaseAt(status[d], Left(d))
      BY <1>1, <2>1, <2>2 DEF PhaseAt
    <2>4. PhaseAt(status'[e], Left(e)') = "open" /\ PhaseAt(status[e], Left(e)) = "unborn"
      BY <1>1, <2>1 DEF PhaseAt
    <2>5. Phase' = [Phase EXCEPT ![e] = "open"] /\ Phase[e] = "unborn"
      BY <2>3, <2>4, PhaseMoves, PhaseIs
    <2>6. Delivery!Raise(e)
      BY <2>1, <2>5 DEF Delivery!Raise, Phase
    <2> QED BY <2>6 DEF Delivery!Next
  <1>3. ASSUME NEW e \in Events, ComesDue(e)
        PROVE  UNCHANGED <<Phase, copies>>
    BY <1>3, SamePhases DEF ComesDue
  <1>4. ASSUME NEW t \in Ticks, Claim(t) \/ ClaimReplyLost(t)
        PROVE  UNCHANGED <<Phase, copies>>
    <2> DEFINE B == Batch
    <2>1. /\ \A e \in Events : status'[e] = IF e \in B THEN "PUBLISHING" ELSE status[e]
          /\ copies' = copies /\ tick[t] = Quiet
      BY <1>4 DEF Claim, ClaimReplyLost, TakeBatch
    <2>2. \A e \in B : status[e] = "PENDING"
      BY BatchPending
    <2> PICK c \in TickState : tick' = [tick EXCEPT ![t] = c] /\ c.rows \subseteq B
      BY <1>4, BatchGiven
    <2> HIDE DEF B
    <2>3. \A u \in Ticks : tick'[u] = IF u = t THEN c ELSE tick[u]
      BY <1>1
    <2>4. \A e \in Events \ B : Left(e)' <=> Left(e)
      BY <2>1, <2>3, QuietFits DEF Left
    <2>5. \A e \in Events : PhaseAt(status'[e], Left(e)') = PhaseAt(status[e], Left(e))
      BY <2>1, <2>2, <2>4 DEF PhaseAt
    <2> QED BY <2>1, <2>5, PhaseStays
  <1>5. ASSUME NEW t \in Ticks, HandleRow(t)
        PROVE  Delivery!Next \/ UNCHANGED <<Phase, copies>>
    <2>1. ASSUME NEW e \in Events, Send(t, e) \/ SkipSend(t, e) \/ SendFails(t, e)
          PROVE  Delivery!Next \/ UNCHANGED <<Phase, copies>>
      <3>1. /\ status' = status /\ copies' \in {copies, [copies EXCEPT ![e] = @ + 1]}
            /\ e \in tick[t].rows
        BY <2>1 DEF Send, SkipSend, SendFails, Takes
      <3>2. \A u \in Ticks : tick'[u].rows = tick[u].rows
        BY <1>1, <2>1 DEF Send, SkipSend, SendFails, Takes, TickState
      <3>3. Phase' = Phase
        BY <3>1, <3>2, SamePhases
      <3>4. Phase[e] = "open"
        BY <3>1, OpenInHand
      <3>5. copies' = [copies EXCEPT ![e] = @ + 1] => Delivery!Deliver(e)
        BY <3>3, <3>4 DEF Delivery!Deliver, Phase
      <3> QED BY <3>1, <3>3, <3>5 DEF Delivery!Next
    <2>2. CASE MarkPublished(t)
      <3> PICK e \in Events : e = tick[t].cur /\ e \in tick[t].rows
        BY <2>2, RowInHand DEF MarkPublished
      <3>1. copies[e] > 0 /\ copies' = copies
        BY <2>2 DEF MarkPublished, SentInv
      <3>2. Phase' = [Phase EXCEPT ![e] = PhaseAt("PUBLISHED", TRUE)]
        BY <2>2, ReleaseLetsGo, DecideStep DEF MarkPublished
      <3>3. PhaseAt("PUBLISHED", TRUE) = "delivered"
        BY DEF PhaseAt
      <3>4. Phase[e] = "open"
        BY OpenInHand
      <3>5. Phase' = [d \in Events |-> IF d \in {e} THEN "delivered" ELSE Phase[d]]
        BY <3>2, <3>3, PhaseIs
      <3>6. Delivery!Close({e})
        BY <3>1, <3>4, <3>5 DEF Delivery!Close, Phase
      <3> QED BY <3>6 DEF Delivery!Next
    <2>3. CASE MarkErrors(t)
      <3> PICK e \in Events : e = tick[t].cur /\ e \in tick[t].rows /\ status[e] = "PUBLISHING"
        BY <2>3, RowInHand DEF MarkErrors
      <3>1. \A u \in Ticks : tick'[u].rows = tick[u].rows
        BY <1>1, <2>3 DEF MarkErrors, TickState
      <3>2. \A d \in Events : Left(d)' <=> Left(d)
        BY <3>1, SameRows
      <3>3. ~Left(e) /\ copies' = copies /\ status'[e] \in {"PUBLISHING", "PUBLISHED"}
            /\ \A d \in Events \ {e} : status'[d] = status[d]
        BY <1>1, <2>3 DEF MarkErrors, Left
      <3>4. \A d \in Events : PhaseAt(status'[d], Left(d)') = PhaseAt(status[d], Left(d))
        BY <3>2, <3>3 DEF PhaseAt
      <3> QED BY <3>3, <3>4, PhaseStays
    <2>4. CASE MarkFailed(t)
      BY <2>4, ReleaseLetsGo, PutBackStep DEF MarkFailed
    <2>5. CASE MarkFailedErrors(t)
      <3>1. \A u \in Ticks : tick'[u].rows \subseteq tick[u].rows
        BY <1>1, <2>5, QuietFits DEF MarkFailedErrors
      <3>2. CASE PutBack(t)
        BY <2>5, <3>2, ReleaseLetsGo, PutBackStep DEF MarkFailedErrors
      <3>3. CASE ~PutBack(t)
        BY <2>5, <3>1, <3>3, LetGoStep DEF MarkFailedErrors
      <3> QED BY <3>2, <3>3
    <2> QED BY <1>5, <2>1, <2>2, <2>3, <2>4, <2>5 DEF HandleRow
  <1>6. ASSUME NEW w \in Workers, Life(w)
        PROVE  Delivery!Next
    <2>1. UNCHANGED <<status, copies>>
      BY <1>6 DEF Life, Start, StartUnconnected, HeartbeatFails, Shutdown, Exit, Crash
    <2>2. \A u \in Ticks : tick'[u].rows \subseteq tick[u].rows
      BY <1>6, QuietFits
         DEF Life, Start, StartUnconnected, HeartbeatFails, Shutdown, Exit, Crash, TicksEnd
    <2> QED BY <2>1, <2>2, LetGoStep
  <1>7. CASE UNCHANGED vars
    BY <1>7, SamePhases DEF vars
  <1> QED BY <1>2, <1>3, <1>4, <1>5, <1>6, <1>7 DEF Next

\* With a producer at all times (processes may crash, and the database may fail or lose
\* replies) the relay delivers at least once: an event is closed only after it reached
\* the topic.
THEOREM RelayRefines == AlwaysProducer /\ Spec => DeliversAtLeastOnce
  <1>1. Init => Delivery!Init
    BY DEF Init, Delivery!Init
  <1>2. RelayInv /\ SentInv /\ [Next]_vars => [Delivery!Next]_<<Phase, copies>>
    BY RelayStep
  <1> QED BY <1>1, <1>2, SentInvariant, PTL
          DEF Spec, DeliversAtLeastOnce, Delivery!Spec, Phase

=============================================================================
