-------------------------------- MODULE Outbox --------------------------------
(***************************************************************************)
(* The outbox relay: worker processes that claim PENDING rows, send them   *)
(* to Kafka and mark them.                                                 *)
(*                                                                         *)
(* A worker starts a tick at every interval without waiting for the last   *)
(* one, so several ticks of one process, and several processes, run at     *)
(* once.  A tick claims a batch in one statement and then handles its rows *)
(* one at a time, with a step between the send and the update.  Time is    *)
(* abstracted to whether a row's next_attempt_at has passed.               *)
(***************************************************************************)
EXTENDS Naturals, FiniteSets

CONSTANTS
    MaxEvents,    \* outbox rows raised; a row's number is its created_at rank
    Workers,      \* worker processes
    Slots,        \* ticks of one worker that may overlap
    BatchSize,
    MaxAttempts,
    Faults,       \* fault classes of the instance
    None

ASSUME RelayAssumption ==
    /\ MaxEvents \in Nat
    /\ BatchSize \in Nat \ {0}
    /\ MaxAttempts \in Nat \ {0}
    /\ Faults \subseteq {"crash", "shutdown", "kafka_down_at_start", "database"}
    /\ None \notin Nat

Events == 1..MaxEvents

Ticks == Workers \X Slots

Host(t) == t[1]

VARIABLES
    status,    \* [Events -> status column; "ABSENT" before the insert]
    attempts,  \* [Events -> attempts column]
    due,       \* the events whose next_attempt_at has passed
    worker,    \* [Workers -> life cycle of the process]
    tick,      \* [Ticks -> rows still to handle, the row in hand, the next step]
    copies     \* [Events -> messages the topic holds]

vars == <<status, attempts, due, worker, tick, copies>>

Statuses == {"ABSENT", "PENDING", "PUBLISHING", "PUBLISHED", "DEAD_LETTER"}

\* "unconnected": started while Kafka was down, producer null, the heartbeat check
\* has not stopped the process yet.  "stopping": SIGTERM received, timer cleared, the
\* producer still there or dropped already.
Lives == {"down", "up", "unconnected", "stopping"}

Quiet == [rows |-> {}, cur |-> None, step |-> "loop"]

-----------------------------------------------------------------------------
\* unit-of-work.ts: the row is inserted with the aggregate, in one transaction.
AddEvent(e) ==
    /\ status[e] = "ABSENT" /\ \A d \in Events : d < e => status[d] # "ABSENT"
    /\ status' = [status EXCEPT ![e] = "PENDING"]
    /\ due' = due \cup {e}
    /\ UNCHANGED <<attempts, worker, tick, copies>>

\* next_attempt_at of a row passes.
ComesDue(e) ==
    /\ status[e] = "PENDING" /\ e \notin due
    /\ due' = due \cup {e}
    /\ UNCHANGED <<status, attempts, worker, tick, copies>>

-----------------------------------------------------------------------------
\* outbox.publisher.service.ts

\* A claim that takes the rows another tick has in hand as well.
Claimable_InHand(e) == status[e] \in {"PENDING", "PUBLISHING"} /\ e \in due

\* A claim that leaves out the rows that were tried before.
Claimable_FirstTry(e) == status[e] = "PENDING" /\ e \in due /\ attempts[e] = 0

Claimable(e) == status[e] = "PENDING" /\ e \in due

\* ORDER BY created_at LIMIT batchSize.
Batch == {e \in Events : /\ Claimable(e)
                         /\ Cardinality({d \in 1..e : Claimable(d)}) <= BatchSize}

\* claimPendingEvents: one statement, rows locked by another claim are skipped.
TakeBatch(t) ==
    /\ worker[Host(t)] \in {"up", "unconnected"} /\ tick[t] = Quiet
    /\ Batch # {}
    /\ status' = [e \in Events |-> IF e \in Batch THEN "PUBLISHING" ELSE status[e]]
    /\ attempts' = [e \in Events |-> IF e \in Batch THEN attempts[e] + 1 ELSE attempts[e]]
    /\ UNCHANGED <<due, worker, copies>>

Claim(t) ==
    /\ TakeBatch(t)
    /\ tick' = [tick EXCEPT ![t] = [rows |-> Batch, cur |-> None, step |-> "loop"]]

\* The statement commits and its reply is lost: the tick ends without its rows.
ClaimReplyLost(t) ==
    /\ "database" \in Faults /\ TakeBatch(t)
    /\ UNCHANGED tick

\* The next row of the batch goes to Kafka; RETURNING gives them in any order.
\* KafkaPublisher.publish without a producer returns as if it had sent.  A failed
\* send may still have reached the broker.
Takes(t, e, step) ==
    /\ worker[Host(t)] # "down"
    /\ tick[t].step = "loop" /\ e \in tick[t].rows
    /\ tick' = [tick EXCEPT ![t].cur = e, ![t].step = step]

Send(t, e) ==
    /\ Takes(t, e, "mark")
    /\ worker[Host(t)] \in {"up", "stopping"}
    /\ copies' = [copies EXCEPT ![e] = @ + 1]
    /\ UNCHANGED <<status, attempts, due, worker>>

SkipSend(t, e) ==
    /\ Takes(t, e, "mark")
    /\ worker[Host(t)] \in {"unconnected", "stopping"}
    /\ UNCHANGED <<status, attempts, due, worker, copies>>

\* The error of a failed send is swallowed.
SendFails_Swallowed(t, e) ==
    /\ Takes(t, e, "mark")
    /\ worker[Host(t)] \in {"up", "stopping"}
    /\ UNCHANGED <<status, attempts, due, worker, copies>>

SendFails(t, e) ==
    /\ Takes(t, e, "fail")
    /\ worker[Host(t)] \in {"up", "stopping"}
    /\ copies' \in {copies, [copies EXCEPT ![e] = @ + 1]}
    /\ UNCHANGED <<status, attempts, due, worker>>

\* The row in hand is done with.
Release(t) ==
    tick' = [tick EXCEPT ![t] = [rows |-> tick[t].rows \ {tick[t].cur}, cur |-> None,
                                 step |-> "loop"]]

MarkPublished(t) ==
    /\ tick[t].step = "mark"
    /\ status' = [status EXCEPT ![tick[t].cur] = "PUBLISHED"]
    /\ Release(t)
    /\ UNCHANGED <<attempts, due, worker, copies>>

\* The update throws after the send, having committed (the reply is lost) or not: the
\* catch block treats it as a failed publish.
MarkErrors(t) ==
    /\ "database" \in Faults /\ tick[t].step = "mark"
    /\ status' \in {status, [status EXCEPT ![tick[t].cur] = "PUBLISHED"]}
    /\ tick' = [tick EXCEPT ![t].step = "fail"]
    /\ UNCHANGED <<attempts, due, worker, copies>>

\* Attempts are not compared with the maximum.
StatusAfterFailure_NoLimit(e) == "PENDING"

\* The attempt that failed is counted a second time.
StatusAfterFailure_Early(e) == IF attempts[e] + 1 >= MaxAttempts THEN "DEAD_LETTER" ELSE "PENDING"

StatusAfterFailure(e) == IF attempts[e] >= MaxAttempts THEN "DEAD_LETTER" ELSE "PENDING"

\* markFailed's update: back to PENDING with a delay, or dead-lettered, whatever the
\* row's status is.
PutBack(t) ==
    LET e == tick[t].cur IN
    /\ status' = [status EXCEPT ![e] = StatusAfterFailure(e)]
    /\ due' = due \ {e}

MarkFailed(t) ==
    /\ tick[t].step = "fail"
    /\ PutBack(t) /\ Release(t)
    /\ UNCHANGED <<attempts, worker, copies>>

\* markFailed throws, its update committed or not: the exception leaves the loop and
\* ends the tick, and the rows not handled yet keep the status the claim gave them.
MarkFailedErrors(t) ==
    /\ "database" \in Faults /\ tick[t].step = "fail"
    /\ PutBack(t) \/ UNCHANGED <<status, due>>
    /\ tick' = [tick EXCEPT ![t] = Quiet]
    /\ UNCHANGED <<attempts, worker, copies>>

-----------------------------------------------------------------------------
\* Process life cycle (workers/main.ts, kafka.publisher.ts, worker-heartbeat).

Becomes(w, from, to) == worker[w] = from /\ worker' = [worker EXCEPT ![w] = to]

\* The process is gone, and with it every tick it had.
TicksEnd(w) == tick' = [t \in Ticks |-> IF Host(t) = w THEN Quiet ELSE tick[t]]

Start(w) ==
    /\ Becomes(w, "down", "up")
    /\ UNCHANGED <<status, attempts, due, tick, copies>>

\* producer.connect fails and is swallowed; the tick timer is already running when
\* the first heartbeat finds the producer missing and ends the process.
StartUnconnected(w) ==
    /\ "kafka_down_at_start" \in Faults /\ Becomes(w, "down", "unconnected")
    /\ UNCHANGED <<status, attempts, due, tick, copies>>

HeartbeatFails(w) ==
    /\ Becomes(w, "unconnected", "down") /\ TicksEnd(w)
    /\ UNCHANGED <<status, attempts, due, copies>>

\* SIGTERM: the timer is cleared and the producer disconnected and dropped, at some
\* moment before Exit; ticks are not awaited.
Shutdown(w) ==
    /\ "shutdown" \in Faults /\ Becomes(w, "up", "stopping")
    /\ UNCHANGED <<status, attempts, due, tick, copies>>

Exit(w) ==
    /\ Becomes(w, "stopping", "down") /\ TicksEnd(w)
    /\ UNCHANGED <<status, attempts, due, copies>>

Crash(w) ==
    /\ "crash" \in Faults /\ Becomes(w, "up", "down") /\ TicksEnd(w)
    /\ UNCHANGED <<status, attempts, due, copies>>

-----------------------------------------------------------------------------

Init ==
    /\ status   = [e \in Events |-> "ABSENT"]
    /\ attempts = [e \in Events |-> 0]
    /\ due      = {}
    /\ worker   = [w \in Workers |-> "down"]
    /\ tick     = [t \in Ticks |-> Quiet]
    /\ copies   = [e \in Events |-> 0]

HandleRow(t) ==
    \/ \E e \in Events : Send(t, e) \/ SkipSend(t, e) \/ SendFails(t, e)
    \/ MarkPublished(t) \/ MarkErrors(t) \/ MarkFailed(t) \/ MarkFailedErrors(t)

Life(w) ==
    \/ Start(w) \/ StartUnconnected(w) \/ HeartbeatFails(w)
    \/ Shutdown(w) \/ Exit(w) \/ Crash(w)

Next ==
    \/ \E e \in Events : AddEvent(e) \/ ComesDue(e)
    \/ \E t \in Ticks : Claim(t) \/ ClaimReplyLost(t) \/ HandleRow(t)
    \/ \E w \in Workers : Life(w)

Spec == Init /\ [][Next]_vars

\* Time passes, processes are restarted by their supervisor, ticks run and await
\* what they started.  Faults may come at any time, but not before every tick:
\* the fairness of a claim is strong.
Fairness ==
    /\ \A e \in Events : WF_vars(ComesDue(e))
    /\ \A t \in Ticks : SF_vars(Claim(t)) /\ WF_vars(HandleRow(t))
    /\ \A w \in Workers : WF_vars(Start(w)) /\ WF_vars(HeartbeatFails(w) \/ Exit(w))

FairSpec == Spec /\ Fairness

-----------------------------------------------------------------------------
\* Properties.

\* Columns, processes and ticks have their types, and no row is tried more often
\* than maxAttempts allows.
TypeOK ==
    /\ status   \in [Events -> Statuses]
    /\ attempts \in [Events -> 0..MaxAttempts]
    /\ due      \in SUBSET Events
    /\ worker   \in [Workers -> Lives]
    /\ tick     \in [Ticks -> [rows: SUBSET Events, cur: Events \cup {None},
                               step: {"loop", "mark", "fail"}]]
    /\ copies   \in [Events -> Nat]

\* A tick of the row has it as PUBLISHED and believes the update failed.
Unacknowledged(t, e) ==
    tick[t].step = "fail" /\ tick[t].cur = e /\ status[e] = "PUBLISHED"

\* Overlapping ticks and workers never have the same row in hand, and a row in hand is
\* PUBLISHING, or PUBLISHED by the very tick that takes its update for failed: nobody
\* else sends it or decides about it.
ClaimsAreExclusive ==
    \A t \in Ticks : \A e \in tick[t].rows :
        /\ status[e] = "PUBLISHING" \/ Unacknowledged(t, e)
        /\ \A u \in Ticks : e \in tick[u].rows => u = t

\* Duplicates are bounded: every copy of an event on the topic has its own claim,
\* so there are at most maxAttempts, and a dead-lettered row used them all.
CopiesAreBounded ==
    \A e \in Events : /\ copies[e] <= attempts[e]
                      /\ status[e] = "DEAD_LETTER" => attempts[e] = MaxAttempts

\* A row marked DEAD_LETTER stays so and a row marked PUBLISHED is not sent again, also
\* by ticks that overlap the one that marked it; the only one that may take PUBLISHED
\* back is the tick that set it and lost the reply.
OnlyALostReplyReopens ==
    [][\A e \in Events : status[e] \in {"PUBLISHED", "DEAD_LETTER"} =>
          /\ copies'[e] = copies[e]
          /\ \/ status'[e] = status[e]
             \/ \E t \in Ticks : Unacknowledged(t, e) /\ tick'[t] # tick[t]]_vars

\* Nobody will decide about the row any more.
Left(e) == \A t \in Ticks : e \notin tick[t].rows

Delivery == INSTANCE AtLeastOnce WITH
    phase <- [e \in Events |-> CASE status[e] = "ABSENT"                -> "unborn"
                                 [] status[e] = "PUBLISHED" /\ Left(e) -> "delivered"
                                 [] status[e] = "DEAD_LETTER"           -> "dead"
                                 [] OTHER                               -> "open"]

\* The relay delivers at least once: a row is left as PUBLISHED only when the topic
\* has the event.  (No process stops or starts without a producer: see the
\* instance.)
DeliversAtLeastOnce == Delivery!Spec

\* The same of one state: an event that is marked PUBLISHED is on the topic.
PublishedWasSent == \A e \in Events : status[e] = "PUBLISHED" => copies[e] > 0

\* A claimed row that no tick has in hand: the process died or the database failed.
Stranded(e) == status[e] = "PUBLISHING" /\ Left(e)

\* A process ends, a claim loses its reply, or marking a row as failed fails.
Fault ==
    \/ \E w \in Workers : worker[w] # "down" /\ worker'[w] = "down"
    \/ \E t \in Ticks : ClaimReplyLost(t) \/ MarkFailedErrors(t)

\* However ticks and workers overlap, only a fault strands a row; and a stranded row is
\* never claimed, sent or marked again, also not when its worker is back.
OnlyFaultsStrand ==
    [][\A e \in Events :
          /\ Stranded(e)' => Stranded(e) \/ Fault
          /\ Stranded(e) => Stranded(e)' /\ copies'[e] = copies[e]]_vars

\* Every committed event is published or dead-lettered in the end and let go of,
\* whatever fails; the one way to lose it is that a fault strands the row while it is
\* claimed.
EventsLeaveOrStrand ==
    \A e \in Events :
        status[e] = "PENDING" ~>
            (status[e] \in {"PUBLISHED", "DEAD_LETTER"} /\ Left(e)) \/ Stranded(e)

=============================================================================
