---------------------------- MODULE Reconciliation ----------------------------
(***************************************************************************)
(* The reconciliation worker's batches: which payments are polled, in      *)
(* which order, and who waits.                                             *)
(*                                                                         *)
(* A tick polls a bounded number of SUBMITTED payments, the least recently *)
(* updated first, one after the other.  A poll that changes nothing does   *)
(* not touch updatedAt, so its payment keeps its place in the line.  How   *)
(* a poll and other calls race for one row is the subject of Payments; a   *)
(* poll is one step here, and ticks do not overlap.                        *)
(***************************************************************************)
EXTENDS ProviderAdapters, Sequences, FiniteSets

CONSTANTS
    Transfers,   \* payments that have been authorized
    Providers,   \* the providers they go to
    Digits,      \* last digits of provider payment ids
    Words,       \* what webhooks say
    BatchLimit,  \* payments a tick takes: 25
    Unsent

ASSUME ReconciliationAssumption ==
    /\ Providers \subseteq ProviderCodes /\ Digits \subseteq 0..15
    /\ BatchLimit \in Nat \ {0} /\ IsFiniteSet(Transfers)
    /\ Unsent \notin [code: Providers, digit: Digits, status: PaymentStatus]

VARIABLES
    transfer,  \* the payments: [Transfers -> row or Unsent]
    waiting,   \* the SUBMITTED ones with a provider id, by updatedAt
    batch,     \* what is left of the batch of the tick that is running
    down       \* providers that do not answer at all

pollVars == <<transfer, waiting, batch, down>>

Waiting(t) == \E i \in DOMAIN waiting : waiting[i] = t

\* What a poll of t would move it to, if the provider answers.
PollTarget(t) ==
    IF transfer[t].code \in down THEN {}
    ELSE Reached(transfer[t].status, getPaymentStatus(transfer[t].code, transfer[t].digit))

\* A poll of t does nothing for it.
Stuck(t) == PollTarget(t) = {}

Positions(k) == 1..(IF k < Len(waiting) THEN k ELSE Len(waiting))

\* The latest update comes first.
findSubmitted_NewestFirst(limit) ==
    [i \in Positions(limit) |-> waiting[Len(waiting) + 1 - i]]

findSubmitted(limit) == [i \in Positions(limit) |-> waiting[i]]

\* t is in the line once, and those behind it close up.
LeaveLine(t) ==
    \E place \in DOMAIN waiting :
        /\ waiting[place] = t
        /\ waiting' = [i \in 1..(Len(waiting) - 1) |-> waiting[IF i < place THEN i ELSE i + 1]]

\* applyProviderStatus and save: no target of a SUBMITTED payment is SUBMITTED.
MoveTo(t, status) ==
    /\ transfer' = [transfer EXCEPT ![t].status = status]
    /\ IF Waiting(t) THEN LeaveLine(t) ELSE UNCHANGED waiting

-----------------------------------------------------------------------------
\* PaymentReconciliationService

\* PaymentReconciliationWorker.tick, reconcilePending: the batch is read.
StartTick ==
    /\ batch = << >> /\ waiting # << >>
    /\ batch' = findSubmitted(BatchLimit)
    /\ UNCHANGED <<transfer, waiting, down>>

\* reconcilePayment of the next payment.
AtHead(t) == batch # << >> /\ Head(batch) = t

\* It is still SUBMITTED and the provider's answer moves it.
PollMoves(t) ==
    /\ AtHead(t) /\ Waiting(t)
    /\ \E target \in PollTarget(t) : MoveTo(t, target)
    /\ batch' = Tail(batch)
    /\ UNCHANGED down

\* A webhook moved it since the batch was read, or the answer changes nothing, or
\* the provider does not answer.
PollLeaves(t) ==
    /\ AtHead(t) /\ (~Waiting(t) \/ Stuck(t))
    /\ batch' = Tail(batch)
    /\ UNCHANGED <<transfer, waiting, down>>

\* A call fails this once: the catch block lets the batch go on.
PollFails(t) ==
    /\ AtHead(t)
    /\ batch' = Tail(batch)
    /\ UNCHANGED <<transfer, waiting, down>>

\* The read before the try block fails, or the process dies: the batch ends here.
TickEnds ==
    /\ batch # << >>
    /\ batch' = << >>
    /\ UNCHANGED <<transfer, waiting, down>>

-----------------------------------------------------------------------------
\* submit-payment and process-provider-callback.

SubmitTransfer(t, code, digit) ==
    /\ transfer[t] = Unsent
    /\ transfer' = [transfer EXCEPT ![t] = [code |-> code, digit |-> digit, status |-> "SUBMITTED"]]
    /\ waiting' = Append(waiting, t)
    /\ UNCHANGED <<batch, down>>

Callback(t, word) ==
    /\ transfer[t] # Unsent
    /\ \E target \in Reached(transfer[t].status, ReportedBy(transfer[t].code, word)) :
          MoveTo(t, target)
    /\ UNCHANGED <<batch, down>>

\* An outage ends (external).
ProviderReturns(code) ==
    /\ code \in down
    /\ down' = down \ {code}
    /\ UNCHANGED <<transfer, waiting, batch>>

-----------------------------------------------------------------------------

PollsInit ==
    /\ transfer = [t \in Transfers |-> Unsent]
    /\ waiting = << >> /\ batch = << >>
    /\ down \in SUBSET Providers

PollsNext ==
    \/ StartTick \/ TickEnds
    \/ \E t \in Transfers :
         \/ PollMoves(t) \/ PollLeaves(t) \/ PollFails(t)
         \/ \E code \in Providers, digit \in Digits : SubmitTransfer(t, code, digit)
         \/ \E word \in Words : Callback(t, word)
    \/ \E code \in Providers : ProviderReturns(code)

PollsSpec == PollsInit /\ [][PollsNext]_pollVars

PollSucceeds(t) == PollMoves(t) \/ PollLeaves(t)

-----------------------------------------------------------------------------
\* Properties.

\* Rows, the line and the batch have their types, and the line is the SUBMITTED rows.
PollsTypeOK ==
    /\ transfer \in [Transfers -> [code: Providers, digit: Digits, status: PaymentStatus]
                                      \cup {Unsent}]
    /\ \A t \in Transfers :
          Waiting(t) <=> transfer[t] # Unsent /\ transfer[t].status = "SUBMITTED"
    /\ Len(waiting) <= Cardinality(Transfers) /\ Len(batch) <= BatchLimit
    /\ down \subseteq Providers

\* Those who wait and were updated before t.
Ahead(t) == {u \in Transfers : \E i, j \in DOMAIN waiting :
                                  i < j /\ waiting[i] = u /\ waiting[j] = t}

\* The batch is full of payments ahead of t that no poll moves.
ShutOut(t) == Cardinality({u \in Ahead(t) : Stuck(u)}) >= BatchLimit

\* Whatever polls and ticks fail, a payment whose provider answers with a new status
\* is moved on, also when it waits behind payments that no poll can move: the only
\* thing that starves it is a whole batch of those.
OnlyAFullBatchStarves ==
    \A t \in Transfers : []<>(Waiting(t) => Stuck(t) \/ ShutOut(t))

\* What progress rests on, of every single tick: if the answer to a poll would move any
\* payment that is not shut out, then the batch holds one that it would move.
TicksTakeTheMovable ==
    [][StartTick /\ (\E t \in Transfers : Waiting(t) /\ ~Stuck(t) /\ ~ShutOut(t)) =>
          \E i \in DOMAIN batch' : ~Stuck(batch'[i])]_pollVars

=============================================================================
