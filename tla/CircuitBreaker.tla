---------------------------- MODULE CircuitBreaker ----------------------------
(***************************************************************************)
(* A circuit breaker with calls that overlap, each under withRetry: the    *)
(* composition the provider integration is documented to use.  No source   *)
(* file outside the tests constructs either of them yet.                   *)
(*                                                                         *)
(* The breaker has no queue and no token for a call: a call reports to     *)
(* whatever state the breaker is in when it ends, also to one that opened  *)
(* or half-opened since it began.  Time is whether the cool-down of an     *)
(* open breaker has passed; a wait between attempts takes any time.        *)
(***************************************************************************)
EXTENDS Naturals, FiniteSets

CONSTANTS
    Callers,           \* calls in flight at once
    FailureThreshold,
    SuccessThreshold,  \* halfOpenSuccessThreshold
    RetryAttempts        \* of withRetry

ASSUME BreakerAssumption ==
    /\ FailureThreshold \in Nat \ {0} /\ SuccessThreshold \in Nat \ {0}
    /\ RetryAttempts \in Nat \ {0} /\ IsFiniteSet(Callers)

VARIABLES
    breaker,   \* the fields of the CircuitBreaker; cooled stands for openedAtMs
    caller,    \* the call each caller is in
    healthy,   \* the provider works
    failures   \* history: failed operations since one succeeded or the breaker half-opened

breakerVars == <<breaker, caller, healthy, failures>>

Resting == [pc |-> "rest", attempt |-> 0, doomed |-> FALSE]

-----------------------------------------------------------------------------
\* CircuitBreaker: each method takes the fields and returns them changed.

reset == [state |-> "closed", failureCount |-> 0, successCount |-> 0, cooled |-> FALSE]

trip == [state |-> "open", failureCount |-> 0, successCount |-> 0, cooled |-> FALSE]

\* Only getState looks at the time.
evaluateStateTransition_Never(b) == b

evaluateStateTransition(b) ==
    IF b.state = "open" /\ b.cooled
    THEN [b EXCEPT !.state = "half_open", !.successCount = 0, !.cooled = FALSE] ELSE b

onSuccess(b) ==
    IF b.state # "half_open" THEN [b EXCEPT !.failureCount = 0]
    ELSE IF b.successCount + 1 >= SuccessThreshold THEN reset
    ELSE [b EXCEPT !.successCount = @ + 1]

\* One failure more than the threshold.
onFailure_OneMore(b) ==
    IF b.state = "half_open" \/ b.failureCount + 1 > FailureThreshold THEN trip
    ELSE [b EXCEPT !.failureCount = @ + 1]

onFailure(b) ==
    IF b.state = "half_open" \/ b.failureCount + 1 >= FailureThreshold THEN trip
    ELSE [b EXCEPT !.failureCount = @ + 1]

-----------------------------------------------------------------------------
\* withRetry: what follows a failed attempt.  An error of the operation is retryable
\* or not; a rejection by the breaker is an Error without a code: retryable.

AfterFailure(x, attempt, retryable) ==
    caller' = [caller EXCEPT ![x] =
        IF attempt >= RetryAttempts \/ ~retryable THEN Resting
        ELSE [pc |-> "wait", attempt |-> attempt, doomed |-> FALSE]]

\* A new call, or the next attempt after the wait.
Attempts(x) == caller[x].pc \in {"rest", "wait"}

\* execute: the operation starts.  It is doomed if the provider does not work then.
Starts(x) ==
    LET b == evaluateStateTransition(breaker) IN
    /\ Attempts(x) /\ b.state # "open"
    /\ breaker' = b
    /\ failures' = IF b # breaker THEN 0 ELSE failures
    /\ caller' = [caller EXCEPT ![x] = [pc |-> "run", attempt |-> @.attempt + 1, doomed |-> ~healthy]]
    /\ UNCHANGED healthy

\* execute: CircuitOpenError.
Rejected(x) ==
    /\ Attempts(x) /\ evaluateStateTransition(breaker).state = "open"
    /\ AfterFailure(x, caller[x].attempt + 1, TRUE)
    /\ UNCHANGED <<breaker, healthy, failures>>

Succeeds(x) ==
    /\ caller[x].pc = "run" /\ (healthy \/ ~caller[x].doomed)
    /\ breaker' = onSuccess(breaker)
    /\ failures' = 0
    /\ caller' = [caller EXCEPT ![x] = Resting]
    /\ UNCHANGED healthy

Fails(x, retryable) ==
    /\ caller[x].pc = "run" /\ (caller[x].doomed \/ ~healthy)
    /\ breaker' = onFailure(breaker)
    /\ failures' = failures + 1
    /\ AfterFailure(x, caller[x].attempt, retryable)
    /\ UNCHANGED healthy

\* Somebody looks at the state.
getState ==
    /\ breaker' = evaluateStateTransition(breaker)
    /\ failures' = IF breaker' # breaker THEN 0 ELSE failures
    /\ UNCHANGED <<caller, healthy>>

-----------------------------------------------------------------------------
\* Time and the provider (external).

CoolsDown ==
    /\ breaker.state = "open" /\ ~breaker.cooled
    /\ breaker' = [breaker EXCEPT !.cooled = TRUE]
    /\ UNCHANGED <<caller, healthy, failures>>

ProviderChanges ==
    /\ healthy' = ~healthy
    /\ UNCHANGED <<breaker, caller, failures>>

BreakerInit ==
    /\ breaker = reset
    /\ caller = [x \in Callers |-> Resting]
    /\ healthy = TRUE /\ failures = 0

BreakerNext ==
    \/ \E x \in Callers :
         \/ Starts(x) \/ Rejected(x) \/ Succeeds(x)
         \/ \E retryable \in BOOLEAN : Fails(x, retryable)
    \/ getState \/ CoolsDown \/ ProviderChanges

BreakerSpec == BreakerInit /\ [][BreakerNext]_breakerVars

\* The operation of a call comes to an end.
CallEnds(x) == Succeeds(x) \/ \E retryable \in BOOLEAN : Fails(x, retryable)

-----------------------------------------------------------------------------
\* Properties.

\* Fields, callers and the history have their types.
BreakerTypeOK ==
    /\ breaker \in [state: {"closed", "open", "half_open"}, cooled: BOOLEAN,
                    failureCount: 0..(FailureThreshold - 1),
                    successCount: 0..(SuccessThreshold - 1)]
    /\ caller \in [Callers -> [pc: {"rest", "wait", "run"},
                               attempt: 0..RetryAttempts, doomed: BOOLEAN]]
    /\ healthy \in BOOLEAN /\ failures \in Nat

\* A provider that only fails is spared: the operations that fail on it before the
\* breaker lets any through again are the threshold and the calls that were in
\* flight beside the last of those, retries, rejections and late results included.
FailuresAreContained == failures <= FailureThreshold + Cardinality(Callers) - 1

\* Once the provider works for good callers are not rejected for ever: results of
\* calls from before can open the breaker again, but not again and again.
RejectionsEnd ==
    <>[]healthy => <>[][\A x \in Callers : ~Rejected(x)]_breakerVars

=============================================================================
