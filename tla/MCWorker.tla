------------------------------- MODULE MCWorker -------------------------------
(***************************************************************************)
(* Instances of what runs on timers and against a provider or broker that  *)
(* fails: the outbox relay, the reconciliation batches and the circuit     *)
(* breaker.  They share no state, so a behaviour is one of one part while  *)
(* the others rest, and the states of the parts add up.                    *)
(***************************************************************************)
EXTENDS Outbox, Reconciliation, CircuitBreaker, TLC

CONSTANTS w1, s1, s2, t1, t2, t3, x1, x2, x3

VARIABLE part

partVars == <<part, vars, pollVars, breakerVars>>

\* A part that rests has one initial state.
PartInit ==
    /\ part \in {"relay", "polls", "breaker"}
    /\ Init /\ PollsInit /\ BreakerInit
    /\ part # "polls" => down = {}

\* What a step of each part leaves alone.
RelayOnly == part = "relay" /\ UNCHANGED <<part, pollVars, breakerVars>>

PollsOnly == part = "polls" /\ UNCHANGED <<part, vars, breakerVars>>

BreakerOnly == part = "breaker" /\ UNCHANGED <<part, vars, pollVars>>

PartNext ==
    \/ Next /\ RelayOnly
    \/ PollsNext /\ PollsOnly
    \/ BreakerNext /\ BreakerOnly

\* The fairness of Outbox for the relay; the worker's timer keeps firing; neither the
\* calls that poll a payment nor those made through the breaker fail or hang for
\* ever, and time passes.
PartFairness ==
    /\ \A e \in Events : WF_partVars(ComesDue(e) /\ RelayOnly)
    /\ \A t \in Ticks : /\ SF_partVars(Claim(t) /\ RelayOnly)
                        /\ WF_partVars(HandleRow(t) /\ RelayOnly)
    /\ \A w \in Workers : /\ WF_partVars(Start(w) /\ RelayOnly)
                          /\ WF_partVars((HeartbeatFails(w) \/ Exit(w)) /\ RelayOnly)
    /\ WF_partVars(StartTick /\ PollsOnly)
    /\ \A t \in Transfers : SF_partVars(PollSucceeds(t) /\ PollsOnly)
    /\ WF_partVars(CoolsDown /\ BreakerOnly)
    /\ \A x \in Callers : WF_partVars(CallEnds(x) /\ BreakerOnly)

PartSpec == PartInit /\ [][PartNext]_partVars /\ PartFairness

\* The state of the reconciliation and of the breaker has its type.
PartTypeOK == PollsTypeOK /\ BreakerTypeOK

=============================================================================
