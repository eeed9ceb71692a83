-------------------------- MODULE ConsentedPayments ---------------------------
(***************************************************************************)
(* Payments under consents that end while calls are in flight: Payments    *)
(* composed with the access decision that create and cancel ask for.       *)
(*                                                                         *)
(* A decision reads the consent and is not repeated when the transaction   *)
(* commits, so a call decided before the access ended completes after it.  *)
(* Create decides first and then looks for the key; cancel reads the       *)
(* payment first and decides on the consent of that payment.  Authorize,   *)
(* submit, callbacks and reconciliation never look at the consent.         *)
(*                                                                         *)
(* How a consent comes to grant access and loses it is the subject of      *)
(* Identity; here its access comes and goes.                               *)
(***************************************************************************)
EXTENDS Payments

CONSTANT Consents

ASSUME ConsentsAssumption == None \notin Consents /\ IsFiniteSet(Requests)

VARIABLES
    accessible,  \* the consents a decision allows access under now
    consentOf,   \* column consentId of payments: [PaymentIds -> consent or None]
    decision,    \* the consent each call was allowed under, or None
    late         \* history: creates and cancels completed under a consent since its
                 \* access ended

consentVars == <<accessible, consentOf, decision, late>>
allVars == <<vars, consentVars>>

-----------------------------------------------------------------------------
\* AuthorizationDecisionService

\* The consent is not asked.
requireAccountAccess_Skipped(c) == c \in Consents

requireAccountAccess(c) == c \in accessible

Decide(x, c) ==
    /\ decision[x] = None /\ requireAccountAccess(c)
    /\ decision' = [decision EXCEPT ![x] = c]
    /\ UNCHANGED <<vars, accessible, consentOf, late>>

Forget(x) == decision' = [decision EXCEPT ![x] = None]

\* A call ends with success.
Serve(x) ==
    /\ decision[x] # None
    /\ late' = IF decision[x] \in accessible THEN late
               ELSE [late EXCEPT ![decision[x]] = @ + 1]
    /\ Forget(x)
    /\ UNCHANGED accessible

-----------------------------------------------------------------------------
\* create-payment.use-case.ts: the key is looked up per client, not per consent.

DecideCreate(x, c) == IsIdle(x) /\ Decide(x, c)

ConsentedCreate(x) ==
    \/ \E key \in Keys \cup {None}, p \in PaymentIds :
          decision[x] # None /\ CreateRead(x, key, p) /\ UNCHANGED consentVars
    \/ /\ \E key \in Keys, p \in PaymentIds :
             CreateReplay(x, key, p) \/ CreateRaced(x, key, p)
       /\ Serve(x) /\ UNCHANGED consentOf
    \/ /\ CreateCommit(x) /\ Serve(x)
       /\ consentOf' = [consentOf EXCEPT ![proc[x].payment] = decision[x]]

\* cancel-payment.use-case.ts

DecideCancel(x) == proc[x].op = "cancel" /\ Decide(x, consentOf[proc[x].payment])

ConsentedCancel(x) ==
    \/ \E p \in PaymentIds :
          decision[x] = None /\ CancelRead(x, p) /\ UNCHANGED consentVars
    \/ CancelCommit(x) /\ Serve(x) /\ UNCHANGED consentOf

\* The calls that do not decide.
UndecidedStep(x) ==
    /\ decision[x] = None
    /\ \/ \E p \in PaymentIds : AuthorizeRead(x, p) \/ SubmitRead(x, p)
       \/ AuthorizeCommit(x) \/ SubmitCommit(x)
       \/ \E pid \in ProviderIds, s \in ReportedStatuses : SubmitCall(x, pid, s)
       \/ CallbackStep(x)
    /\ UNCHANGED consentVars

\* The call fails or its process dies, also between the decision and the first read.
ConsentedAbort(x) ==
    /\ Abort(x) \/ (IsIdle(x) /\ decision[x] # None /\ UNCHANGED vars)
    /\ Forget(x)
    /\ UNCHANGED <<accessible, consentOf, late>>

-----------------------------------------------------------------------------
\* The consents: revoked or expired; activated, or reopened by a stale save.

AccessEnds(c) ==
    /\ c \in accessible
    /\ accessible' = accessible \ {c}
    /\ late' = [late EXCEPT ![c] = 0]
    /\ UNCHANGED <<vars, consentOf, decision>>

AccessReturns(c) ==
    /\ c \notin accessible
    /\ accessible' = accessible \cup {c}
    /\ late' = [late EXCEPT ![c] = 0]
    /\ UNCHANGED <<vars, consentOf, decision>>

-----------------------------------------------------------------------------

ConsentedInit ==
    /\ Init
    /\ accessible = {}
    /\ consentOf = [p \in PaymentIds |-> None]
    /\ decision = [x \in Procs |-> None]
    /\ late = [c \in Consents |-> 0]

ConsentedNext ==
    \/ \E x \in Requests :
         \/ \E c \in Consents : DecideCreate(x, c)
         \/ DecideCancel(x) \/ ConsentedCreate(x) \/ ConsentedCancel(x)
         \/ UndecidedStep(x)
    \/ \E x \in Workers : ReconcileStep(x) /\ UNCHANGED consentVars
    \/ \E x \in Procs : ConsentedAbort(x)
    \/ ProviderStep /\ UNCHANGED consentVars
    \/ \E c \in Consents : AccessEnds(c) \/ AccessReturns(c)

ConsentedSpec == ConsentedInit /\ [][ConsentedNext]_allVars

-----------------------------------------------------------------------------
\* Properties.

\* Revocation shuts the door behind the calls inside: the creates and cancels that
\* complete under a consent after its access ended, and those that still can, are
\* never more than the calls that can be in flight when it ends.
OnlyDecidedCallsAreLate ==
    \A c \in Consents \ accessible :
        late[c] + Cardinality({x \in Procs : decision[x] = c}) <= Cardinality(Requests)

=============================================================================
