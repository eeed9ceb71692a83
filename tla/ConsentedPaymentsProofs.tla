------------------------ MODULE ConsentedPaymentsProofs ------------------------
(***************************************************************************)
(* Payments under consents, for any numbers of both and of calls: what can *)
(* still complete under a consent after its access ended, and that asking  *)
(* for a consent takes behaviours of Payments away and adds none, so that  *)
(* what is proved of Payments holds under consents too.                    *)
(***************************************************************************)
EXTENDS ConsentedPayments, PaymentOutcomesProofs, FiniteSetTheorems

\* The calls allowed under consent c that have not ended.
Decided(c) == {x \in Procs : decision[x] = c}

\* Only requests ask for a decision.
DecisionsFit ==
    /\ accessible \in SUBSET Consents
    /\ decision \in [Procs -> Consents \cup {None}]
    /\ late \in [Consents -> Nat]
    /\ \A x \in Procs : decision[x] # None => x \in Requests

LateInv == DecisionsFit /\ OnlyDecidedCallsAreLate

-----------------------------------------------------------------------------
\* Counting decisions.

LEMMA RequestsCount == IsFiniteSet(Requests) /\ Cardinality(Requests) \in Nat
  BY ConsentsAssumption, FS_CardinalityType

LEMMA DecidedCount ==
    ASSUME DecisionsFit, NEW c \in Consents
    PROVE  /\ IsFiniteSet(Decided(c)) /\ Cardinality(Decided(c)) \in Nat
           /\ Cardinality(Decided(c)) <= Cardinality(Requests)
  <1>1. Decided(c) \subseteq Requests
    BY ConsentsAssumption DEF Decided, DecisionsFit
  <1> QED BY <1>1, RequestsCount, FS_Subset, FS_CardinalityType

\* A smaller set of decisions, and no call more that is late: what the property says
\* of consent c still holds.
LEMMA FewerDecided ==
    ASSUME LateInv, NEW c \in Consents, c \notin accessible,
           Decided(c)' \subseteq Decided(c), late'[c] = late[c]
    PROVE  late'[c] + Cardinality(Decided(c)') <= Cardinality(Requests)
  <1>1. /\ IsFiniteSet(Decided(c)) /\ Cardinality(Decided(c)) \in Nat
        /\ Cardinality(Decided(c)') \in Nat
        /\ Cardinality(Decided(c)') <= Cardinality(Decided(c))
    BY DecidedCount, FS_Subset, FS_CardinalityType DEF LateInv
  <1>2. late[c] + Cardinality(Decided(c)) <= Cardinality(Requests) /\ late[c] \in Nat
    BY DEF LateInv, OnlyDecidedCallsAreLate, Decided, DecisionsFit
  <1> QED BY <1>1, <1>2, RequestsCount

LEMMA LateByConsent ==
    ASSUME \A c \in Consents : c \notin accessible' =>
              late'[c] + Cardinality(Decided(c)') <= Cardinality(Requests)
    PROVE  OnlyDecidedCallsAreLate'
  BY DEF OnlyDecidedCallsAreLate, Decided

-----------------------------------------------------------------------------
\* The steps on decisions.

LEMMA LateInit == ConsentedInit => LateInv
  <1> SUFFICES ASSUME ConsentedInit PROVE LateInv
    OBVIOUS
  <1>1. DecisionsFit
    BY DEF ConsentedInit, DecisionsFit
  <1>2. ASSUME NEW c \in Consents
        PROVE  late[c] + Cardinality(Decided(c)) <= Cardinality(Requests)
    <2>1. late[c] = 0
      BY DEF ConsentedInit
    <2> QED BY <1>1, <2>1, DecidedCount, RequestsCount
  <1> QED BY <1>1, <1>2 DEF LateInv, OnlyDecidedCallsAreLate, Decided

LEMMA DecideLate ==
    ASSUME LateInv, NEW x \in Requests, NEW c, Decide(x, c)
    PROVE  LateInv'
  <1>1. /\ c \in accessible /\ c \in Consents /\ x \in Procs
        /\ decision' = [decision EXCEPT ![x] = c] /\ decision[x] = None
        /\ UNCHANGED <<accessible, late>>
    BY DEF Decide, requireAccountAccess, LateInv, DecisionsFit, Procs
  <1>2. DecisionsFit'
    BY <1>1, ConsentsAssumption DEF LateInv, DecisionsFit
  <1>3. ASSUME NEW d \in Consents, d \notin accessible'
        PROVE  late'[d] + Cardinality(Decided(d)') <= Cardinality(Requests)
    <2>1. Decided(d)' \subseteq Decided(d)
      BY <1>1, <1>3 DEF Decided, LateInv, DecisionsFit
    <2> QED BY <1>1, <1>3, <2>1, FewerDecided
  <1> QED BY <1>2, <1>3, LateByConsent DEF LateInv

LEMMA ServeLate ==
    ASSUME LateInv, NEW x \in Requests, Serve(x)
    PROVE  LateInv'
  <1> DEFINE c == decision[x]
  <1>1. /\ c \in Consents /\ x \in Procs /\ accessible' = accessible
        /\ decision' = [decision EXCEPT ![x] = None]
        /\ late' = IF c \in accessible THEN late ELSE [late EXCEPT ![c] = @ + 1]
    BY DEF Serve, Forget, LateInv, DecisionsFit, Procs
  <1>2. late' \in [Consents -> Nat]
    BY <1>1 DEF LateInv, DecisionsFit
  <1>3. DecisionsFit'
    BY <1>1, <1>2 DEF LateInv, DecisionsFit
  <1>4. ASSUME NEW d \in Consents, d \notin accessible'
        PROVE  late'[d] + Cardinality(Decided(d)') <= Cardinality(Requests)
    <2>1. Decided(d)' = Decided(d) \ {x}
      BY <1>1, ConsentsAssumption DEF Decided, LateInv, DecisionsFit
    <2>2. CASE d # c
      <3>1. late'[d] = late[d]
        BY <1>1, <2>2 DEF LateInv, DecisionsFit
      <3> QED BY <1>1, <1>4, <2>1, <3>1, FewerDecided
    \* One more is late, and one less can still be.
    <2>3. CASE d = c
      <3>1. late[d] \in Nat /\ late'[d] = late[d] + 1
        BY <1>1, <1>4, <2>3 DEF LateInv, DecisionsFit
      <3>2. x \in Decided(d)
        BY <1>1, <2>3 DEF Decided
      <3>3. IsFiniteSet(Decided(d)) /\ Cardinality(Decided(d)) \in Nat
        BY DecidedCount DEF LateInv
      <3>4. Cardinality(Decided(d)') = Cardinality(Decided(d)) - 1
        BY <2>1, <3>2, <3>3, FS_RemoveElement
      <3>5. late[d] + Cardinality(Decided(d)) <= Cardinality(Requests)
        BY <1>1, <1>4 DEF LateInv, OnlyDecidedCallsAreLate, Decided
      <3> QED BY <3>1, <3>3, <3>4, <3>5, RequestsCount
    <2> QED BY <2>2, <2>3
  <1> QED BY <1>3, <1>4, LateByConsent DEF LateInv

LEMMA AbortLate ==
    ASSUME LateInv, NEW x \in Procs, ConsentedAbort(x)
    PROVE  LateInv'
  <1>1. /\ decision' = [decision EXCEPT ![x] = None]
        /\ UNCHANGED <<accessible, late>>
    BY DEF ConsentedAbort, Forget
  <1>2. DecisionsFit'
    BY <1>1 DEF LateInv, DecisionsFit
  <1>3. ASSUME NEW d \in Consents, d \notin accessible'
        PROVE  late'[d] + Cardinality(Decided(d)') <= Cardinality(Requests)
    <2>1. Decided(d)' \subseteq Decided(d)
      BY <1>1, ConsentsAssumption DEF Decided, LateInv, DecisionsFit
    <2> QED BY <1>1, <1>3, <2>1, FewerDecided
  <1> QED BY <1>2, <1>3, LateByConsent DEF LateInv

LEMMA AccessLate ==
    ASSUME LateInv, NEW c \in Consents, AccessEnds(c) \/ AccessReturns(c)
    PROVE  LateInv'
  <1>1. /\ decision' = decision /\ late' = [late EXCEPT ![c] = 0]
        /\ accessible' \in {accessible \ {c}, accessible \cup {c}}
    BY DEF AccessEnds, AccessReturns
  <1>2. DecisionsFit'
    BY <1>1 DEF LateInv, DecisionsFit
  <1>3. ASSUME NEW d \in Consents, d \notin accessible'
        PROVE  late'[d] + Cardinality(Decided(d)') <= Cardinality(Requests)
    <2>1. Decided(d)' = Decided(d)
      BY <1>1 DEF Decided
    <2>2. CASE d = c
      <3>1. late'[d] = 0
        BY <1>1, <2>2 DEF LateInv, DecisionsFit
      <3> QED BY <2>1, <3>1, DecidedCount, RequestsCount DEF LateInv
    <2>3. CASE d # c
      <3>1. d \notin accessible /\ late'[d] = late[d]
        BY <1>1, <1>3, <2>3 DEF LateInv, DecisionsFit
      <3> QED BY <2>1, <3>1, FewerDecided
    <2> QED BY <2>2, <2>3
  <1> QED BY <1>2, <1>3, LateByConsent DEF LateInv

LEMMA LateStep == LateInv /\ [ConsentedNext]_allVars => LateInv'
  <1> SUFFICES ASSUME LateInv, [ConsentedNext]_allVars PROVE LateInv'
    OBVIOUS
  <1>1. ASSUME UNCHANGED consentVars PROVE LateInv'
    BY <1>1 DEF consentVars, LateInv, DecisionsFit, OnlyDecidedCallsAreLate
  <1>2. ASSUME NEW x \in Requests, NEW c \in Consents, DecideCreate(x, c) PROVE LateInv'
    BY <1>2, DecideLate DEF DecideCreate
  <1>3. ASSUME NEW x \in Requests, DecideCancel(x) PROVE LateInv'
    BY <1>3, DecideLate DEF DecideCancel
  <1>4. ASSUME NEW x \in Requests, ConsentedCreate(x) \/ ConsentedCancel(x) PROVE LateInv'
    BY <1>1, <1>4, ServeLate DEF ConsentedCreate, ConsentedCancel
  <1>5. ASSUME NEW x \in Requests, UndecidedStep(x) PROVE LateInv'
    BY <1>1, <1>5 DEF UndecidedStep
  <1>6. ASSUME NEW x \in Procs, ConsentedAbort(x) PROVE LateInv'
    BY <1>6, AbortLate
  <1>7. ASSUME NEW c \in Consents, AccessEnds(c) \/ AccessReturns(c) PROVE LateInv'
    BY <1>7, AccessLate
  <1>8. CASE UNCHANGED allVars
    BY <1>1, <1>8 DEF allVars
  <1> QED BY <1>1, <1>2, <1>3, <1>4, <1>5, <1>6, <1>7, <1>8 DEF ConsentedNext

-----------------------------------------------------------------------------
\* Whatever payments and callbacks do meanwhile: of the calls that create or cancel
\* under a consent, no more complete after its access ended than were in flight then.
THEOREM LateCallsAreBounded == ConsentedSpec => []OnlyDecidedCallsAreLate
  <1>1. LateInv => OnlyDecidedCallsAreLate
    BY DEF LateInv
  <1> QED BY <1>1, LateInit, LateStep, PTL DEF ConsentedSpec

-----------------------------------------------------------------------------
\* ConsentedPayments implements Payments.

LEMMA ConsentedCallStep ==
    ASSUME NEW x \in Requests,
           \/ \E c \in Consents : DecideCreate(x, c)
           \/ DecideCancel(x) \/ ConsentedCreate(x) \/ ConsentedCancel(x)
           \/ UndecidedStep(x)
    PROVE  CreateStep(x) \/ ClientStep(x) \/ CallbackStep(x) \/ UNCHANGED vars
  <1>1. CASE (\E c \in Consents : DecideCreate(x, c)) \/ DecideCancel(x)
    BY <1>1 DEF DecideCreate, DecideCancel, Decide
  <1>2. CASE ConsentedCreate(x)
    BY <1>2 DEF ConsentedCreate, CreateStep
  <1>3. CASE ConsentedCancel(x)
    BY <1>3 DEF ConsentedCancel, ClientStep
  <1>4. CASE UndecidedStep(x)
    BY <1>4 DEF UndecidedStep, ClientStep
  <1> QED BY <1>1, <1>2, <1>3, <1>4

LEMMA ConsentedStepMaps == [ConsentedNext]_allVars => [Next]_vars
  <1> SUFFICES ASSUME [ConsentedNext]_allVars PROVE [Next]_vars
    OBVIOUS
  <1>1. ASSUME NEW x \in Requests,
               \/ \E c \in Consents : DecideCreate(x, c)
               \/ DecideCancel(x) \/ ConsentedCreate(x) \/ ConsentedCancel(x)
               \/ UndecidedStep(x)
        PROVE  [Next]_vars
    BY <1>1, ConsentedCallStep DEF Next
  <1>2. ASSUME NEW x \in Workers, ReconcileStep(x) PROVE Next
    BY <1>2 DEF Next
  <1>3. ASSUME NEW x \in Procs, ConsentedAbort(x) PROVE [Next]_vars
    BY <1>3 DEF ConsentedAbort, Next
  <1>4. CASE ProviderStep
    BY <1>4 DEF Next
  <1>5. ASSUME NEW c \in Consents, AccessEnds(c) \/ AccessReturns(c) PROVE UNCHANGED vars
    BY <1>5 DEF AccessEnds, AccessReturns
  <1>6. CASE UNCHANGED allVars
    BY <1>6 DEF allVars
  <1> QED BY <1>1, <1>2, <1>3, <1>4, <1>5, <1>6 DEF ConsentedNext

\* Every behaviour of payments under consents is one of Payments: a decision only holds
\* calls back, and calls that do not decide run as they did.
THEOREM ConsentsOnlyRestrict == ConsentedSpec => Spec
  <1>1. ConsentedInit => Init
    BY DEF ConsentedInit
  <1> QED BY <1>1, ConsentedStepMaps, PTL DEF ConsentedSpec, Spec

\* So what Payments promises of rows, keys and outcomes holds while consents come and go,
\* and creation under consents still implements the register.
THEOREM ConsentedCreateCorrect ==
    ConsentedSpec => /\ [](TypeOK /\ NoTornRow /\ CreateIsIdempotent)
                     /\ [](OutcomeIsProviders /\ CallbackAppliedOnce)
                     /\ LegalUnlessStale /\ ForgottenOnlyByLoss
                     /\ CreateImplementsRegister
  BY ConsentsOnlyRestrict, TypeCorrect, RowsAreWhole, CreateCorrect, OutcomesComeFromProvider,
     EventsCountOnce, IdsAreNotDropped, GraphBrokenOnlyByStaleSaves, CreateRefines, PTL

=============================================================================
