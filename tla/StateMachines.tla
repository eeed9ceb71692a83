---------------------------- MODULE StateMachines ----------------------------
(***************************************************************************)
(* The status graphs of the two aggregates and the translation of provider *)
(* statuses (src/domain/policies/state-machines.ts).  Constant operators   *)
(* only: every module that moves a consent or a payment uses these.        *)
(***************************************************************************)

ConsentStatus == {"DRAFT", "AWAITING_AUTHORIZATION", "AUTHORIZED", "ACTIVE",
                  "REVOKED", "EXPIRED", "REJECTED"}

CONSENT_TRANSITIONS == [s \in ConsentStatus |->
    CASE s = "DRAFT"                  -> {"AWAITING_AUTHORIZATION", "REJECTED"}
      [] s = "AWAITING_AUTHORIZATION" -> {"AUTHORIZED", "REJECTED", "EXPIRED"}
      [] s = "AUTHORIZED"             -> {"ACTIVE", "REVOKED", "EXPIRED"}
      [] s = "ACTIVE"                 -> {"REVOKED", "EXPIRED"}
      [] OTHER                        -> {}]

\* A guard that forgets the graph: any move is allowed.
canTransitionConsent_Unguarded(from, to) == TRUE

canTransitionConsent(from, to) == to \in CONSENT_TRANSITIONS[from]

TerminalConsent == {"REVOKED", "EXPIRED", "REJECTED"}

isTerminalConsent(status) == status \in TerminalConsent

isAccessGrantingConsent(status) == status \in {"AUTHORIZED", "ACTIVE"}

-----------------------------------------------------------------------------

PaymentStatus == {"CREATED", "AWAITING_AUTHORIZATION", "AUTHORIZED", "SUBMITTED",
                  "ACCEPTED", "REJECTED", "SETTLED", "FAILED", "CANCELLED"}

PAYMENT_TRANSITIONS == [s \in PaymentStatus |->
    CASE s = "CREATED"                -> {"AWAITING_AUTHORIZATION", "CANCELLED"}
      [] s = "AWAITING_AUTHORIZATION" -> {"AUTHORIZED", "REJECTED", "CANCELLED"}
      [] s = "AUTHORIZED"             -> {"SUBMITTED", "CANCELLED", "FAILED"}
      [] s = "SUBMITTED"              -> {"ACCEPTED", "REJECTED", "FAILED", "SETTLED"}
      [] s = "ACCEPTED"               -> {"SETTLED", "FAILED", "REJECTED"}
      [] OTHER                        -> {}]

\* A guard that forgets the graph: any move is allowed.
canTransitionPayment_Unguarded(from, to) == TRUE

canTransitionPayment(from, to) == to \in PAYMENT_TRANSITIONS[from]

isTerminalPayment(status) == status \in {"REJECTED", "SETTLED", "FAILED", "CANCELLED"}

isCancellable(status) ==
    status \in {"CREATED", "AWAITING_AUTHORIZATION", "AUTHORIZED"}

\* Statuses an adapter can report after normalisation, and the platform status
\* each one stands for.  A status outside the domain has no translation.
NormalizedStatus == {"pending", "processing", "accepted", "completed", "settled",
                     "rejected", "failed", "cancelled"}

PROVIDER_STATUS_MAP == [s \in NormalizedStatus |->
    CASE s = "pending"                     -> "SUBMITTED"
      [] s \in {"processing", "accepted"}  -> "ACCEPTED"
      [] s \in {"completed", "settled"}    -> "SETTLED"
      [] s = "rejected"                    -> "REJECTED"
      [] s \in {"failed", "cancelled"}     -> "FAILED"]

=============================================================================
