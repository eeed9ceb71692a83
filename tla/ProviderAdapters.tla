--------------------------- MODULE ProviderAdapters ---------------------------
(***************************************************************************)
(* The four provider adapters as the platform meets them: what a poll of a *)
(* provider's payment and a verified webhook of it report, and what that   *)
(* does to a payment.  Constant operators only.                            *)
(*                                                                         *)
(* The adapters simulate their providers: the answer to a poll is fixed by *)
(* the last digit of the provider's payment id, a hexadecimal one.  Bodies,*)
(* signatures and request headers are left out: a webhook here is one      *)
(* whose signature was good.                                               *)
(***************************************************************************)
EXTENDS Naturals, StateMachines

ProviderCodes == {"northstar", "meridian", "cobalt", "sandbox"}

NoStatus == "none"

-----------------------------------------------------------------------------
\* getPaymentStatus of each adapter.

SANDBOX_STATUSES == [i \in 0..3 |->
    CASE i = 0 -> "accepted" [] i = 1 -> "pending" [] i = 2 -> "processing" [] i = 3 -> "completed"]

COBALT_STATUS_MAP ==
    [INIT |-> "processing", HELD |-> "pending", RELEASED |-> "processing",
     POSTED |-> "completed", RETURNED |-> "failed", VOID |-> "cancelled"]

NorthstarPoll(digit) == "completed"

MeridianPoll(digit) == IF digit % 2 = 0 THEN "completed" ELSE "processing"

CobaltPoll(digit) == COBALT_STATUS_MAP[IF digit = 0 THEN "POSTED" ELSE "HELD"]

SandboxPoll(digit) == SANDBOX_STATUSES[digit % 4]

\* ProviderRegistry.resolve and the adapter behind it.
getPaymentStatus(code, digit) ==
    CASE code = "northstar" -> NorthstarPoll(digit)
      [] code = "meridian"  -> MeridianPoll(digit)
      [] code = "cobalt"    -> CobaltPoll(digit)
      [] code = "sandbox"   -> SandboxPoll(digit)

-----------------------------------------------------------------------------
\* verifyWebhook: the word a webhook says of a payment.  Only cobalt's words are
\* translated, the others go on as they came.

CobaltWebhook(word) == IF word \in DOMAIN COBALT_STATUS_MAP THEN COBALT_STATUS_MAP[word] ELSE word

verifyWebhook(code, word) == IF code = "cobalt" THEN CobaltWebhook(word) ELSE word

\* The callback use case reads a webhook without a word as "pending".
ReportedBy(code, word) == IF word = NoStatus THEN "pending" ELSE verifyWebhook(code, word)

-----------------------------------------------------------------------------
\* What a reported status does to a payment in some status: the status it moves to,
\* or none where it stays: no translation, the same status, or no such edge.

Reached(status, reported) ==
    {target \in PaymentStatus : /\ reported \in NormalizedStatus
                                /\ target = PROVIDER_STATUS_MAP[reported]
                                /\ canTransitionPayment(status, target)}

=============================================================================
