--------------------------- MODULE SessionStates ---------------------------
(***************************************************************************)
(* The session state machine of src/domain/state-machine.js: the statuses  *)
(* and the allowlist every status change of the application goes through.  *)
(* The table is kept whole, also the rows no code path takes today         *)
(* (AUTHORIZATION_REJECTED, PAYMENT_REQUIRED, REFUND_PENDING and           *)
(* MANUAL_REVIEW are only ever names in it).                               *)
(***************************************************************************)

SessionState ==
  {"CREATED", "AUTHORIZATION_REQUIRED", "AUTHORIZED", "ACTIVE",
   "USAGE_FINALIZED", "SETTLEMENT_SUBMITTED", "SETTLED", "DELIVERED",
   "AUTHORIZATION_REJECTED", "LIMIT_REACHED", "PAYMENT_REQUIRED",
   "PAYMENT_FAILED", "PAYMENT_UNCERTAIN", "SERVICE_FAILED",
   "REFUND_PENDING", "CANCELLED", "MANUAL_REVIEW"}

(* A session that is not in the store yet. *)
ABSENT == "ABSENT"

Status == SessionState \cup {ABSENT}

Transitions(from) ==
  CASE from = "CREATED" ->
         {"AUTHORIZATION_REQUIRED", "CANCELLED"}
    [] from = "AUTHORIZATION_REQUIRED" ->
         {"AUTHORIZED", "AUTHORIZATION_REJECTED", "CANCELLED"}
    [] from = "AUTHORIZATION_REJECTED" ->
         {"AUTHORIZATION_REQUIRED", "CANCELLED"}
    [] from = "AUTHORIZED" ->
         {"ACTIVE", "CANCELLED"}
    [] from = "ACTIVE" ->
         {"USAGE_FINALIZED", "LIMIT_REACHED", "PAYMENT_REQUIRED",
          "SERVICE_FAILED", "CANCELLED"}
    [] from = "LIMIT_REACHED" ->
         {"USAGE_FINALIZED", "AUTHORIZATION_REQUIRED", "CANCELLED"}
    [] from = "PAYMENT_REQUIRED" ->
         {"ACTIVE", "PAYMENT_FAILED", "PAYMENT_UNCERTAIN", "CANCELLED"}
    [] from = "USAGE_FINALIZED" ->
         {"SETTLEMENT_SUBMITTED", "CANCELLED", "MANUAL_REVIEW"}
    [] from = "SETTLEMENT_SUBMITTED" ->
         {"SETTLED", "PAYMENT_FAILED", "PAYMENT_UNCERTAIN"}
    [] from = "PAYMENT_UNCERTAIN" ->
         {"SETTLED", "PAYMENT_FAILED", "MANUAL_REVIEW"}
    [] from = "PAYMENT_FAILED" ->
         {"SETTLEMENT_SUBMITTED", "CANCELLED", "MANUAL_REVIEW"}
    [] from = "SETTLED" ->
         {"DELIVERED", "REFUND_PENDING"}
    [] from = "REFUND_PENDING" ->
         {"DELIVERED", "MANUAL_REVIEW"}
    [] from = "SERVICE_FAILED" ->
         {"USAGE_FINALIZED", "CANCELLED", "MANUAL_REVIEW"}
    [] OTHER -> {}

(* Faulty variant: a submitted settlement can still be cancelled. *)
CanTransitionCancelsSubmitted(from, to) ==
  to \in Transitions(from) \/ (from = "SETTLEMENT_SUBMITTED" /\ to = "CANCELLED")

(* canTransition: a status without a row admits no transition. *)
CanTransition(from, to) == to \in Transitions(from)
=============================================================================
