--------------------------- MODULE PaymentSession ---------------------------
(***************************************************************************)
(* Paid sessions from the offer to the delivered result: SessionService,   *)
(* ServiceOrchestrator, UsageLedger, PaymentPolicyEngine,                  *)
(* UserPaymentAgent, MerchantBillingAgent and the payment rail, over one   *)
(* store.                                                                  *)
(*                                                                         *)
(* Granularity.  Every JsonStore.transaction is one atomic step: the store *)
(* runs them one after the other on a private draft and publishes a draft  *)
(* only once it is written (module JsonStore).  What a handler reads       *)
(* before an await and uses after it is a step of its own.                 *)
(*                                                                         *)
(* A run of the orchestrator is a thread of control: run[s] names its next *)
(* await.  Requests (create, authorize, start, cancel), the clock, the     *)
(* rail and restarts interleave with it.                                   *)
(*                                                                         *)
(* One calendar day is modelled, so the daily spend of a payer is all the  *)
(* payer has spent.                                                        *)
(***************************************************************************)
EXTENDS SessionStates, Pricing, FiniteSetsExt

CONSTANTS
  Sessions,         \* session ids, as many as requests will create
  Nonces,           \* authorization nonces
  NoNonce,          \* the authorization of a session nobody authorized
  Payers,           \* payer wallets
  PayerOf,          \* [Sessions -> Payers]: payerAddress of a session
  MinCharge,        \* pricing.minimumChargeAtomic
  ServiceMax,       \* pricing.serviceMaximumAtomic
  BaseFee,          \* pricing.baseFeeAtomic
  Prices,           \* prices of the events a service meters; a credit is negative
  PlanLength,       \* steps of the plan
  InitialBalance,   \* what a demo wallet holds at first
  SessionLimit,     \* the agent policy's limit on one authorization
  MaxDaily,         \* the agent policy's daily limit
  RailMode,         \* "demo" or "external"
  MaxCredit,        \* bound: a ledger never falls below -MaxCredit
  MaxCrashes,       \* bound: restarts of the process
  MaxWriteFailures  \* bound: transactions whose file write fails

ASSUME SessionAssumption == PayerOf \in [Sessions -> Payers]
ASSUME NonceAssumption == NoNonce \notin Nonces
ASSUME PriceAssumption ==
  /\ MinCharge \in Nat /\ ServiceMax \in Nat /\ BaseFee \in Nat
  /\ Prices \subseteq Int
  /\ PlanLength \in Nat
ASSUME PolicyAssumption ==
  /\ InitialBalance \in Nat /\ SessionLimit \in Nat /\ MaxDaily \in Nat
  /\ RailMode \in {"demo", "external"}
ASSUME BoundAssumption ==
  MaxCredit \in Nat /\ MaxCrashes \in Nat /\ MaxWriteFailures \in Nat

VARIABLES
  status,         \* [Sessions -> Status]
  cap,            \* maximumChargeAtomic of the signed offer
  authorization,  \* nonce of the stored authorization
  total,          \* sum of the session's usage events
  progress,       \* number of execution.completedSteps
  result,         \* "none", "full" or "partial"
  settlements,    \* settlement records; one idempotency key per record
  usedNonces,     \* keys of usedAuthorizationNonces
  run,            \* the orchestrator's run of a session: its next await
  amount,         \* the run's local `amount`
  calls,          \* authorize requests past validateAuthorization
  expired,        \* sessions whose validUntil is past
  emergencyStop,  \* configuration of the process
  transfers,      \* sessions whose money an external rail has moved
  crashes, writeFailures

durable == <<status, cap, authorization, total, progress, result, settlements, usedNonces>>
ledger == <<total, progress, result>>
records == <<settlements, usedNonces>>
process == <<run, amount, calls>>
environment == <<expired, emergencyStop, transfers, crashes, writeFailures>>
vars == <<status, cap, authorization, total, progress, result, settlements, usedNonces,
          run, amount, calls, expired, emergencyStop, transfers, crashes, writeFailures>>

RunStep ==
  {"idle", "claim", "activate", "baseFee", "work", "step", "setResult", "finalize",
   "limit", "limitResult", "limitFinal", "caught", "failCancel",
   "settle", "submit", "rail", "record", "payFailed", "payUncertain", "deliver"}

Settlement == [session : Sessions, amount : Int]
Call == [session : Sessions, nonce : Nonces]
-----------------------------------------------------------------------------
(* The orchestrator's control flow. *)

(* Faulty variant: after the settlement is recorded the run just ends. *)
OnSuccessForgetsDelivery(step) ==
  CASE step = "claim" -> "activate"     [] step = "activate" -> "baseFee"
    [] step = "baseFee" -> "work"       [] step = "setResult" -> "finalize"
    [] step = "limit" -> "limitResult"  [] step = "limitResult" -> "limitFinal"
    [] step \in {"finalize", "limitFinal"} -> "settle"
    [] step = "caught" -> "failCancel"  [] step = "submit" -> "rail"
    [] OTHER -> "idle"

(* The await after a successful one. *)
OnSuccess(step) ==
  CASE step = "claim" -> "activate"     [] step = "activate" -> "baseFee"
    [] step = "baseFee" -> "work"       [] step = "setResult" -> "finalize"
    [] step = "limit" -> "limitResult"  [] step = "limitResult" -> "limitFinal"
    [] step \in {"finalize", "limitFinal"} -> "settle"
    [] step = "caught" -> "failCancel"  [] step = "submit" -> "rail"
    [] step = "record" -> "deliver"     [] OTHER -> "idle"

(* Faulty variant: a run that throws stays in the map of running ones. *)
OnErrorStaysRunning(step) ==
  CASE step \in {"baseFee", "work", "step", "setResult", "finalize"} -> "caught"
    [] step \in {"rail", "record"} -> "payFailed"
    [] OTHER -> "thrown"

(* Faulty variant: the submission is thought to be inside the try of the    *)
(* rail, whose handler then runs on a session that was not submitted.      *)
OnErrorCatchesSubmit(step) ==
  CASE step \in {"baseFee", "work", "step", "setResult", "finalize"} -> "caught"
    [] step \in {"submit", "rail", "record"} -> "payFailed"
    [] OTHER -> "idle"

(* Where an exception leads: the catch of #execute around the service, the *)
(* catch of settleAuthorizedUsage around the rail, or out of the run.      *)
OnError(step) ==
  CASE step \in {"baseFee", "work", "step", "setResult", "finalize"} -> "caught"
    [] step \in {"rail", "record"} -> "payFailed"
    [] OTHER -> "idle"

Goto(s, step) == run' = [run EXCEPT ![s] = step]
Proceed(s) == Goto(s, OnSuccess(run[s]))
Throw(s) == Goto(s, OnError(run[s]))

(* SessionService.transition in a run: the transaction changes the status, *)
(* or transitionSession throws on a session that moved meanwhile.          *)
Transition(s, to) ==
  /\ \/ /\ CanTransition(status[s], to)
        /\ status' = [status EXCEPT ![s] = to]
        /\ Proceed(s)
     \/ /\ ~CanTransition(status[s], to)
        /\ Throw(s)
        /\ UNCHANGED status
  /\ UNCHANGED <<cap, authorization, ledger, records, amount, calls, environment>>
-----------------------------------------------------------------------------
(* Money. *)

(* Sum of the settlements of a payer (getBalance and getDailySpend). *)
Spent(payer) ==
  MapThenSumSet(LAMBDA st : st.amount,
                {st \in settlements : PayerOf[st.session] = payer})

Balance(payer) == InitialBalance - Spent(payer)

Meterable(s) == status[s] = "ACTIVE"

FitsCap(s, price) == total[s] + price <= cap[s]

(* UsageLedger.record in a run; `next` is where the run goes on. *)
RecordUsage(s, price, next) ==
  /\ \/ /\ Meterable(s) /\ FitsCap(s, price)
        /\ total[s] + price >= -MaxCredit
        /\ total' = [total EXCEPT ![s] = @ + price]
        /\ Goto(s, next)
     \/ /\ Meterable(s) /\ ~FitsCap(s, price)
        /\ Goto(s, "limit")
        /\ UNCHANGED total
     \/ /\ ~Meterable(s)
        /\ Throw(s)
        /\ UNCHANGED total
  /\ UNCHANGED <<status, cap, authorization, progress, result, records, amount, calls,
                 environment>>
-----------------------------------------------------------------------------
(* Requests. *)

Init ==
  /\ status = [s \in Sessions |-> ABSENT]
  /\ cap = [s \in Sessions |-> 0]
  /\ authorization = [s \in Sessions |-> NoNonce]
  /\ total = [s \in Sessions |-> 0]
  /\ progress = [s \in Sessions |-> 0]
  /\ result = [s \in Sessions |-> "none"]
  /\ settlements = {} /\ usedNonces = {}
  /\ run = [s \in Sessions |-> "idle"]
  /\ amount = [s \in Sessions |-> 0]
  /\ calls = {}
  /\ expired = {}
  /\ emergencyStop \in BOOLEAN
  /\ transfers = {}
  /\ crashes = 0 /\ writeFailures = 0

(* SessionService.create: validated, offered and stored in one transaction *)
(* (a failed write leaves nothing behind).                                 *)
Create(s) ==
  /\ status[s] = ABSENT
  /\ \E maximum \in MinCharge..ServiceMax : cap' = [cap EXCEPT ![s] = maximum]
  /\ status' = [status EXCEPT ![s] = "AUTHORIZATION_REQUIRED"]
  /\ UNCHANGED <<authorization, ledger, records, process, environment>>

(* Faulty variant: nonces repeat. *)
FreshNonceAlways(n) == TRUE

(* createId gives every demo authorization a nonce of its own. *)
FreshNonce(n) ==
  /\ \A s \in Sessions : authorization[s] # n
  /\ \A c \in calls : c.nonce # n

(* evaluateOffer: what the user's agent checks against its policy. *)
OfferAllowed(s) ==
  /\ s \notin expired
  /\ cap[s] <= SessionLimit
  /\ Spent(PayerOf[s]) + cap[s] <= MaxDaily
  /\ Balance(PayerOf[s]) >= cap[s]

(* validateAuthorization: the checks that depend on changing state.  The   *)
(* bindings to offer, payer, merchant and maximum hold for the well-formed *)
(* authorizations modelled here.                                           *)
AuthorizationAcceptable(s, n) ==
  /\ ~emergencyStop
  /\ status[s] = "AUTHORIZATION_REQUIRED"
  /\ s \notin expired
  /\ n \notin usedNonces

(* POST authorize up to the transaction.  In demo mode the agent evaluates *)
(* the offer and signs; an external wallet sends a signed authorization.   *)
RequestAuthorization(s, n) ==
  /\ RailMode = "demo" => FreshNonce(n) /\ OfferAllowed(s)
  /\ AuthorizationAcceptable(s, n)
  /\ calls' = calls \cup {[session |-> s, nonce |-> n]}
  /\ UNCHANGED <<durable, run, amount, environment>>

(* Faulty variant: the session read before validateAuthorization is kept,  *)
(* whatever became of the session meanwhile.                               *)
StillAuthorizableAlways(s) == TRUE

(* The status is checked again on the draft, and the table has no other    *)
(* row into AUTHORIZED.                                                    *)
StillAuthorizable(s) == status[s] = "AUTHORIZATION_REQUIRED"

(* SessionService.authorize, the transaction: only the status is checked   *)
(* again.  A conflict or a failed write drops the request.                 *)
CommitAuthorization(c) ==
  /\ calls' = calls \ {c}
  /\ \/ /\ StillAuthorizable(c.session)
        /\ authorization' = [authorization EXCEPT ![c.session] = c.nonce]
        /\ status' = [status EXCEPT ![c.session] = "AUTHORIZED"]
     \/ /\ ~StillAuthorizable(c.session)
        /\ UNCHANGED <<authorization, status>>
  /\ UNCHANGED <<cap, ledger, records, run, amount, environment>>

(* A request dropped by a failed write. *)
AuthorizationWriteFails(c) ==
  /\ writeFailures < MaxWriteFailures
  /\ writeFailures' = writeFailures + 1
  /\ calls' = calls \ {c}
  /\ UNCHANGED <<durable, run, amount, expired, emergencyStop, transfers, crashes>>

(* POST cancel: refused for a terminal status, and by the table for the    *)
(* statuses that cannot be cancelled.                                      *)
Cancel(s) ==
  /\ CanTransition(status[s], "CANCELLED")
  /\ status' = [status EXCEPT ![s] = "CANCELLED"]
  /\ UNCHANGED <<cap, authorization, ledger, records, process, environment>>

(* POST start: a session with a run in progress joins it. *)
Start(s) ==
  /\ run[s] = "idle"
  /\ status[s] = "AUTHORIZED"
  /\ Goto(s, "claim")
  /\ UNCHANGED <<durable, amount, calls, environment>>
-----------------------------------------------------------------------------
(* The run: ServiceOrchestrator.#execute and settleAuthorizedUsage. *)

(* The first updateExecution: whatever the status is by now. *)
Claim(s) ==
  /\ run[s] = "claim"
  /\ progress' = [progress EXCEPT ![s] = 0]
  /\ Proceed(s)
  /\ UNCHANGED <<status, cap, authorization, total, result, records, amount, calls,
                 environment>>

Activate(s) == run[s] = "activate" /\ Transition(s, "ACTIVE")

RecordBaseFee(s) == run[s] = "baseFee" /\ RecordUsage(s, BaseFee, "work")

(* context.step up to the call of its work. *)
BeginStep(s) ==
  /\ run[s] = "work" /\ progress[s] < PlanLength
  /\ Goto(s, "step")
  /\ UNCHANGED <<durable, amount, calls, environment>>

(* context.meter inside a step. *)
Meter(s) ==
  /\ run[s] = "step"
  /\ \E price \in Prices : RecordUsage(s, price, "step")

EndStep(s) ==
  /\ run[s] = "step"
  /\ progress' = [progress EXCEPT ![s] = @ + 1]
  /\ Goto(s, "work")
  /\ UNCHANGED <<status, cap, authorization, total, result, records, amount, calls,
                 environment>>

(* The service or the AI provider throws. *)
ServiceThrows(s) ==
  /\ run[s] \in {"work", "step"}
  /\ Throw(s)
  /\ UNCHANGED <<durable, amount, calls, environment>>

(* Faulty variant: the last step of the plan is taken for done. *)
PlanDoneTooEarly(s) == progress[s] >= PlanLength - 1

PlanDone(s) == progress[s] = PlanLength

ServiceReturns(s) ==
  /\ run[s] = "work" /\ PlanDone(s)
  /\ Goto(s, "setResult")
  /\ UNCHANGED <<durable, amount, calls, environment>>

(* setResult of the whole result, or of the partial one of a capped run. *)
StoreResult(s, step, value) ==
  /\ run[s] = step
  /\ result' = [result EXCEPT ![s] = value]
  /\ Proceed(s)
  /\ UNCHANGED <<status, cap, authorization, total, progress, records, amount, calls,
                 environment>>

SetResult(s) == StoreResult(s, "setResult", "full")
SetPartialResult(s) == StoreResult(s, "limitResult", "partial")

Finalize(s) == run[s] = "finalize" /\ Transition(s, "USAGE_FINALIZED")
ReachLimit(s) == run[s] = "limit" /\ Transition(s, "LIMIT_REACHED")
FinalizeCapped(s) == run[s] = "limitFinal" /\ Transition(s, "USAGE_FINALIZED")

(* The catch of a failed service: a session that is not ACTIVE any more is *)
(* left as it is.                                                          *)
ServiceFailed(s) == run[s] = "caught" /\ Transition(s, "SERVICE_FAILED")
CancelFailed(s) == run[s] = "failCancel" /\ Transition(s, "CANCELLED")

(* Faulty variant: a negative amount is not refused. *)
SettlementAcceptableNegative(s, charge) ==
  /\ ~emergencyStop /\ status[s] = "USAGE_FINALIZED"
  /\ s \notin expired /\ authorization[s] \notin usedNonces
  /\ charge <= cap[s]

(* validateSettlement; the recomputed amount is the one passed in. *)
SettlementAcceptable(s, charge) ==
  /\ ~emergencyStop
  /\ status[s] = "USAGE_FINALIZED"
  /\ authorization[s] # NoNonce
  /\ s \notin expired
  /\ 0 <= charge /\ charge <= cap[s]
  /\ authorization[s] \notin usedNonces

(* Reads the ledger, prices it and checks the policy; no transaction. *)
ValidateSettlement(s) ==
  /\ run[s] = "settle"
  /\ LET charge == FinalCharge(total[s], MinCharge)
     IN  \/ /\ SettlementAcceptable(s, charge)
            /\ amount' = [amount EXCEPT ![s] = charge]
            /\ Goto(s, "submit")
         \/ /\ ~SettlementAcceptable(s, charge)
            /\ Throw(s)
            /\ UNCHANGED amount
  /\ UNCHANGED <<durable, calls, environment>>

Submit(s) == run[s] = "submit" /\ Transition(s, "SETTLEMENT_SUBMITTED")

Payment(s) == [session |-> s, amount |-> amount[s]]

(* DemoPaymentRail.settle only reads: the demo wallet is debited when the  *)
(* settlement is recorded.                                                 *)
DemoSettle(s) ==
  /\ RailMode = "demo" /\ run[s] = "rail"
  /\ \/ /\ Payment(s) \in settlements \/ amount[s] <= Balance(PayerOf[s])
        /\ Goto(s, "record")
     \/ /\ Payment(s) \notin settlements /\ amount[s] > Balance(PayerOf[s])
        /\ Throw(s)
  /\ UNCHANGED <<durable, amount, calls, environment>>

(* An injected rail: it confirms, declines, or does not know.  A rail that *)
(* does not know says so with the code PAYMENT_UNCERTAIN.                  *)
RailAnswer == {"confirmed", "declined", "uncertain"}

(* Faulty variant: an ambiguous outcome is taken for a refusal. *)
AfterRailTakesUncertainForFailed(answer) ==
  IF answer = "confirmed" THEN "record" ELSE "payFailed"

AfterRail(answer) ==
  CASE answer = "confirmed" -> "record"
    [] answer = "declined"  -> "payFailed"
    [] answer = "uncertain" -> "payUncertain"

ExternalSettle(s) ==
  /\ RailMode = "external" /\ run[s] = "rail"
  /\ \E answer \in RailAnswer :
       /\ Goto(s, AfterRail(answer))
       /\ CASE answer = "confirmed" -> transfers' = transfers \cup {s}
            [] answer = "declined"  -> transfers' = transfers
            [] answer = "uncertain" -> transfers' \in {transfers, transfers \cup {s}}
  /\ UNCHANGED <<durable, amount, calls, expired, emergencyStop, crashes, writeFailures>>

(* Faulty variant: the nonce is not marked used with the settlement. *)
NoncesAfterForgets(s) == usedNonces

NoncesAfter(s) == usedNonces \cup {authorization[s]}

(* The transaction that records the payment, the nonce and SETTLED.  When  *)
(* the transition throws the whole draft is discarded.                     *)
RecordPayment(s) ==
  /\ run[s] = "record"
  /\ \/ /\ CanTransition(status[s], "SETTLED")
        /\ settlements' = settlements \cup {Payment(s)}
        /\ usedNonces' = NoncesAfter(s)
        /\ status' = [status EXCEPT ![s] = "SETTLED"]
        /\ Proceed(s)
     \/ /\ ~CanTransition(status[s], "SETTLED")
        /\ Throw(s)
        /\ UNCHANGED <<status, records>>
  /\ UNCHANGED <<cap, authorization, ledger, amount, calls, environment>>

(* The catch of settleAuthorizedUsage. *)
PaymentFailed(s) == run[s] = "payFailed" /\ Transition(s, "PAYMENT_FAILED")
PaymentUncertain(s) == run[s] = "payUncertain" /\ Transition(s, "PAYMENT_UNCERTAIN")

Deliver(s) == run[s] = "deliver" /\ Transition(s, "DELIVERED")
-----------------------------------------------------------------------------
(* Faults and the environment. *)

(* The steps of a run that are transactions. *)
Writing == RunStep \ {"idle", "settle", "rail"}

(* The write of a transaction fails: nothing of its draft is kept and the  *)
(* run sees an exception.                                                  *)
WriteFails(s) ==
  /\ run[s] \in Writing
  /\ writeFailures < MaxWriteFailures
  /\ writeFailures' = writeFailures + 1
  /\ Throw(s)
  /\ UNCHANGED <<durable, amount, calls, expired, emergencyStop, transfers, crashes>>

(* The process dies and starts again: the file is read back, the runs and  *)
(* the requests are gone, the configuration may differ.  A payment already *)
(* handed to an external rail may still be made.                           *)
Crash ==
  /\ crashes < MaxCrashes
  /\ crashes' = crashes + 1
  /\ \E late \in SUBSET {s \in Sessions : RailMode = "external" /\ run[s] = "rail"} :
       transfers' = transfers \cup late
  /\ run' = [s \in Sessions |-> "idle"]
  /\ amount' = [s \in Sessions |-> 0]
  /\ calls' = {}
  /\ emergencyStop' \in BOOLEAN
  /\ UNCHANGED <<durable, expired, writeFailures>>

(* validUntil of the offer passes. *)
Expire(s) ==
  /\ status[s] # ABSENT
  /\ s \notin expired
  /\ expired' = expired \cup {s}
  /\ UNCHANGED <<durable, process, emergencyStop, transfers, crashes, writeFailures>>

Request(s) ==
  \/ Create(s) \/ Cancel(s) \/ Start(s)
  \/ \E n \in Nonces : RequestAuthorization(s, n)

Service(s) ==
  \/ Claim(s) \/ Activate(s) \/ RecordBaseFee(s)
  \/ BeginStep(s) \/ Meter(s) \/ EndStep(s) \/ ServiceReturns(s) \/ ServiceThrows(s)
  \/ SetResult(s) \/ Finalize(s)
  \/ ReachLimit(s) \/ SetPartialResult(s) \/ FinalizeCapped(s)
  \/ ServiceFailed(s) \/ CancelFailed(s)

Billing(s) ==
  \/ ValidateSettlement(s) \/ Submit(s) \/ DemoSettle(s) \/ ExternalSettle(s)
  \/ RecordPayment(s) \/ PaymentFailed(s) \/ PaymentUncertain(s) \/ Deliver(s)

Run(s) == Service(s) \/ Billing(s)

Commit == \E c \in calls : CommitAuthorization(c) \/ AuthorizationWriteFails(c)

Next ==
  \/ \E s \in Sessions : Request(s) \/ Run(s) \/ WriteFails(s) \/ Expire(s)
  \/ Commit
  \/ Crash

Spec == Init /\ [][Next]_vars

(* The event loop resumes a run whose await has settled: pauses and model  *)
(* calls end by their timers, the store's queue by its own progress.       *)
(* Nothing makes a user act, the clock pass or the process restart.  A     *)
(* step of a service meters a fixed number of events and ends.             *)
FairSpec == Spec /\ \A s \in Sessions : WF_vars(Run(s)) /\ WF_vars(EndStep(s))
-----------------------------------------------------------------------------
(* Properties. *)

TypeOK ==
  /\ status \in [Sessions -> Status]
  /\ cap \in [Sessions -> Nat]
  /\ authorization \in [Sessions -> Nonces \cup {NoNonce}]
  /\ total \in [Sessions -> Int]
  /\ progress \in [Sessions -> Nat]
  /\ result \in [Sessions -> {"none", "full", "partial"}]
  /\ settlements \subseteq Settlement
  /\ usedNonces \subseteq Nonces
  /\ run \in [Sessions -> RunStep]
  /\ amount \in [Sessions -> Int]
  /\ calls \subseteq Call
  /\ expired \subseteq Sessions
  /\ emergencyStop \in BOOLEAN
  /\ transfers \subseteq Sessions
  /\ crashes \in Nat /\ writeFailures \in Nat

(* What is charged lies between zero and the cap the user signed, and      *)
(* stays the price of the session's ledger: nothing metered after the      *)
(* amount was computed slips in, across the awaits between reading the     *)
(* ledger, submitting and recording (settleAuthorizedUsage).               *)
ChargeMatchesLedger ==
  \A st \in settlements :
    /\ 0 <= st.amount /\ st.amount <= cap[st.session]
    /\ st.amount = FinalCharge(total[st.session], MinCharge)

(* A session is charged at most once, whatever requests, failures and      *)
(* restarts interleave (settlement idempotency).                           *)
ChargedOnce ==
  \A st, other \in settlements : st.session = other.session => st = other

(* A result leaves the server only for a session whose charge is recorded  *)
(* and whose nonce is consumed, there is a result to deliver, and it is    *)
(* presented as whole only when every step of the plan was completed.      *)
DeliveredIsPaidWork ==
  \A s \in Sessions : status[s] = "DELIVERED" =>
    /\ \E st \in settlements : st.session = s
    /\ authorization[s] \in usedNonces
    /\ result[s] # "none"
    /\ result[s] = "full" => progress[s] = PlanLength

(* A nonce is marked used exactly by the settlement it authorized: the     *)
(* transaction that records one records the other.                         *)
NonceConsumedBySettlement ==
  usedNonces = {authorization[st.session] : st \in settlements}

(* No two charges rest on the same authorization nonce.  (README.md:       *)
(* "Single-use authorization nonce".)                                      *)
SingleUseNonce ==
  \A st, other \in settlements :
    authorization[st.session] = authorization[other.session] => st.session = other.session

(* From the moment the rail may move money to the record of its answer     *)
(* nobody moves the session: the transitions that record an outcome never  *)
(* conflict.                                                               *)
OutcomeCanBeRecorded ==
  \A s \in Sessions :
    /\ run[s] \in {"rail", "record", "payFailed", "payUncertain"}
         => status[s] = "SETTLEMENT_SUBMITTED"
    /\ run[s] = "deliver" => status[s] = "SETTLED"

(* A session whose money moved is not CANCELLED, and not PAYMENT_FAILED,   *)
(* from which it could be cancelled.  (docs/PRODUCTION.md: ambiguous       *)
(* outcomes surface as PAYMENT_UNCERTAIN.)                                 *)
MovedMoneyIsNotDenied ==
  \A s \in Sessions :
    s \in transfers \/ (\E st \in settlements : st.session = s)
      => status[s] \notin {"PAYMENT_FAILED", "CANCELLED"}

(* Only a failed write denies money that moved: while every transaction is *)
(* written, no answer of the rail, cancel or restart does.                 *)
OnlyFailedWritesDenyMoney == writeFailures = 0 => MovedMoneyIsNotDenied

(* A payer is never charged more than the daily limit of the agent policy  *)
(* its authorizations passed.                                              *)
WithinDailyLimit == \A payer \in Payers : Spent(payer) <= MaxDaily

(* The demo rail refuses a charge the wallet cannot pay. *)
WalletNotOverdrawn == \A payer \in Payers : Balance(payer) >= 0

(* Every run that starts ends: no await is repeated forever. *)
RunEnds == \A s \in Sessions : run[s] # "idle" ~> run[s] = "idle"

(* Once settled, the result is released. *)
SettledIsDelivered ==
  \A s \in Sessions : status[s] = "SETTLED" ~> status[s] = "DELIVERED"

NoMoreFaults == crashes = MaxCrashes /\ writeFailures = MaxWriteFailures

(* A settled session whose run is past the last fault has its result       *)
(* released: nothing but a restart or a failed write withholds it.         *)
SettlingRunDelivers ==
  \A s \in Sessions :
    run[s] \in {"record", "deliver"} /\ NoMoreFaults ~> status[s] = "DELIVERED"
-----------------------------------------------------------------------------
(* Why the properties hold: the inductive invariant.  It needs what the    *)
(* properties do not say: which statuses a session can have at each await  *)
(* of its run, and what the run's locals owe to the stored ledger.         *)

(* The statuses a session can have while its run is at a step: only the    *)
(* run itself and a cancel move it.                                        *)
StatusAt(step) ==
  CASE step = "idle" -> Status
    [] step \in {"claim", "activate"} -> {"AUTHORIZED", "CANCELLED"}
    [] step \in {"baseFee", "work", "step", "setResult", "finalize", "limit", "caught"}
         -> {"ACTIVE", "CANCELLED"}
    [] step \in {"limitResult", "limitFinal"} -> {"LIMIT_REACHED", "CANCELLED"}
    [] step = "failCancel" -> {"SERVICE_FAILED", "CANCELLED"}
    [] step \in {"settle", "submit"} -> {"USAGE_FINALIZED", "CANCELLED"}
    [] step \in {"rail", "record", "payFailed", "payUncertain"} -> {"SETTLEMENT_SUBMITTED"}
    [] step = "deliver" -> {"SETTLED"}

RunInv == \A s \in Sessions : status[s] \in StatusAt(run[s])

LedgerInv ==
  \A s \in Sessions :
    /\ status[s] = ABSENT => total[s] = 0
    /\ status[s] # ABSENT => cap[s] \in MinCharge..ServiceMax /\ total[s] <= cap[s]

Paying == {"submit", "rail", "record"}

AmountInv ==
  \A s \in Sessions : run[s] \in Paying =>
    /\ amount[s] = FinalCharge(total[s], MinCharge)
    /\ 0 <= amount[s] /\ amount[s] <= cap[s]
    /\ authorization[s] # NoNonce

Charged(s) == \E st \in settlements : st.session = s

SettlementInv ==
  /\ \A s \in Sessions : Charged(s) <=> status[s] \in {"SETTLED", "DELIVERED"}
  /\ ChargedOnce
  /\ ChargeMatchesLedger
  /\ NonceConsumedBySettlement

NoResultYet == {"claim", "activate", "baseFee", "work", "step"}

ResultAt(s) ==
  /\ status[s] \in {ABSENT, "AUTHORIZATION_REQUIRED", "AUTHORIZED"} => result[s] = "none"
  /\ run[s] \in NoResultYet => result[s] = "none"
  /\ status[s] \in {"USAGE_FINALIZED", "SETTLEMENT_SUBMITTED", "SETTLED", "DELIVERED"}
       => result[s] # "none"
  /\ run[s] \in {"finalize", "limitFinal"} => result[s] # "none"
  /\ run[s] = "setResult" \/ result[s] = "full" => progress[s] = PlanLength

ResultInv == \A s \in Sessions : ResultAt(s)

(* Every named invariant below follows from this one, which every step     *)
(* preserves.                                                              *)
SessionInv == TypeOK /\ RunInv /\ LedgerInv /\ AmountInv /\ SettlementInv /\ ResultInv
-----------------------------------------------------------------------------
(* The promise the sessions implement. *)

(* The phase of CappedCharge a stored status stands for. *)
PhaseOf(stored) ==
  CASE stored = ABSENT -> "none"
    [] stored = "AUTHORIZATION_REQUIRED" -> "offered"
    [] stored = "SETTLED" -> "charged"
    [] stored = "DELIVERED" -> "released"
    [] stored = "CANCELLED" -> "void"
    [] OTHER -> "authorized"

(* What the settlement of a session charges, if there is one. *)
ChargeIn(stored, s) ==
  IF \E st \in stored : st.session = s
  THEN (CHOOSE st \in stored : st.session = s).amount
  ELSE 0

Promise ==
  INSTANCE CappedCharge WITH
    Limits <- MinCharge..ServiceMax,
    phase <- [s \in Sessions |-> PhaseOf(status[s])],
    limit <- cap,
    charged <- [s \in Sessions |-> ChargeIn(settlements, s)]

(* Every behaviour of the sessions, with failures and restarts, keeps the  *)
(* promise: one charge within the limit, after the authorization, before   *)
(* the release, never after the session is void, and never changed again.  *)
KeepsPromise == Promise!Spec
=============================================================================
