------------------------ MODULE PaymentSession_proofs ------------------------
(***************************************************************************)
(* Proofs about PaymentSession for every set of sessions, wallets and      *)
(* nonces, every price list and policy, and every number of failures and   *)
(* restarts.                                                               *)
(***************************************************************************)
EXTENDS PaymentSession, TLAPS

(* The two kinds of run step that most actions are made of keep the types. *)
LEMMA TransitionType ==
  ASSUME TypeOK, NEW s \in Sessions, NEW to \in SessionState, Transition(s, to)
  PROVE  TypeOK'
<1>1. OnSuccess(run[s]) \in RunStep /\ OnError(run[s]) \in RunStep
  BY DEF OnSuccess, OnError, RunStep
<1> QED
  BY <1>1 DEF TypeOK, Transition, Proceed, Throw, Goto, Status, environment, ledger, records

LEMMA RecordUsageType ==
  ASSUME TypeOK, NEW s \in Sessions, NEW price \in Int, NEW next \in RunStep,
         RecordUsage(s, price, next)
  PROVE  TypeOK'
<1>1. OnError(run[s]) \in RunStep /\ "limit" \in RunStep
  BY DEF OnError, RunStep
<1> QED
  BY <1>1 DEF TypeOK, RecordUsage, Throw, Goto, environment, records

LEMMA InitType == Init => TypeOK
BY SessionAssumption, NonceAssumption
   DEF Init, TypeOK, Status, SessionState, RunStep, ABSENT

(* Every step keeps the types.  That the nonce a payment marks used is one *)
(* takes AmountInv: a run that pays has an authorization.                  *)
LEMMA NextType == TypeOK /\ AmountInv /\ [Next]_vars => TypeOK'
<1>1. SUFFICES ASSUME TypeOK, AmountInv, [Next]_vars
               PROVE  TypeOK'
  OBVIOUS
<1>2. CASE UNCHANGED vars
  BY <1>1, <1>2 DEF TypeOK, vars
<1>3. ASSUME NEW s \in Sessions, Request(s)
      PROVE  TypeOK'
  <2>1. CASE Create(s)
    BY <1>1, <2>1, PriceAssumption
       DEF TypeOK, Create, Status, SessionState, ledger, records, process, environment
  <2>2. CASE Cancel(s)
    BY <1>1, <2>2
       DEF TypeOK, Cancel, Status, SessionState, ledger, records, process, environment
  <2>3. CASE Start(s)
    BY <1>1, <2>3 DEF TypeOK, Start, Goto, RunStep, durable, environment
  <2>4. ASSUME NEW n \in Nonces, RequestAuthorization(s, n)
        PROVE  TypeOK'
    BY <1>1, <2>4 DEF TypeOK, RequestAuthorization, Call, durable, environment
  <2> QED
    BY <1>3, <2>1, <2>2, <2>3, <2>4 DEF Request
<1>4. ASSUME NEW s \in Sessions, Service(s)
      PROVE  TypeOK'
  <2>1. CASE Claim(s)
    BY <1>1, <2>1
       DEF TypeOK, Claim, Proceed, Goto, OnSuccess, RunStep, records, environment
  <2>2. CASE Activate(s)
    BY <1>1, <2>2, TransitionType DEF Activate, SessionState
  <2>3. CASE RecordBaseFee(s)
    BY <1>1, <2>3, RecordUsageType, PriceAssumption DEF RecordBaseFee, RunStep
  <2>4. CASE BeginStep(s)
    BY <1>1, <2>4 DEF TypeOK, BeginStep, Goto, RunStep, durable, environment
  <2>5. CASE Meter(s)
    BY <1>1, <2>5, RecordUsageType, PriceAssumption DEF Meter, RunStep
  <2>6. CASE EndStep(s)
    BY <1>1, <2>6 DEF TypeOK, EndStep, Goto, RunStep, records, environment
  <2>7. CASE ServiceReturns(s)
    BY <1>1, <2>7 DEF TypeOK, ServiceReturns, Goto, RunStep, durable, environment
  <2>8. CASE ServiceThrows(s)
    BY <1>1, <2>8
       DEF TypeOK, ServiceThrows, Throw, Goto, OnError, RunStep, durable, environment
  <2>9. CASE SetResult(s)
    BY <1>1, <2>9
       DEF TypeOK, SetResult, StoreResult, Proceed, Goto, OnSuccess, RunStep, records,
           environment
  <2>10. CASE SetPartialResult(s)
    BY <1>1, <2>10
       DEF TypeOK, SetPartialResult, StoreResult, Proceed, Goto, OnSuccess, RunStep,
           records, environment
  <2>11. CASE Finalize(s) \/ ReachLimit(s) \/ FinalizeCapped(s)
    BY <1>1, <2>11, TransitionType DEF Finalize, ReachLimit, FinalizeCapped, SessionState
  <2>12. CASE ServiceFailed(s) \/ CancelFailed(s)
    BY <1>1, <2>12, TransitionType DEF ServiceFailed, CancelFailed, SessionState
  <2> QED
    BY <1>4, <2>1, <2>2, <2>3, <2>4, <2>5, <2>6, <2>7, <2>8, <2>9, <2>10, <2>11, <2>12
       DEF Service
<1>5. ASSUME NEW s \in Sessions, Billing(s)
      PROVE  TypeOK'
  <2>1. CASE ValidateSettlement(s)
    BY <1>1, <2>1, PriceAssumption
       DEF TypeOK, ValidateSettlement, FinalCharge, Throw, Goto, OnError, RunStep,
           durable, environment
  <2>2. CASE Submit(s) \/ PaymentFailed(s) \/ PaymentUncertain(s) \/ Deliver(s)
    BY <1>1, <2>2, TransitionType
       DEF Submit, PaymentFailed, PaymentUncertain, Deliver, SessionState
  <2>3. CASE DemoSettle(s)
    BY <1>1, <2>3
       DEF TypeOK, DemoSettle, Throw, Goto, OnError, RunStep, durable, environment
  <2>4. CASE ExternalSettle(s)
    <3>1. PICK answer \in RailAnswer :
            /\ Goto(s, AfterRail(answer))
            /\ transfers' \in {transfers, transfers \cup {s}}
      BY <2>4 DEF ExternalSettle, RailAnswer
    <3>2. AfterRail(answer) \in RunStep
      BY DEF AfterRail, RailAnswer, RunStep
    <3> QED
      BY <1>1, <2>4, <3>1, <3>2 DEF TypeOK, ExternalSettle, Goto, durable
  <2>5. CASE RecordPayment(s)
    <3>1. amount[s] \in Int /\ "deliver" \in RunStep /\ OnError(run[s]) \in RunStep
      BY <1>1 DEF TypeOK, OnError, RunStep
    <3>2. OnSuccess("record") = "deliver"
      BY DEF OnSuccess
    <3> QED
      BY <1>1, <2>5, <3>1, <3>2
         DEF TypeOK, AmountInv, Paying, RecordPayment, Payment, NoncesAfter, Settlement,
             Proceed,
             Throw, Goto, Status, SessionState, ledger, records, environment
  <2> QED
    BY <1>5, <2>1, <2>2, <2>3, <2>4, <2>5 DEF Billing
<1>6. ASSUME NEW s \in Sessions, WriteFails(s) \/ Expire(s)
      PROVE  TypeOK'
  BY <1>1, <1>6
     DEF TypeOK, WriteFails, Expire, Throw, Goto, OnError, RunStep, durable, process
<1>7. ASSUME NEW c \in calls, CommitAuthorization(c) \/ AuthorizationWriteFails(c)
      PROVE  TypeOK'
  BY <1>1, <1>7
     DEF TypeOK, CommitAuthorization, StillAuthorizable, AuthorizationWriteFails, Call,
         Status, SessionState,
         ledger, records, durable, environment
<1>8. CASE Crash
  BY <1>1, <1>8 DEF TypeOK, Crash, RunStep, durable
<1> QED
  BY <1>1, <1>2, <1>3, <1>4, <1>5, <1>6, <1>7, <1>8 DEF Next, Run, Commit
-----------------------------------------------------------------------------
(* At each await of its run a session has one of the statuses of StatusAt. *)
(* A step of one run leaves every other session alone, so each case needs  *)
(* only the session it moves.                                              *)

LEMMA RunInvTransition ==
  ASSUME TypeOK, RunInv, NEW s \in Sessions, NEW to \in SessionState, Transition(s, to),
         << run[s], to >> \in
           { <<"activate", "ACTIVE">>, <<"finalize", "USAGE_FINALIZED">>,
             <<"limit", "LIMIT_REACHED">>, <<"limitFinal", "USAGE_FINALIZED">>,
             <<"caught", "SERVICE_FAILED">>, <<"failCancel", "CANCELLED">>,
             <<"submit", "SETTLEMENT_SUBMITTED">>, <<"payFailed", "PAYMENT_FAILED">>,
             <<"payUncertain", "PAYMENT_UNCERTAIN">>, <<"deliver", "DELIVERED">> }
  PROVE  RunInv'
<1>1. status[s] \in StatusAt(run[s])
  BY DEF RunInv
<1>2. status'[s] \in StatusAt(run'[s])
  BY <1>1 DEF TypeOK, Transition, Proceed, Throw, Goto, CanTransition, Transitions, StatusAt,
              OnSuccess, OnError, Status, SessionState, ABSENT
<1>3. \A x \in Sessions \ {s} : status'[x] = status[x] /\ run'[x] = run[x]
  BY DEF TypeOK, Transition, Proceed, Throw, Goto
<1> QED
  BY <1>2, <1>3 DEF RunInv

(* A step that only moves the control of a run. *)
LEMMA RunInvGoto ==
  ASSUME TypeOK, RunInv, NEW s \in Sessions, NEW next, Goto(s, next), UNCHANGED status,
         status[s] \in StatusAt(next)
  PROVE  RunInv'
BY DEF TypeOK, RunInv, Goto

(* The awaits inside the service share their statuses, and so do those     *)
(* around the rail.                                                        *)
LEMMA StatusAtBlocks ==
  /\ \A step, next \in {"baseFee", "work", "step", "setResult", "finalize", "limit", "caught"} :
       StatusAt(step) = StatusAt(next)
  /\ \A step, next \in {"rail", "record", "payFailed", "payUncertain"} :
       StatusAt(step) = StatusAt(next)
  /\ StatusAt("limitResult") = StatusAt("limitFinal")
  /\ StatusAt("settle") = StatusAt("submit")
  /\ StatusAt("idle") = Status
BY DEF StatusAt

LEMMA RunInvRecordUsage ==
  ASSUME TypeOK, RunInv, NEW s \in Sessions, NEW price, NEW next \in {"work", "step"},
         run[s] \in {"baseFee", "step"}, RecordUsage(s, price, next)
  PROVE  RunInv'
<1>1. OnError(run[s]) = "caught"
  BY DEF OnError
<1>2. PICK to \in {next, "limit", "caught"} : Goto(s, to)
  BY <1>1 DEF RecordUsage, Throw
<1>3. status[s] \in StatusAt(to)
  BY StatusAtBlocks DEF RunInv
<1> QED
  BY <1>2, <1>3, RunInvGoto DEF RecordUsage

LEMMA RunInvStep == TypeOK /\ RunInv /\ [Next]_vars => RunInv'
<1>1. SUFFICES ASSUME TypeOK, RunInv, [Next]_vars
               PROVE  RunInv'
  OBVIOUS
<1>2. CASE UNCHANGED vars
  BY <1>1, <1>2 DEF RunInv, vars
<1>3. ASSUME NEW s \in Sessions, Request(s)
      PROVE  RunInv'
  <2>1. CASE Create(s)
    BY <1>1, <2>1
       DEF TypeOK, RunInv, Create, StatusAt, process, Status, SessionState, ABSENT, RunStep
  <2>2. CASE Cancel(s)
    BY <1>1, <2>2
       DEF TypeOK, RunInv, Cancel, CanTransition, Transitions, StatusAt, process, Status,
           SessionState, RunStep
  <2>3. CASE Start(s)
    BY <1>1, <2>3 DEF TypeOK, RunInv, Start, Goto, StatusAt, durable
  <2>4. ASSUME NEW n \in Nonces, RequestAuthorization(s, n)
        PROVE  RunInv'
    BY <1>1, <2>4 DEF RunInv, RequestAuthorization, durable
  <2> QED
    BY <1>3, <2>1, <2>2, <2>3, <2>4 DEF Request
<1>4. ASSUME NEW s \in Sessions, Service(s)
      PROVE  RunInv'
  <2>1. CASE Claim(s)
    BY <1>1, <2>1 DEF TypeOK, RunInv, Claim, Proceed, Goto, OnSuccess, StatusAt
  <2>2. CASE Activate(s)
    BY <1>1, <2>2, RunInvTransition DEF Activate, SessionState
  <2>3. CASE RecordBaseFee(s)
    BY <1>1, <2>3, RunInvRecordUsage DEF RecordBaseFee
  <2>4. CASE BeginStep(s)
    BY <1>1, <2>4 DEF TypeOK, RunInv, BeginStep, Goto, StatusAt, durable
  <2>5. CASE Meter(s)
    BY <1>1, <2>5, RunInvRecordUsage DEF Meter
  <2>6. CASE EndStep(s)
    BY <1>1, <2>6 DEF TypeOK, RunInv, EndStep, Goto, StatusAt
  <2>7. CASE ServiceReturns(s)
    BY <1>1, <2>7 DEF TypeOK, RunInv, ServiceReturns, Goto, StatusAt, durable
  <2>8. CASE ServiceThrows(s)
    BY <1>1, <2>8 DEF TypeOK, RunInv, ServiceThrows, Throw, Goto, OnError, StatusAt, durable
  <2>9. CASE SetResult(s) \/ SetPartialResult(s)
    <3>1. PICK to \in {"finalize", "limitFinal"} :
            Goto(s, to) /\ StatusAt(run[s]) = StatusAt(to)
      BY <2>9, StatusAtBlocks DEF SetResult, SetPartialResult, StoreResult, Proceed, OnSuccess
    <3> QED
      BY <1>1, <2>9, <3>1, RunInvGoto DEF RunInv, SetResult, SetPartialResult, StoreResult
  <2>10. CASE Finalize(s) \/ ReachLimit(s) \/ FinalizeCapped(s)
    BY <1>1, <2>10, RunInvTransition DEF Finalize, ReachLimit, FinalizeCapped, SessionState
  <2>11. CASE ServiceFailed(s) \/ CancelFailed(s)
    BY <1>1, <2>11, RunInvTransition DEF ServiceFailed, CancelFailed, SessionState
  <2> QED
    BY <1>4, <2>1, <2>2, <2>3, <2>4, <2>5, <2>6, <2>7, <2>8, <2>9, <2>10, <2>11 DEF Service
<1>5. ASSUME NEW s \in Sessions, Billing(s)
      PROVE  RunInv'
  <2>1. CASE ValidateSettlement(s)
    <3>1. OnError("settle") = "idle"
      BY DEF OnError
    <3>2. PICK to \in {"submit", "idle"} : Goto(s, to)
      BY <2>1, <3>1 DEF ValidateSettlement, Throw
    <3>3. status[s] \in StatusAt(to)
      BY <1>1, <2>1, StatusAtBlocks DEF TypeOK, RunInv, ValidateSettlement
    <3> QED
      BY <1>1, <2>1, <3>2, <3>3, RunInvGoto DEF ValidateSettlement, durable
  <2>2. CASE Submit(s) \/ PaymentFailed(s) \/ PaymentUncertain(s) \/ Deliver(s)
    BY <1>1, <2>2, RunInvTransition
       DEF Submit, PaymentFailed, PaymentUncertain, Deliver, SessionState
  <2>3. CASE DemoSettle(s)
    <3>1. OnError("rail") = "payFailed"
      BY DEF OnError
    <3>2. PICK to \in {"record", "payFailed"} : Goto(s, to)
      BY <2>3, <3>1 DEF DemoSettle, Throw
    <3>3. status[s] \in StatusAt(to)
      BY <1>1, <2>3, StatusAtBlocks DEF RunInv, DemoSettle
    <3> QED
      BY <1>1, <2>3, <3>2, <3>3, RunInvGoto DEF DemoSettle, durable
  <2>4. CASE ExternalSettle(s)
    <3>1. PICK answer \in RailAnswer : Goto(s, AfterRail(answer))
      BY <2>4 DEF ExternalSettle
    <3>2. StatusAt(AfterRail(answer)) = StatusAt("rail")
      BY DEF AfterRail, RailAnswer, StatusAt
    <3> QED
      BY <1>1, <2>4, <3>1, <3>2 DEF TypeOK, RunInv, ExternalSettle, Goto, durable
  <2>5. CASE RecordPayment(s)
    <3>1. status[s] = "SETTLEMENT_SUBMITTED"
      BY <1>1, <2>5 DEF RunInv, RecordPayment, StatusAt
    <3>2. CanTransition(status[s], "SETTLED")
      BY <3>1 DEF CanTransition, Transitions
    <3>3. Goto(s, "deliver") /\ status' = [status EXCEPT ![s] = "SETTLED"]
      BY <2>5, <3>2 DEF RecordPayment, Proceed, OnSuccess
    <3>4. "SETTLED" \in StatusAt("deliver")
      BY DEF StatusAt
    <3> QED
      BY <1>1, <3>3, <3>4 DEF TypeOK, RunInv, Goto
  <2> QED
    BY <1>5, <2>1, <2>2, <2>3, <2>4, <2>5 DEF Billing
<1>6. ASSUME NEW s \in Sessions, WriteFails(s) \/ Expire(s)
      PROVE  RunInv'
  BY <1>1, <1>6
     DEF TypeOK, RunInv, WriteFails, Writing, Expire, Throw, Goto, OnError, StatusAt, RunStep,
         Status, SessionState, durable, process
<1>7. ASSUME NEW c \in calls, CommitAuthorization(c) \/ AuthorizationWriteFails(c)
      PROVE  RunInv'
  BY <1>1, <1>7
     DEF TypeOK, RunInv, CommitAuthorization, StillAuthorizable, AuthorizationWriteFails,
         Call, StatusAt, RunStep,
         Status, SessionState, durable
<1>8. CASE Crash
  BY <1>1, <1>8 DEF TypeOK, RunInv, Crash, StatusAt, durable
<1> QED
  BY <1>1, <1>2, <1>3, <1>4, <1>5, <1>6, <1>7, <1>8 DEF Next, Run, Commit
-----------------------------------------------------------------------------
(* Which steps touch the durable state: the others only move the control   *)
(* of a run, a request or the environment.                                 *)

MoveOfRun(s) ==
  \/ Activate(s) \/ Finalize(s) \/ ReachLimit(s) \/ FinalizeCapped(s)
  \/ ServiceFailed(s) \/ CancelFailed(s)
  \/ Submit(s) \/ PaymentFailed(s) \/ PaymentUncertain(s) \/ Deliver(s)

LEMMA DurableSteps ==
  ASSUME [Next]_vars
  PROVE  \/ UNCHANGED durable
         \/ \E s \in Sessions :
              \/ Create(s) \/ Cancel(s) \/ MoveOfRun(s) \/ RecordPayment(s)
              \/ RecordBaseFee(s) \/ Meter(s)
              \/ Claim(s) \/ EndStep(s) \/ SetResult(s) \/ SetPartialResult(s)
         \/ \E c \in calls : CommitAuthorization(c)
<1>1. CASE UNCHANGED vars
  BY <1>1 DEF vars, durable
<1>2. ASSUME NEW s \in Sessions, Request(s)
      PROVE  Create(s) \/ Cancel(s) \/ UNCHANGED durable
  BY <1>2 DEF Request, Start, RequestAuthorization
<1>3. ASSUME NEW s \in Sessions, Service(s)
      PROVE  \/ MoveOfRun(s) \/ RecordBaseFee(s) \/ Meter(s) \/ UNCHANGED durable
             \/ Claim(s) \/ EndStep(s) \/ SetResult(s) \/ SetPartialResult(s)
  BY <1>3 DEF Service, MoveOfRun, BeginStep, ServiceReturns, ServiceThrows
<1>4. ASSUME NEW s \in Sessions, Billing(s)
      PROVE  MoveOfRun(s) \/ RecordPayment(s) \/ UNCHANGED durable
  BY <1>4 DEF Billing, MoveOfRun, ValidateSettlement, DemoSettle, ExternalSettle
<1>5. ASSUME NEW s \in Sessions, WriteFails(s) \/ Expire(s)
      PROVE  UNCHANGED durable
  BY <1>5 DEF WriteFails, Expire
<1>6. ASSUME NEW c \in calls, AuthorizationWriteFails(c)
      PROVE  UNCHANGED durable
  BY <1>6 DEF AuthorizationWriteFails
<1>7. CASE Crash
  BY <1>7 DEF Crash
<1> QED
  BY <1>1, <1>2, <1>3, <1>4, <1>5, <1>6, <1>7 DEF Next, Run, Commit

(* What a transition of a run does to the durable state. *)
LEMMA MoveEffect ==
  ASSUME TypeOK, NEW s \in Sessions, MoveOfRun(s)
  PROVE  /\ \E to \in SessionState \ {"SETTLED", "REFUND_PENDING"} :
              Transition(s, to) /\ (to = "DELIVERED" => run[s] = "deliver")
         /\ UNCHANGED <<cap, authorization, total, progress, result, settlements, usedNonces>>
<1>1. \E to \in SessionState \ {"SETTLED", "REFUND_PENDING"} :
        Transition(s, to) /\ (to = "DELIVERED" => run[s] = "deliver")
  BY DEF MoveOfRun, Activate, Finalize, ReachLimit, FinalizeCapped, ServiceFailed,
         CancelFailed, Submit, PaymentFailed, PaymentUncertain, Deliver, SessionState
<1> QED
  BY <1>1 DEF Transition, ledger, records

LEMMA AbsentIsFinal == \A to : ~CanTransition(ABSENT, to)
BY DEF CanTransition, Transitions, ABSENT
-----------------------------------------------------------------------------
(* The ledger of a session stays within its cap. *)

LEMMA LedgerInvRecordUsage ==
  ASSUME TypeOK, LedgerInv, NEW s \in Sessions, NEW price \in Int, NEW next,
         RecordUsage(s, price, next)
  PROVE  LedgerInv'
BY DEF TypeOK, LedgerInv, RecordUsage, Meterable, FitsCap, ABSENT

LEMMA LedgerInvStep == TypeOK /\ LedgerInv /\ [Next]_vars => LedgerInv'
<1>1. SUFFICES ASSUME TypeOK, LedgerInv, [Next]_vars
               PROVE  LedgerInv'
  OBVIOUS
<1>2. CASE UNCHANGED durable
  BY <1>1, <1>2 DEF LedgerInv, durable
<1>3. ASSUME NEW s \in Sessions, Create(s)
      PROVE  LedgerInv'
  BY <1>1, <1>3, PriceAssumption DEF TypeOK, LedgerInv, Create, ledger, ABSENT
<1>4. ASSUME NEW s \in Sessions, Cancel(s)
      PROVE  LedgerInv'
  BY <1>1, <1>4, AbsentIsFinal DEF TypeOK, LedgerInv, Cancel, ledger, ABSENT
<1>5. ASSUME NEW s \in Sessions, MoveOfRun(s)
      PROVE  LedgerInv'
  BY <1>1, <1>5, MoveEffect, AbsentIsFinal
     DEF TypeOK, LedgerInv, Transition, ABSENT, SessionState
<1>6. ASSUME NEW s \in Sessions, RecordPayment(s)
      PROVE  LedgerInv'
  BY <1>1, <1>6, AbsentIsFinal DEF TypeOK, LedgerInv, RecordPayment, ledger, ABSENT
<1>7. ASSUME NEW s \in Sessions, RecordBaseFee(s) \/ Meter(s)
      PROVE  LedgerInv'
  BY <1>1, <1>7, LedgerInvRecordUsage, PriceAssumption DEF RecordBaseFee, Meter
<1>8. ASSUME NEW s \in Sessions, Claim(s) \/ EndStep(s) \/ SetResult(s) \/ SetPartialResult(s)
      PROVE  LedgerInv'
  BY <1>1, <1>8 DEF LedgerInv, Claim, EndStep, SetResult, SetPartialResult, StoreResult
<1>9. ASSUME NEW c \in calls, CommitAuthorization(c)
      PROVE  LedgerInv'
  BY <1>1, <1>9 DEF TypeOK, LedgerInv, CommitAuthorization, StillAuthorizable, ledger,
      ABSENT, Call
<1> QED
  BY <1>1, <1>2, <1>3, <1>4, <1>5, <1>6, <1>7, <1>8, <1>9, DurableSteps
-----------------------------------------------------------------------------
(* The settlement records: exactly the settled and delivered sessions have *)
(* one, one each, of the price of their ledger, with its nonce used.       *)

(* A step that charges nobody keeps the records right if it moves no       *)
(* session into or out of the charged statuses and leaves the cap, the     *)
(* ledger and the authorization of every charged session alone.            *)
LEMMA SettlementInvKept ==
  ASSUME SettlementInv, TypeOK, UNCHANGED <<settlements, usedNonces>>,
         \A s \in Sessions :
           /\ status'[s] \in {"SETTLED", "DELIVERED"} <=> status[s] \in {"SETTLED", "DELIVERED"}
           /\ status[s] \in {"SETTLED", "DELIVERED"} =>
                /\ cap'[s] = cap[s] /\ total'[s] = total[s]
                /\ authorization'[s] = authorization[s]
  PROVE  SettlementInv'
<1>1. \A s \in Sessions : Charged(s)' <=> status'[s] \in {"SETTLED", "DELIVERED"}
  BY DEF SettlementInv, Charged
<1>2. \A st \in settlements :
        /\ st.session \in Sessions
        /\ cap'[st.session] = cap[st.session] /\ total'[st.session] = total[st.session]
        /\ authorization'[st.session] = authorization[st.session]
  BY DEF SettlementInv, Charged, TypeOK, Settlement
<1>3. ChargedOnce'
  BY DEF SettlementInv, ChargedOnce
<1>4. ChargeMatchesLedger'
  BY <1>2 DEF SettlementInv, ChargeMatchesLedger
<1>5. NonceConsumedBySettlement'
  BY <1>2 DEF SettlementInv, NonceConsumedBySettlement
<1> QED
  BY <1>1, <1>3, <1>4, <1>5 DEF SettlementInv

LEMMA SettlementInvRecordPayment ==
  ASSUME TypeOK, RunInv, AmountInv, SettlementInv, NEW s \in Sessions, RecordPayment(s)
  PROVE  SettlementInv'
<1>1. status[s] = "SETTLEMENT_SUBMITTED"
  BY DEF RecordPayment, RunInv, StatusAt
<1>2. CanTransition(status[s], "SETTLED")
  BY <1>1 DEF CanTransition, Transitions
<1>3. /\ settlements' = settlements \cup {Payment(s)}
      /\ usedNonces' = usedNonces \cup {authorization[s]}
      /\ status' = [status EXCEPT ![s] = "SETTLED"]
      /\ UNCHANGED <<cap, authorization, total>>
  BY <1>2 DEF RecordPayment, NoncesAfter, ledger
<1>4. Payment(s).session = s /\ Payment(s).amount = amount[s]
  BY DEF Payment
<1>5. ~Charged(s)
  BY <1>1 DEF SettlementInv
<1>6. \A x \in Sessions : Charged(x)' <=> status'[x] \in {"SETTLED", "DELIVERED"}
  BY <1>3, <1>4 DEF SettlementInv, Charged, TypeOK
<1>7. ChargedOnce'
  BY <1>3, <1>4, <1>5 DEF SettlementInv, ChargedOnce, Charged
<1>8. ChargeMatchesLedger'
  BY <1>3, <1>4 DEF SettlementInv, ChargeMatchesLedger, AmountInv, Paying, RecordPayment
<1>9. NonceConsumedBySettlement'
  BY <1>3, <1>4 DEF SettlementInv, NonceConsumedBySettlement
<1> QED
  BY <1>6, <1>7, <1>8, <1>9 DEF SettlementInv

LEMMA SettlementInvStep ==
  TypeOK /\ RunInv /\ AmountInv /\ SettlementInv /\ [Next]_vars => SettlementInv'
<1>1. SUFFICES ASSUME TypeOK, RunInv, AmountInv, SettlementInv, [Next]_vars
               PROVE  SettlementInv'
  OBVIOUS
<1>2. CASE UNCHANGED durable
  BY <1>1, <1>2, SettlementInvKept DEF durable
<1>3. ASSUME NEW s \in Sessions, Create(s)
      PROVE  SettlementInv'
  BY <1>1, <1>3, SettlementInvKept DEF TypeOK, Create, ledger, records, ABSENT
<1>4. ASSUME NEW s \in Sessions, Cancel(s)
      PROVE  SettlementInv'
  <2>1. status[s] \notin {"SETTLED", "DELIVERED"}
    BY <1>4 DEF Cancel, CanTransition, Transitions
  <2> QED
    BY <1>1, <1>4, <2>1, SettlementInvKept DEF TypeOK, Cancel, ledger, records
<1>5. ASSUME NEW s \in Sessions, MoveOfRun(s)
      PROVE  SettlementInv'
  <2>1. PICK to \in SessionState \ {"SETTLED", "REFUND_PENDING"} :
          Transition(s, to) /\ (to = "DELIVERED" => run[s] = "deliver")
    BY <1>1, <1>5, MoveEffect
  <2>2. CASE UNCHANGED status
    BY <1>1, <1>5, <2>2, MoveEffect, SettlementInvKept
  <2>3. CASE CanTransition(status[s], to) /\ status' = [status EXCEPT ![s] = to]
    <3>1. to = "DELIVERED" => status[s] = "SETTLED"
      BY <1>1, <2>1 DEF RunInv, StatusAt
    <3>2. to # "DELIVERED" => status[s] \notin {"SETTLED", "DELIVERED"}
      BY <2>1, <2>3 DEF CanTransition, Transitions
    <3> QED
      BY <1>1, <1>5, <2>1, <2>3, <3>1, <3>2, MoveEffect, SettlementInvKept DEF TypeOK
  <2> QED
    BY <2>1, <2>2, <2>3 DEF Transition
<1>6. ASSUME NEW s \in Sessions, RecordPayment(s)
      PROVE  SettlementInv'
  BY <1>1, <1>6, SettlementInvRecordPayment
<1>7. ASSUME NEW s \in Sessions, RecordBaseFee(s) \/ Meter(s)
      PROVE  SettlementInv'
  <2>1. PICK price, next : RecordUsage(s, price, next)
    BY <1>7 DEF RecordBaseFee, Meter
  <2> QED
    BY <1>1, <2>1, SettlementInvKept DEF TypeOK, RecordUsage, Meterable, records
<1>8. ASSUME NEW s \in Sessions, Claim(s) \/ EndStep(s) \/ SetResult(s) \/ SetPartialResult(s)
      PROVE  SettlementInv'
  BY <1>1, <1>8, SettlementInvKept
     DEF Claim, EndStep, SetResult, SetPartialResult, StoreResult, records
<1>9. ASSUME NEW c \in calls, CommitAuthorization(c)
      PROVE  SettlementInv'
  BY <1>1, <1>9, SettlementInvKept DEF TypeOK, CommitAuthorization, StillAuthorizable,
      ledger, records, Call
<1> QED
  BY <1>1, <1>2, <1>3, <1>4, <1>5, <1>6, <1>7, <1>8, <1>9, DurableSteps
-----------------------------------------------------------------------------
(* The amount a run is about to charge is the price of the stored ledger.  *)

LEMMA NextAwaits ==
  /\ \A step : OnError(step) \in {"caught", "payFailed", "idle"}
  /\ \A step : OnSuccess(step) \in Paying => step = "submit"
BY DEF OnError, OnSuccess, Paying

(* A step that prices nothing keeps what it leaves alone. *)
LEMMA AmountInvKept ==
  ASSUME AmountInv,
         \A s \in Sessions : run'[s] \in Paying =>
           /\ run[s] \in Paying
           /\ amount'[s] = amount[s] /\ total'[s] = total[s] /\ cap'[s] = cap[s]
           /\ authorization'[s] = authorization[s]
  PROVE  AmountInv'
BY DEF AmountInv

LEMMA AmountInvMove ==
  ASSUME TypeOK, AmountInv, NEW s \in Sessions, NEW to, Transition(s, to)
  PROVE  AmountInv'
<1>1. PICK next : Goto(s, next) /\ (next \in Paying => run[s] \in Paying)
  BY NextAwaits DEF Transition, Proceed, Throw, Paying
<1> QED
  BY <1>1, AmountInvKept DEF TypeOK, Transition, Goto, ledger

LEMMA AmountInvStep == TypeOK /\ RunInv /\ AmountInv /\ [Next]_vars => AmountInv'
<1>1. SUFFICES ASSUME TypeOK, RunInv, AmountInv, [Next]_vars
               PROVE  AmountInv'
  OBVIOUS
<1>2. CASE UNCHANGED vars
  BY <1>1, <1>2, AmountInvKept DEF vars
<1>3. ASSUME NEW s \in Sessions, Request(s)
      PROVE  AmountInv'
  <2>1. CASE Create(s)
    <3>1. run[s] = "idle"
      BY <1>1, <2>1
         DEF TypeOK, RunInv, Create, StatusAt, RunStep, ABSENT
    <3> QED
      BY <1>1, <2>1, <3>1, AmountInvKept DEF TypeOK, Create, Paying, ledger, process
  <2>2. CASE Cancel(s)
    BY <1>1, <2>2, AmountInvKept DEF Cancel, ledger, process
  <2>3. CASE Start(s)
    BY <1>1, <2>3, AmountInvKept DEF TypeOK, Start, Goto, Paying, durable
  <2>4. ASSUME NEW n \in Nonces, RequestAuthorization(s, n)
        PROVE  AmountInv'
    BY <1>1, <2>4, AmountInvKept DEF RequestAuthorization, durable
  <2> QED
    BY <1>3, <2>1, <2>2, <2>3, <2>4 DEF Request
<1>4. ASSUME NEW s \in Sessions, Service(s)
      PROVE  AmountInv'
  <2>1. CASE Claim(s) \/ EndStep(s)
    BY <1>1, <2>1, AmountInvKept, NextAwaits
       DEF TypeOK, Claim, EndStep, Proceed, Goto, Paying
  <2>2. CASE Activate(s) \/ Finalize(s) \/ ReachLimit(s) \/ FinalizeCapped(s)
    BY <1>1, <2>2, AmountInvMove DEF Activate, Finalize, ReachLimit, FinalizeCapped
  <2>3. CASE ServiceFailed(s) \/ CancelFailed(s)
    BY <1>1, <2>3, AmountInvMove DEF ServiceFailed, CancelFailed
  <2>4. CASE RecordBaseFee(s) \/ Meter(s)
    <3>1. PICK price, next : RecordUsage(s, price, next) /\ next \notin Paying
      BY <2>4 DEF RecordBaseFee, Meter, Paying
    <3>2. PICK to : Goto(s, to) /\ to \notin Paying
      BY <3>1, NextAwaits DEF RecordUsage, Throw, Paying
    <3> QED
      BY <1>1, <3>1, <3>2, AmountInvKept DEF TypeOK, RecordUsage, Goto, Paying
  <2>5. CASE BeginStep(s) \/ ServiceReturns(s)
    BY <1>1, <2>5, AmountInvKept DEF TypeOK, BeginStep, ServiceReturns, Goto, Paying, durable
  <2>6. CASE ServiceThrows(s)
    BY <1>1, <2>6, AmountInvKept, NextAwaits
       DEF TypeOK, ServiceThrows, Throw, Goto, Paying, durable
  <2>7. CASE SetResult(s) \/ SetPartialResult(s)
    BY <1>1, <2>7, AmountInvKept, NextAwaits
       DEF TypeOK, SetResult, SetPartialResult, StoreResult, Proceed, Goto, Paying
  <2> QED
    BY <1>4, <2>1, <2>2, <2>3, <2>4, <2>5, <2>6, <2>7 DEF Service
<1>5. ASSUME NEW s \in Sessions, Billing(s)
      PROVE  AmountInv'
  <2>1. CASE ValidateSettlement(s)
    <3>1. CASE SettlementAcceptable(s, FinalCharge(total[s], MinCharge))
      BY <1>1, <2>1, <3>1
         DEF TypeOK, AmountInv, ValidateSettlement, SettlementAcceptable, Goto, Paying, durable
    <3>2. CASE ~SettlementAcceptable(s, FinalCharge(total[s], MinCharge))
      BY <1>1, <2>1, <3>2, AmountInvKept, NextAwaits
         DEF TypeOK, ValidateSettlement, Throw, Goto, Paying, durable
    <3> QED
      BY <3>1, <3>2
  <2>2. CASE Submit(s) \/ PaymentFailed(s) \/ PaymentUncertain(s) \/ Deliver(s)
    BY <1>1, <2>2, AmountInvMove DEF Submit, PaymentFailed, PaymentUncertain, Deliver
  <2>3. CASE DemoSettle(s)
    BY <1>1, <2>3, AmountInvKept, NextAwaits
       DEF TypeOK, DemoSettle, Throw, Goto, Paying, durable
  <2>4. CASE ExternalSettle(s)
    BY <1>1, <2>4, AmountInvKept DEF TypeOK, ExternalSettle, Goto, Paying, durable
  <2>5. CASE RecordPayment(s)
    BY <1>1, <2>5, AmountInvKept, NextAwaits
       DEF TypeOK, RecordPayment, Proceed, Throw, Goto, Paying, ledger
  <2> QED
    BY <1>5, <2>1, <2>2, <2>3, <2>4, <2>5 DEF Billing
<1>6. ASSUME NEW s \in Sessions, WriteFails(s) \/ Expire(s)
      PROVE  AmountInv'
  BY <1>1, <1>6, AmountInvKept, NextAwaits
     DEF TypeOK, WriteFails, Expire, Throw, Goto, Paying, durable, process
<1>7. ASSUME NEW c \in calls, CommitAuthorization(c)
      PROVE  AmountInv'
  <2>1. status[c.session] = "AUTHORIZATION_REQUIRED" => run[c.session] = "idle"
    BY <1>1 DEF TypeOK, RunInv, StatusAt, RunStep, Call
  <2> QED
    BY <1>1, <1>7, <2>1, AmountInvKept DEF TypeOK, CommitAuthorization, StillAuthorizable,
        Call, Paying, ledger
<1>8. ASSUME NEW c \in calls, AuthorizationWriteFails(c)
      PROVE  AmountInv'
  BY <1>1, <1>8, AmountInvKept DEF AuthorizationWriteFails, durable
<1>9. CASE Crash
  BY <1>1, <1>9, AmountInvKept DEF Crash, Paying
<1> QED
  BY <1>1, <1>2, <1>3, <1>4, <1>5, <1>6, <1>7, <1>8, <1>9 DEF Next, Run, Commit
-----------------------------------------------------------------------------
(* A session has a result from the moment its usage is final, and the      *)
(* whole result only when the plan is done.                                *)

(* A step moves one session: the others keep what holds of them. *)
LEMMA ResultInvAt ==
  ASSUME ResultInv, NEW s \in Sessions, ResultAt(s)',
         \A x \in Sessions \ {s} :
           /\ status'[x] = status[x] /\ run'[x] = run[x]
           /\ result'[x] = result[x] /\ progress'[x] = progress[x]
  PROVE  ResultInv'
BY DEF ResultInv, ResultAt

(* The control of a run moves to an await that asks nothing new. *)
LEMMA ResultInvGoto ==
  ASSUME TypeOK, ResultInv, NEW s \in Sessions, NEW next, Goto(s, next),
         UNCHANGED <<status, result, progress>>,
         next \in NoResultYet => result[s] = "none",
         next \in {"finalize", "limitFinal"} => result[s] # "none",
         next = "setResult" => progress[s] = PlanLength
  PROVE  ResultInv'
<1>1. ResultAt(s)'
  BY DEF TypeOK, ResultInv, ResultAt, Goto
<1> QED
  BY <1>1, ResultInvAt DEF TypeOK, Goto

LEMMA ResultInvMove ==
  ASSUME TypeOK, RunInv, ResultInv, NEW s \in Sessions, MoveOfRun(s)
  PROVE  ResultInv'
<1>1. PICK to : /\ Transition(s, to)
                /\ to \notin {ABSENT, "AUTHORIZATION_REQUIRED", "AUTHORIZED"}
                /\ to = "USAGE_FINALIZED" => run[s] \in {"finalize", "limitFinal"}
                /\ to = "SETTLEMENT_SUBMITTED" => run[s] = "submit"
                /\ to = "DELIVERED" => run[s] = "deliver"
                /\ to # "SETTLED"
  BY DEF MoveOfRun, Activate, Finalize, ReachLimit, FinalizeCapped, ServiceFailed,
         CancelFailed, Submit, PaymentFailed, PaymentUncertain, Deliver, ABSENT
<1>2. PICK next : /\ Goto(s, next)
                  /\ next \in NoResultYet => run[s] = "activate"
                  /\ next = "limitFinal" => FALSE
                  /\ next \notin {"finalize", "setResult"}
  <2>1. OnError(run[s]) \notin NoResultYet \cup {"limitFinal", "finalize", "setResult"}
    BY NextAwaits DEF NoResultYet
  <2>2. run[s] \notin {"limitResult", "setResult", "claim", "baseFee"}
    BY DEF MoveOfRun, Activate, Finalize, ReachLimit, FinalizeCapped, ServiceFailed,
           CancelFailed, Submit, PaymentFailed, PaymentUncertain, Deliver
  <2>3. /\ OnSuccess(run[s]) \in NoResultYet => run[s] = "activate"
        /\ OnSuccess(run[s]) \notin {"limitFinal", "finalize", "setResult"}
    BY <2>2 DEF OnSuccess, NoResultYet
  <2> QED
    BY <1>1, <2>1, <2>3 DEF Transition, Proceed, Throw
<1>3. UNCHANGED <<result, progress>>
  BY <1>1 DEF Transition, ledger
<1>4. CASE UNCHANGED status
  BY <1>2, <1>3, <1>4, ResultInvGoto DEF ResultInv, ResultAt, NoResultYet
<1>5. CASE status' = [status EXCEPT ![s] = to]
  <2>1. run[s] = "submit" => status[s] \in {"USAGE_FINALIZED", "CANCELLED"}
    BY DEF RunInv, StatusAt
  <2>2. CASE CanTransition(status[s], to)
    <3>1. to = "SETTLEMENT_SUBMITTED" => status[s] = "USAGE_FINALIZED"
      BY <1>1, <2>1, <2>2 DEF CanTransition, Transitions
    <3>2. to = "DELIVERED" => status[s] = "SETTLED"
      BY <1>1 DEF RunInv, StatusAt
    <3>3. ResultAt(s)'
      BY <1>1, <1>2, <1>3, <1>5, <3>1, <3>2
         DEF TypeOK, ResultInv, ResultAt, Goto, NoResultYet
    <3> QED
      BY <1>2, <1>3, <1>5, <3>3, ResultInvAt DEF TypeOK, Goto
  <2>3. CASE ~CanTransition(status[s], to)
    BY <1>1, <1>4, <2>3 DEF Transition
  <2> QED
    BY <2>2, <2>3
<1> QED
  BY <1>1, <1>4, <1>5 DEF Transition

LEMMA ResultInvRecordUsage ==
  ASSUME TypeOK, ResultInv, NEW s \in Sessions, NEW price, NEW next \in {"work", "step"},
         run[s] \in {"baseFee", "step"}, RecordUsage(s, price, next)
  PROVE  ResultInv'
<1>1. PICK to : /\ Goto(s, to)
                /\ to \notin {"finalize", "limitFinal", "setResult"}
  BY NextAwaits DEF RecordUsage, Throw
<1>2. result[s] = "none"
  BY DEF ResultInv, ResultAt, NoResultYet
<1> QED
  BY <1>1, <1>2, ResultInvGoto DEF RecordUsage

LEMMA ResultInvStep == TypeOK /\ RunInv /\ ResultInv /\ [Next]_vars => ResultInv'
<1>1. SUFFICES ASSUME TypeOK, RunInv, ResultInv, [Next]_vars
               PROVE  ResultInv'
  OBVIOUS
<1>2. CASE UNCHANGED vars
  BY <1>1, <1>2 DEF ResultInv, ResultAt, vars
<1>3. ASSUME NEW s \in Sessions, Request(s)
      PROVE  ResultInv'
  <2>1. CASE Create(s)
    <3>1. ResultAt(s)'
      BY <1>1, <2>1 DEF TypeOK, ResultInv, ResultAt, Create, ledger, process, ABSENT
    <3> QED
      BY <1>1, <2>1, <3>1, ResultInvAt DEF TypeOK, Create, ledger, process
  <2>2. CASE Cancel(s)
    <3>1. ResultAt(s)'
      BY <1>1, <2>2 DEF TypeOK, ResultInv, ResultAt, Cancel, ledger, process, ABSENT
    <3> QED
      BY <1>1, <2>2, <3>1, ResultInvAt DEF TypeOK, Cancel, ledger, process
  <2>3. CASE Start(s)
    BY <1>1, <2>3, ResultInvGoto DEF ResultInv, ResultAt, Start, durable
  <2>4. ASSUME NEW n \in Nonces, RequestAuthorization(s, n)
        PROVE  ResultInv'
    BY <1>1, <2>4 DEF ResultInv, ResultAt, RequestAuthorization, durable
  <2> QED
    BY <1>3, <2>1, <2>2, <2>3, <2>4 DEF Request
<1>4. ASSUME NEW s \in Sessions, Service(s)
      PROVE  ResultInv'
  <2>1. CASE Claim(s)
    <3>1. Goto(s, "activate") /\ result[s] = "none"
      BY <1>1, <2>1 DEF Claim, Proceed, OnSuccess, ResultInv, ResultAt, NoResultYet
    <3>2. ResultAt(s)'
      BY <1>1, <2>1, <3>1 DEF TypeOK, ResultInv, ResultAt, Claim, Goto
    <3> QED
      BY <1>1, <2>1, <3>1, <3>2, ResultInvAt DEF TypeOK, Claim, Goto
  <2>2. CASE MoveOfRun(s)
    BY <1>1, <2>2, ResultInvMove
  <2>3. CASE RecordBaseFee(s)
    BY <1>1, <2>3, ResultInvRecordUsage DEF RecordBaseFee
  <2>4. CASE Meter(s)
    BY <1>1, <2>4, ResultInvRecordUsage DEF Meter
  <2>5. CASE BeginStep(s) \/ ServiceReturns(s)
    BY <1>1, <2>5, ResultInvGoto
       DEF BeginStep, ServiceReturns, PlanDone, ResultInv, ResultAt, NoResultYet, durable
  <2>6. CASE EndStep(s)
    <3>1. ResultAt(s)'
      BY <1>1, <2>6 DEF TypeOK, ResultInv, ResultAt, EndStep, Goto, NoResultYet
    <3> QED
      BY <1>1, <2>6, <3>1, ResultInvAt DEF TypeOK, EndStep, Goto
  <2>7. CASE ServiceThrows(s)
    BY <1>1, <2>7, NextAwaits, ResultInvGoto DEF ServiceThrows, Throw, NoResultYet, durable
  <2>8. CASE SetResult(s) \/ SetPartialResult(s)
    <3>1. PICK value \in {"full", "partial"} :
            /\ result' = [result EXCEPT ![s] = value]
            /\ Goto(s, IF value = "full" THEN "finalize" ELSE "limitFinal")
            /\ value = "full" => progress[s] = PlanLength
            /\ status[s] \notin {ABSENT, "AUTHORIZATION_REQUIRED", "AUTHORIZED"}
      BY <1>1, <2>8
         DEF SetResult, SetPartialResult, StoreResult, Proceed, OnSuccess, ResultInv,
             ResultAt, RunInv, StatusAt, ABSENT
    <3>2. ResultAt(s)'
      BY <1>1, <2>8, <3>1
         DEF TypeOK, ResultAt, SetResult, SetPartialResult, StoreResult, Goto, NoResultYet
    <3> QED
      BY <1>1, <2>8, <3>1, <3>2, ResultInvAt
         DEF TypeOK, SetResult, SetPartialResult, StoreResult, Goto
  <2> QED
    BY <1>4, <2>1, <2>2, <2>3, <2>4, <2>5, <2>6, <2>7, <2>8 DEF Service, MoveOfRun
<1>5. ASSUME NEW s \in Sessions, Billing(s)
      PROVE  ResultInv'
  <2>1. CASE ValidateSettlement(s)
    <3>1. PICK to \in {"submit", "caught", "payFailed", "idle"} : Goto(s, to)
      BY <2>1, NextAwaits DEF ValidateSettlement, Throw
    <3> QED
      BY <1>1, <2>1, <3>1, ResultInvGoto DEF ValidateSettlement, NoResultYet, durable
  <2>2. CASE MoveOfRun(s)
    BY <1>1, <2>2, ResultInvMove
  <2>3. CASE DemoSettle(s)
    <3>1. PICK to \in {"record", "caught", "payFailed", "idle"} : Goto(s, to)
      BY <2>3, NextAwaits DEF DemoSettle, Throw
    <3> QED
      BY <1>1, <2>3, <3>1, ResultInvGoto DEF DemoSettle, NoResultYet, durable
  <2>4. CASE ExternalSettle(s)
    <3>1. PICK answer \in RailAnswer : Goto(s, AfterRail(answer))
      BY <2>4 DEF ExternalSettle
    <3>2. AfterRail(answer) \in {"record", "payFailed", "payUncertain"}
      BY DEF AfterRail, RailAnswer
    <3> QED
      BY <1>1, <2>4, <3>1, <3>2, ResultInvGoto DEF ExternalSettle, NoResultYet, durable
  <2>5. CASE RecordPayment(s)
    <3>1. status[s] = "SETTLEMENT_SUBMITTED"
      BY <1>1, <2>5 DEF RunInv, RecordPayment, StatusAt
    <3>2. /\ Goto(s, "deliver")
          /\ status' = [status EXCEPT ![s] = "SETTLED"]
          /\ UNCHANGED <<result, progress>>
      BY <2>5, <3>1
         DEF RecordPayment, CanTransition, Transitions, Proceed, OnSuccess, ledger
    <3>3. ResultAt(s)'
      BY <1>1, <3>1, <3>2 DEF TypeOK, ResultInv, ResultAt, Goto, NoResultYet, ABSENT
    <3> QED
      BY <1>1, <3>2, <3>3, ResultInvAt DEF TypeOK, Goto
  <2> QED
    BY <1>5, <2>1, <2>2, <2>3, <2>4, <2>5 DEF Billing, MoveOfRun
<1>6. ASSUME NEW s \in Sessions, WriteFails(s)
      PROVE  ResultInv'
  BY <1>1, <1>6, NextAwaits, ResultInvGoto DEF WriteFails, Throw, NoResultYet, durable
<1>7. ASSUME NEW s \in Sessions, Expire(s)
      PROVE  ResultInv'
  BY <1>1, <1>7 DEF ResultInv, ResultAt, Expire, durable, process
<1>8. ASSUME NEW c \in calls, CommitAuthorization(c) \/ AuthorizationWriteFails(c)
      PROVE  ResultInv'
  <2>1. c.session \in Sessions
    BY <1>1 DEF TypeOK, Call
  <2>2. ResultAt(c.session)'
    BY <1>1, <1>8, <2>1
       DEF TypeOK, ResultInv, ResultAt, CommitAuthorization, StillAuthorizable,
           AuthorizationWriteFails,
           ledger, durable
  <2> QED
    BY <1>1, <1>8, <2>1, <2>2, ResultInvAt
       DEF TypeOK, CommitAuthorization, StillAuthorizable, AuthorizationWriteFails, ledger,
           durable
<1>9. CASE Crash
  BY <1>1, <1>9 DEF ResultInv, ResultAt, Crash, NoResultYet, durable
<1> QED
  BY <1>1, <1>2, <1>3, <1>4, <1>5, <1>6, <1>7, <1>8, <1>9 DEF Next, Run, Commit
-----------------------------------------------------------------------------
(* The theorems. *)

LEMMA InitInv == Init => SessionInv
<1>1. SUFFICES ASSUME Init
               PROVE  SessionInv
  OBVIOUS
<1>2. TypeOK
  BY <1>1, InitType
<1>3. RunInv
  BY <1>1, StatusAtBlocks DEF Init, RunInv, Status
<1>4. LedgerInv
  BY <1>1 DEF Init, LedgerInv
<1>5. AmountInv
  BY <1>1 DEF Init, AmountInv, Paying
<1>6. SettlementInv
  BY <1>1
     DEF Init, SettlementInv, Charged, ChargedOnce, ChargeMatchesLedger,
         NonceConsumedBySettlement, ABSENT
<1>7. ResultInv
  BY <1>1 DEF Init, ResultInv, ResultAt, NoResultYet, ABSENT
<1> QED
  BY <1>2, <1>3, <1>4, <1>5, <1>6, <1>7 DEF SessionInv

(* The inductive invariant of the sessions. *)
THEOREM SessionInvariant == Spec => []SessionInv
<1>1. SessionInv /\ [Next]_vars => SessionInv'
  BY NextType, RunInvStep, LedgerInvStep, AmountInvStep, SettlementInvStep, ResultInvStep
     DEF SessionInv
<1> QED
  BY InitInv, <1>1, PTL DEF Spec

(* Every variable of the model keeps its type. *)
THEOREM TypeCorrect == Spec => []TypeOK
<1>1. SessionInv => TypeOK
  BY DEF SessionInv
<1> QED
  BY SessionInvariant, <1>1, PTL

(* Every charge ever recorded (settleAuthorizedUsage) is within the signed *)
(* cap and stays the price of the session's usage ledger.                  *)
THEOREM ChargesMatchLedgers == Spec => []ChargeMatchesLedger
<1>1. SessionInv => ChargeMatchesLedger
  BY DEF SessionInv, SettlementInv
<1> QED
  BY SessionInvariant, <1>1, PTL

(* No interleaving of requests, failures and restarts charges a session    *)
(* twice.                                                                  *)
THEOREM NoSecondCharge == Spec => []ChargedOnce
<1>1. SessionInv => ChargedOnce
  BY DEF SessionInv, SettlementInv
<1> QED
  BY SessionInvariant, <1>1, PTL

(* A delivered session is paid, its nonce is consumed, and its result is   *)
(* what the completed work allows.                                         *)
THEOREM DeliveryIsPaid == Spec => []DeliveredIsPaidWork
<1>1. SessionInv => DeliveredIsPaidWork
  <2>1. SUFFICES ASSUME SessionInv, NEW s \in Sessions, status[s] = "DELIVERED"
                 PROVE  /\ \E st \in settlements : st.session = s
                        /\ authorization[s] \in usedNonces
                        /\ result[s] # "none"
                        /\ result[s] = "full" => progress[s] = PlanLength
    BY DEF DeliveredIsPaidWork
  <2>2. PICK st \in settlements : st.session = s
    BY <2>1 DEF SessionInv, SettlementInv, Charged
  <2>3. authorization[s] \in usedNonces
    BY <2>1, <2>2 DEF SessionInv, SettlementInv, NonceConsumedBySettlement
  <2> QED
    BY <2>1, <2>2, <2>3 DEF SessionInv, ResultInv, ResultAt
<1> QED
  BY SessionInvariant, <1>1, PTL

(* The nonces marked used are those of the recorded settlements. *)
THEOREM NoncesMatchSettlements == Spec => []NonceConsumedBySettlement
<1>1. SessionInv => NonceConsumedBySettlement
  BY DEF SessionInv, SettlementInv
<1> QED
  BY SessionInvariant, <1>1, PTL

(* The outcome of a payment can always be recorded: nobody moves a session *)
(* between the call of the rail and the transaction that stores its answer. *)
THEOREM OutcomesAreRecordable == Spec => []OutcomeCanBeRecorded
<1>1. SessionInv => OutcomeCanBeRecorded
  BY DEF SessionInv, RunInv, StatusAt, OutcomeCanBeRecorded
<1> QED
  BY SessionInvariant, <1>1, PTL
-----------------------------------------------------------------------------
(* Money that moved stands, in a process whose writes do not fail.         *)

(* Once an external rail has moved the money of a session, its run can     *)
(* only record that, and its status is on the paid side of the table.  A   *)
(* restart between the rail and the record leaves the session submitted.   *)
TransferAt(s) ==
  s \in transfers =>
    /\ status[s] \in {"SETTLEMENT_SUBMITTED", "SETTLED", "DELIVERED", "PAYMENT_UNCERTAIN"}
    /\ run[s] \in {"idle", "record", "payUncertain", "deliver"}

TransferInv == \A s \in Sessions : TransferAt(s)

(* A step that moves one session needs the invariant of that one only. *)
LEMMA TransferInvAt ==
  ASSUME TransferInv, NEW s \in Sessions, TransferAt(s)',
         \A x \in Sessions \ {s} :
           /\ status'[x] = status[x] /\ run'[x] = run[x]
           /\ x \in transfers' => x \in transfers
  PROVE  TransferInv'
BY DEF TransferInv, TransferAt

(* A session at any other await of its run has not moved money, so a step  *)
(* of that run that calls no rail keeps the invariant whatever it does.    *)
LEMMA TransferInvUntouched ==
  ASSUME TransferInv, NEW s \in Sessions, UNCHANGED transfers,
         run[s] \notin {"idle", "record", "payUncertain", "deliver"},
         \A x \in Sessions \ {s} : status'[x] = status[x] /\ run'[x] = run[x]
  PROVE  TransferInv'
BY DEF TransferInv, TransferAt

LEMMA TransferInvStep ==
  writeFailures' = 0 /\ TypeOK /\ RunInv /\ TransferInv /\ [Next]_vars => TransferInv'
<1>1. SUFFICES ASSUME writeFailures' = 0, TypeOK, RunInv, TransferInv, [Next]_vars
               PROVE  TransferInv'
  OBVIOUS
<1>2. CASE UNCHANGED vars
  BY <1>1, <1>2 DEF TransferInv, TransferAt, vars
<1>3. ASSUME NEW s \in Sessions, Request(s)
      PROVE  TransferInv'
  <2>1. CASE Create(s) \/ Cancel(s)
    <3>1. PICK to : status' = [status EXCEPT ![s] = to]
      BY <2>1 DEF Create, Cancel
    <3>2. UNCHANGED <<run, transfers>>
      BY <2>1 DEF Create, Cancel, process, environment
    <3>3. s \notin transfers
      BY <1>1, <2>1
         DEF TransferInv, TransferAt, Create, Cancel, CanTransition, Transitions, ABSENT
    <3> QED
      BY <1>1, <3>1, <3>2, <3>3 DEF TypeOK, TransferInv, TransferAt
  <2>2. CASE Start(s)
    <3>1. s \notin transfers
      BY <1>1, <2>2 DEF TransferInv, TransferAt, Start
    <3> QED
      BY <1>1, <2>2, <3>1
         DEF TypeOK, TransferInv, TransferAt, Start, Goto, durable, environment
  <2>3. ASSUME NEW n \in Nonces, RequestAuthorization(s, n)
        PROVE  TransferInv'
    BY <1>1, <2>3 DEF TransferInv, TransferAt, RequestAuthorization, durable, environment
  <2> QED
    BY <1>3, <2>1, <2>2, <2>3 DEF Request
<1>4. ASSUME NEW s \in Sessions, Service(s)
      PROVE  TransferInv'
  <2>1. run[s] \notin {"idle", "record", "payUncertain", "deliver"}
    BY <1>4
       DEF Service, Claim, Activate, RecordBaseFee, BeginStep, Meter, EndStep,
           ServiceReturns, ServiceThrows, SetResult, Finalize, ReachLimit,
           SetPartialResult, FinalizeCapped, ServiceFailed, CancelFailed, StoreResult
  <2>2. UNCHANGED transfers
    BY <1>4
       DEF Service, Claim, Activate, RecordBaseFee, BeginStep, Meter, EndStep,
           ServiceReturns, ServiceThrows, SetResult, Finalize, ReachLimit,
           SetPartialResult, FinalizeCapped, ServiceFailed, CancelFailed, StoreResult,
           Transition, RecordUsage, environment
  <2>3. \A x \in Sessions \ {s} : status'[x] = status[x]
    BY <1>1, <1>4
       DEF TypeOK, Service, Claim, Activate, RecordBaseFee, BeginStep, Meter, EndStep,
           ServiceReturns, ServiceThrows, SetResult, Finalize, ReachLimit,
           SetPartialResult, FinalizeCapped, ServiceFailed, CancelFailed, StoreResult,
           Transition, RecordUsage, durable
  <2>4. PICK next : Goto(s, next)
    BY <1>4
       DEF Service, Claim, Activate, RecordBaseFee, BeginStep, Meter, EndStep,
           ServiceReturns, ServiceThrows, SetResult, Finalize, ReachLimit,
           SetPartialResult, FinalizeCapped, ServiceFailed, CancelFailed, StoreResult,
           Transition, RecordUsage, Proceed, Throw
  <2> QED
    BY <1>1, <2>1, <2>2, <2>3, <2>4, TransferInvUntouched DEF TypeOK, Goto
<1>5. ASSUME NEW s \in Sessions, Billing(s)
      PROVE  TransferInv'
  <2>1. CASE ValidateSettlement(s) \/ DemoSettle(s)
    <3>1. PICK next : Goto(s, next)
      BY <2>1 DEF ValidateSettlement, DemoSettle, Throw
    <3> QED
      BY <1>1, <2>1, <3>1, TransferInvUntouched
         DEF TypeOK, ValidateSettlement, DemoSettle, Goto, durable, environment
  <2>2. CASE Submit(s) \/ PaymentFailed(s)
    <3>1. PICK to : run[s] \in {"submit", "payFailed"} /\ Transition(s, to)
      BY <2>2 DEF Submit, PaymentFailed
    <3> QED
      BY <1>1, <3>1, TransferInvUntouched
         DEF TypeOK, Transition, Proceed, Throw, Goto, environment
  <2>3. CASE PaymentUncertain(s) \/ Deliver(s)
    <3>1. PICK to \in {"PAYMENT_UNCERTAIN", "DELIVERED"} :
            run[s] \in {"payUncertain", "deliver"} /\ Transition(s, to)
      BY <2>3 DEF PaymentUncertain, Deliver
    <3>2. Goto(s, "idle")
      BY <3>1 DEF Transition, Proceed, Throw, OnSuccess, OnError
    <3>3. TransferAt(s)'
      BY <1>1, <3>1, <3>2
         DEF TypeOK, TransferInv, TransferAt, Transition, Goto, environment
    <3> QED
      BY <1>1, <3>1, <3>2, <3>3, TransferInvAt DEF TypeOK, Transition, Goto, environment
  <2>4. CASE ExternalSettle(s)
    <3>1. status[s] = "SETTLEMENT_SUBMITTED" /\ s \notin transfers
      BY <1>1, <2>4 DEF RunInv, StatusAt, TransferInv, TransferAt, ExternalSettle
    <3>2. PICK answer \in RailAnswer :
            /\ Goto(s, AfterRail(answer))
            /\ transfers' \in {transfers, transfers \cup {s}}
            /\ answer = "declined" => transfers' = transfers
      BY <2>4 DEF ExternalSettle, RailAnswer
    <3>3. answer # "declined" => AfterRail(answer) \in {"record", "payUncertain"}
      BY DEF AfterRail, RailAnswer
    <3>4. UNCHANGED status
      BY <2>4 DEF ExternalSettle, durable
    <3>5. TransferAt(s)'
      BY <1>1, <3>1, <3>2, <3>3, <3>4 DEF TypeOK, TransferAt, Goto
    <3> QED
      BY <1>1, <3>2, <3>4, <3>5, TransferInvAt DEF TypeOK, Goto
  <2>5. CASE RecordPayment(s)
    <3>1. status[s] = "SETTLEMENT_SUBMITTED"
      BY <1>1, <2>5 DEF RunInv, RecordPayment, StatusAt
    <3>2. CanTransition(status[s], "SETTLED")
      BY <3>1 DEF CanTransition, Transitions
    <3>3. /\ Goto(s, "deliver") /\ status' = [status EXCEPT ![s] = "SETTLED"]
          /\ UNCHANGED transfers
      BY <2>5, <3>2 DEF RecordPayment, Proceed, OnSuccess, environment
    <3>4. TransferAt(s)'
      BY <1>1, <3>3 DEF TypeOK, TransferAt, Goto
    <3> QED
      BY <1>1, <3>3, <3>4, TransferInvAt DEF TypeOK, Goto
  <2> QED
    BY <1>5, <2>1, <2>2, <2>3, <2>4, <2>5 DEF Billing
<1>6. ASSUME NEW s \in Sessions, WriteFails(s)
      PROVE  FALSE
  BY <1>1, <1>6 DEF TypeOK, WriteFails
<1>7. ASSUME NEW s \in Sessions, Expire(s)
      PROVE  TransferInv'
  BY <1>1, <1>7 DEF TransferInv, TransferAt, Expire, durable, process
<1>8. ASSUME NEW c \in calls, CommitAuthorization(c)
      PROVE  TransferInv'
  <2>1. c.session \in Sessions
    BY <1>1 DEF TypeOK, Call
  <2>2. UNCHANGED <<run, transfers>>
    BY <1>8 DEF CommitAuthorization, environment
  <2>3. CASE StillAuthorizable(c.session)
    <3>1. c.session \notin transfers
      BY <1>1, <2>1, <2>3 DEF StillAuthorizable, TransferInv, TransferAt
    <3>2. status' = [status EXCEPT ![c.session] = "AUTHORIZED"]
      BY <1>8, <2>3 DEF CommitAuthorization
    <3> QED
      BY <1>1, <2>1, <2>2, <3>1, <3>2 DEF TypeOK, TransferInv, TransferAt
  <2>4. CASE ~StillAuthorizable(c.session)
    BY <1>1, <1>8, <2>2, <2>4 DEF CommitAuthorization, TransferInv, TransferAt
  <2> QED
    BY <2>3, <2>4
<1>9. ASSUME NEW c \in calls, AuthorizationWriteFails(c)
      PROVE  FALSE
  BY <1>1, <1>9 DEF TypeOK, AuthorizationWriteFails
<1>10. CASE Crash
  <2>1. PICK late \in SUBSET {s \in Sessions : RailMode = "external" /\ run[s] = "rail"} :
          transfers' = transfers \cup late
    BY <1>10 DEF Crash
  <2>2. \A s \in late : status[s] = "SETTLEMENT_SUBMITTED"
    BY <1>1, <2>1 DEF RunInv, StatusAt
  <2> QED
    BY <1>1, <1>10, <2>1, <2>2 DEF TransferInv, TransferAt, Crash, durable
<1> QED
  BY <1>1, <1>2, <1>3, <1>4, <1>5, <1>6, <1>7, <1>8, <1>9, <1>10 DEF Next, Run, Commit

(* Failed writes are only ever counted up. *)
LEMMA WriteFailuresGrow ==
  TypeOK /\ [Next]_vars /\ writeFailures' = 0 => writeFailures = 0
<1>1. SUFFICES ASSUME TypeOK, [Next]_vars, writeFailures' = 0
               PROVE  writeFailures = 0
  OBVIOUS
<1>2. writeFailures' # writeFailures + 1
  BY <1>1 DEF TypeOK
<1>3. ASSUME NEW s \in Sessions, Request(s)
      PROVE  UNCHANGED writeFailures
  BY <1>3 DEF Request, Create, Cancel, Start, RequestAuthorization, environment
<1>4. ASSUME NEW s \in Sessions, Service(s)
      PROVE  UNCHANGED writeFailures
  BY <1>4
     DEF Service, Claim, Activate, RecordBaseFee, BeginStep, Meter, EndStep,
         ServiceReturns, ServiceThrows, SetResult, Finalize, ReachLimit,
         SetPartialResult, FinalizeCapped, ServiceFailed, CancelFailed, StoreResult,
         Transition, RecordUsage, environment
<1>5. ASSUME NEW s \in Sessions, Billing(s)
      PROVE  UNCHANGED writeFailures
  BY <1>5
     DEF Billing, ValidateSettlement, Submit, DemoSettle, ExternalSettle, RecordPayment,
         PaymentFailed, PaymentUncertain, Deliver, Transition, environment
<1>6. ASSUME NEW s \in Sessions, WriteFails(s) \/ Expire(s)
      PROVE  writeFailures = 0
  BY <1>1, <1>2, <1>6 DEF WriteFails, Expire
<1>7. ASSUME NEW c \in calls, CommitAuthorization(c) \/ AuthorizationWriteFails(c)
      PROVE  writeFailures = 0
  BY <1>1, <1>2, <1>7 DEF CommitAuthorization, AuthorizationWriteFails, environment
<1> QED
  BY <1>1, <1>3, <1>4, <1>5, <1>6, <1>7 DEF Next, Run, Commit, Crash, vars

(* While writes succeed, whatever requests, answers of the rail and        *)
(* restarts interleave, a session whose money moved is neither cancelled   *)
(* nor marked failed, from where it could be.  (With a failed write of the *)
(* settlement it is: run moved_money_denied.)                              *)
THEOREM MovedMoneyStands == Spec => []OnlyFailedWritesDenyMoney
<1> DEFINE Inv == writeFailures = 0 => TransferInv
<1>1. Init => Inv
  BY DEF Init, TransferInv, TransferAt
<1>2. SessionInv /\ Inv /\ [Next]_vars => Inv'
  BY TransferInvStep, WriteFailuresGrow DEF SessionInv
<1>3. SessionInv /\ Inv => OnlyFailedWritesDenyMoney
  BY DEF SessionInv, SettlementInv, Charged, TransferInv, TransferAt, MovedMoneyIsNotDenied,
         OnlyFailedWritesDenyMoney
<1> QED
  BY <1>1, <1>2, <1>3, SessionInvariant, PTL DEF Spec
-----------------------------------------------------------------------------
(* Nonces of the demo rail. *)

(* The nonces of stored authorizations and of the requests on their way    *)
(* differ from one another.                                                *)
NonceInv ==
  /\ \A s, other \in Sessions :
       authorization[s] = authorization[other] /\ authorization[s] # NoNonce => s = other
  /\ \A c \in calls, s \in Sessions : authorization[s] # c.nonce
  /\ \A c, other \in calls : c.nonce = other.nonce => c = other

(* Only the two ends of POST authorize change them. *)
LEMMA NonceSteps ==
  ASSUME TypeOK, NonceInv, [Next]_vars,
         \A s \in Sessions, n \in Nonces : ~RequestAuthorization(s, n),
         \A c \in calls : ~CommitAuthorization(c)
  PROVE  UNCHANGED authorization /\ calls' \subseteq calls
<1>1. ASSUME NEW s \in Sessions, Request(s)
      PROVE  UNCHANGED <<authorization, calls>>
  BY <1>1 DEF Request, Create, Cancel, Start, durable, process
<1>2. ASSUME NEW s \in Sessions, Service(s)
      PROVE  UNCHANGED <<authorization, calls>>
  BY <1>2
     DEF Service, Claim, Activate, RecordBaseFee, BeginStep, Meter, EndStep,
         ServiceReturns, ServiceThrows, SetResult, Finalize, ReachLimit,
         SetPartialResult, FinalizeCapped, ServiceFailed, CancelFailed, StoreResult,
         Transition, RecordUsage, durable
<1>3. ASSUME NEW s \in Sessions, Billing(s)
      PROVE  UNCHANGED <<authorization, calls>>
  BY <1>3
     DEF Billing, ValidateSettlement, Submit, DemoSettle, ExternalSettle, RecordPayment,
         PaymentFailed, PaymentUncertain, Deliver, Transition, durable, ledger
<1>4. ASSUME NEW s \in Sessions, WriteFails(s) \/ Expire(s)
      PROVE  UNCHANGED <<authorization, calls>>
  BY <1>4 DEF WriteFails, Expire, durable, process
<1>5. ASSUME NEW c \in calls, AuthorizationWriteFails(c)
      PROVE  UNCHANGED authorization /\ calls' \subseteq calls
  BY <1>5 DEF AuthorizationWriteFails, durable
<1>6. CASE Crash
  BY <1>6 DEF Crash, durable
<1>7. CASE UNCHANGED vars
  BY <1>7 DEF vars, durable, process
<1> QED
  BY <1>1, <1>2, <1>3, <1>4, <1>5, <1>6, <1>7 DEF Next, Run, Commit

LEMMA NonceStep ==
  RailMode = "demo" /\ TypeOK /\ NonceInv /\ [Next]_vars => NonceInv'
<1> SUFFICES ASSUME RailMode = "demo", TypeOK, NonceInv, [Next]_vars
             PROVE  NonceInv'
  OBVIOUS
<1>1. ASSUME NEW s \in Sessions, NEW n \in Nonces, RequestAuthorization(s, n)
      PROVE  NonceInv'
  <2>1. FreshNonce(n) /\ UNCHANGED authorization
    BY <1>1 DEF RequestAuthorization, durable
  <2>2. calls' = calls \cup {[session |-> s, nonce |-> n]}
    BY <1>1 DEF RequestAuthorization
  <2> QED
    BY <2>1, <2>2 DEF NonceInv, FreshNonce
<1>2. ASSUME NEW c \in calls, CommitAuthorization(c)
      PROVE  NonceInv'
  <2>1. c.session \in Sessions /\ calls' = calls \ {c}
    BY <1>2 DEF TypeOK, Call, CommitAuthorization
  <2>2. authorization' \in {authorization, [authorization EXCEPT ![c.session] = c.nonce]}
    BY <1>2 DEF CommitAuthorization
  <2> QED
    BY <2>1, <2>2 DEF TypeOK, NonceInv
<1>3. CASE /\ \A s \in Sessions, n \in Nonces : ~RequestAuthorization(s, n)
           /\ \A c \in calls : ~CommitAuthorization(c)
  BY <1>3, NonceSteps DEF NonceInv
<1> QED
  BY <1>1, <1>2, <1>3

(* Where the demo agent signs, no two sessions are charged on one nonce:   *)
(* createId gives each authorization its own, so the check and the record  *)
(* of a nonce need not be one transaction.  (Wallets that repeat one are   *)
(* run nonce_reuse.)                                                       *)
THEOREM DemoNoncesAreUsedOnce ==
  ASSUME RailMode = "demo"
  PROVE  Spec => []SingleUseNonce
<1>1. Init => NonceInv
  BY DEF Init, NonceInv
<1>2. TypeOK /\ NonceInv /\ [Next]_vars => NonceInv'
  BY NonceStep
<1>3. SessionInv /\ NonceInv => SingleUseNonce
  <2> SUFFICES ASSUME SessionInv, NonceInv, NEW st \in settlements, NEW other \in settlements,
                      authorization[st.session] = authorization[other.session]
               PROVE  st.session = other.session
    BY DEF SingleUseNonce
  <2>1. st.session \in Sessions /\ other.session \in Sessions
    BY DEF SessionInv, TypeOK, Settlement
  <2>2. authorization[st.session] \in usedNonces
    BY DEF SessionInv, SettlementInv, NonceConsumedBySettlement
  <2>3. authorization[st.session] # NoNonce
    BY <2>2, NonceAssumption DEF SessionInv, TypeOK
  <2> QED
    BY <2>1, <2>3 DEF NonceInv
<1>4. SessionInv => TypeOK
  BY DEF SessionInv
<1> QED
  BY <1>1, <1>2, <1>3, <1>4, SessionInvariant, PTL DEF Spec
=============================================================================
