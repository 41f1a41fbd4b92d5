---------------------- MODULE PaymentSession_refinement ----------------------
(***************************************************************************)
(* The sessions implement CappedCharge, with every failure and restart of  *)
(* the model: each step is a step of the promise or leaves what the        *)
(* promise speaks of alone.                                                *)
(***************************************************************************)
EXTENDS PaymentSession_proofs

Phases == [s \in Sessions |-> PhaseOf(status[s])]
Charges == [s \in Sessions |-> ChargeIn(settlements, s)]

(* Changing the status of one session changes the phase of that one. *)
LEMMA PhaseMoves ==
  ASSUME TypeOK, NEW s \in Sessions, NEW to, status' = [status EXCEPT ![s] = to]
  PROVE  /\ Phases' = [Phases EXCEPT ![s] = PhaseOf(to)]
         /\ Phases[s] = PhaseOf(status[s])
BY DEF TypeOK, Phases

(* The statuses of a session the rows of the table can leave or reach. *)
LEMMA PhaseTable ==
  /\ \A from : CanTransition(from, "CANCELLED") => PhaseOf(from) \in {"offered", "authorized"}
  /\ \A stored \in SessionState
        \ {"AUTHORIZATION_REQUIRED", "SETTLED", "DELIVERED", "CANCELLED"} :
       PhaseOf(stored) = "authorized"
  /\ PhaseOf(ABSENT) = "none" /\ PhaseOf("AUTHORIZATION_REQUIRED") = "offered"
  /\ PhaseOf("SETTLED") = "charged" /\ PhaseOf("DELIVERED") = "released"
  /\ PhaseOf("CANCELLED") = "void"
<1>1. \A from : CanTransition(from, "CANCELLED") =>
        from \in SessionState \ {"SETTLED", "DELIVERED", "CANCELLED"}
  BY DEF CanTransition, Transitions, SessionState
<1>2. \A stored \in SessionState
         \ {"AUTHORIZATION_REQUIRED", "SETTLED", "DELIVERED", "CANCELLED"} :
        PhaseOf(stored) = "authorized"
  BY DEF PhaseOf, SessionState, ABSENT
<1>3. /\ PhaseOf(ABSENT) = "none" /\ PhaseOf("AUTHORIZATION_REQUIRED") = "offered"
      /\ PhaseOf("SETTLED") = "charged" /\ PhaseOf("DELIVERED") = "released"
      /\ PhaseOf("CANCELLED") = "void"
  BY DEF PhaseOf, ABSENT
<1> QED
  BY <1>1, <1>2, <1>3

LEMMA InitPromise == Init => Promise!Init
<1>1. SUFFICES ASSUME Init
               PROVE  Promise!Init
  OBVIOUS
<1>2. \A s \in Sessions : PhaseOf(status[s]) = "none"
  BY <1>1 DEF Init, PhaseOf, ABSENT
<1>3. \A s \in Sessions : ChargeIn(settlements, s) = 0
  BY <1>1 DEF Init, ChargeIn
<1> QED
  BY <1>1, <1>2, <1>3 DEF Init, Promise!Init

(* A transition of a run stays in its phase, voids the session of a failed *)
(* service, or releases a charged one.                                     *)
LEMMA MoveOfPromise ==
  ASSUME SessionInv, NEW s \in Sessions, MoveOfRun(s)
  PROVE  [Promise!Next]_(Promise!vars)
<1>1. UNCHANGED <<cap, settlements>>
  BY MoveEffect DEF SessionInv
<1>2. Charges' = Charges
  BY <1>1 DEF Charges
<1>3. CASE UNCHANGED status
  BY <1>1, <1>3 DEF Promise!vars
<1>4. CASE CancelFailed(s) /\ CanTransition(status[s], "CANCELLED")
  <2>1. status' = [status EXCEPT ![s] = "CANCELLED"]
    BY <1>4 DEF CancelFailed, Transition
  <2>2. Phases' = [Phases EXCEPT ![s] = "void"] /\ Phases[s] \in {"offered", "authorized"}
    <3>1. /\ Phases' = [Phases EXCEPT ![s] = PhaseOf("CANCELLED")]
          /\ Phases[s] = PhaseOf(status[s])
      BY <2>1, PhaseMoves DEF SessionInv
    <3> QED
      BY <1>4, <3>1, PhaseTable
  <2>3. Promise!Void(s)
    BY <1>1, <1>2, <2>2 DEF Promise!Void, Promise!Enter, Phases, Charges
  <2> QED
    BY <2>3 DEF Promise!Next
<1>5. CASE Deliver(s) /\ CanTransition(status[s], "DELIVERED")
  <2>1. status' = [status EXCEPT ![s] = "DELIVERED"] /\ status[s] = "SETTLED"
    BY <1>5 DEF Deliver, Transition, SessionInv, RunInv, StatusAt
  <2>2. Phases' = [Phases EXCEPT ![s] = "released"] /\ Phases[s] = "charged"
    <3>1. /\ Phases' = [Phases EXCEPT ![s] = PhaseOf("DELIVERED")]
          /\ Phases[s] = PhaseOf("SETTLED")
      BY <2>1, PhaseMoves DEF SessionInv
    <3> QED
      BY <3>1, PhaseTable
  <2>3. Promise!Release(s)
    BY <1>1, <1>2, <2>2 DEF Promise!Release, Promise!Enter, Phases, Charges
  <2> QED
    BY <2>3 DEF Promise!Next
<1>6. CASE ~CancelFailed(s) /\ ~Deliver(s) /\ status' # status
  <2>1. PICK to \in SessionState
               \ {"AUTHORIZATION_REQUIRED", "SETTLED", "DELIVERED", "CANCELLED"} :
          Transition(s, to)
    BY <1>6
       DEF MoveOfRun, Activate, Finalize, ReachLimit, FinalizeCapped, ServiceFailed, Submit,
           PaymentFailed, PaymentUncertain, SessionState
  <2>2. status' = [status EXCEPT ![s] = to] /\ CanTransition(status[s], to)
    BY <1>6, <2>1 DEF Transition
  <2>3. run[s] \in RunStep \ {"idle", "deliver"}
    BY <1>6 DEF SessionInv, TypeOK, MoveOfRun, Activate, Finalize, ReachLimit, FinalizeCapped,
                ServiceFailed, Submit, PaymentFailed, PaymentUncertain, RunStep
  <2>4. status[s] \in {"AUTHORIZED", "ACTIVE", "LIMIT_REACHED", "SERVICE_FAILED",
                       "USAGE_FINALIZED", "SETTLEMENT_SUBMITTED", "CANCELLED"}
    BY <2>3 DEF SessionInv, RunInv, StatusAt, RunStep
  <2>5. status[s] # "CANCELLED"
    BY <2>2 DEF CanTransition, Transitions
  <2>6. PhaseOf(status[s]) = "authorized" /\ PhaseOf(to) = "authorized"
    BY <2>4, <2>5, PhaseTable DEF SessionState
  <2>7. Phases' = Phases
    BY <2>2, <2>6, PhaseMoves DEF SessionInv, Phases
  <2> QED
    BY <1>1, <1>2, <2>7 DEF Promise!vars, Phases, Charges
<1>7. CancelFailed(s) => UNCHANGED status \/ CanTransition(status[s], "CANCELLED")
  BY DEF CancelFailed, Transition
<1>8. Deliver(s) => UNCHANGED status \/ CanTransition(status[s], "DELIVERED")
  BY DEF Deliver, Transition
<1> QED
  BY <1>3, <1>4, <1>5, <1>6, <1>7, <1>8

(* The one step that charges: within the limit, of an authorized session.  *)
LEMMA PaymentOfPromise ==
  ASSUME SessionInv, NEW s \in Sessions, RecordPayment(s)
  PROVE  Promise!Charge(s)
<1>1. status[s] = "SETTLEMENT_SUBMITTED"
  BY DEF RecordPayment, SessionInv, RunInv, StatusAt
<1>2. /\ settlements' = settlements \cup {Payment(s)}
      /\ status' = [status EXCEPT ![s] = "SETTLED"]
      /\ UNCHANGED cap
  BY <1>1 DEF RecordPayment, CanTransition, Transitions
<1>3. Payment(s).session = s /\ Payment(s).amount = amount[s]
  BY DEF Payment
<1>4. ~ \E st \in settlements : st.session = s
  BY <1>1 DEF SessionInv, SettlementInv, Charged
\* The session has no other settlement, so the payment decides its charge and
\* nobody else's.
<1>5. Charges' = [Charges EXCEPT ![s] = amount[s]]
  <2> DEFINE payment == Payment(s)
             next == settlements'
  <2>1. payment.session = s /\ payment.amount = amount[s]
    BY <1>3
  <2>2. next = settlements \cup {payment} /\ \A st \in settlements : st.session # s
    BY <1>2, <1>4
  <2> HIDE DEF payment, next
  <2>3. ChargeIn(next, s) = payment.amount
    <3>1. \A st \in next : st.session = s <=> st = payment
      BY <2>1, <2>2
    <3>2. payment \in next
      BY <2>2
    <3>3. (CHOOSE st \in next : st.session = s) = payment
      BY <3>1, <3>2
    <3> QED
      BY <3>1, <3>2, <3>3 DEF ChargeIn
  <2>4. ASSUME NEW x, x # s
        PROVE  ChargeIn(next, x) = ChargeIn(settlements, x)
    <3>1. \A st : (st \in next /\ st.session = x)
                    <=> (st \in settlements /\ st.session = x)
      BY <2>1, <2>2, <2>4
    <3>2. (CHOOSE st \in next : st.session = x) = (CHOOSE st \in settlements : st.session = x)
      BY <3>1
    <3> QED
      BY <3>1, <3>2 DEF ChargeIn
  <2> QED
    BY <2>1, <2>3, <2>4 DEF Charges, next
<1>6. amount[s] \in 0..cap[s]
  BY DEF SessionInv, TypeOK, AmountInv, Paying, RecordPayment
<1>7. Phases' = [Phases EXCEPT ![s] = "charged"] /\ Phases[s] = "authorized"
  <2>1. /\ Phases' = [Phases EXCEPT ![s] = PhaseOf("SETTLED")]
        /\ Phases[s] = PhaseOf("SETTLEMENT_SUBMITTED")
    BY <1>1, <1>2, PhaseMoves DEF SessionInv
  <2>2. PhaseOf("SETTLEMENT_SUBMITTED") = "authorized"
    BY PhaseTable DEF SessionState
  <2> QED
    BY <2>1, <2>2, PhaseTable
<1> QED
  BY <1>2, <1>5, <1>6, <1>7 DEF Promise!Charge, Promise!Enter, Phases, Charges

LEMMA StepOfPromise ==
  ASSUME SessionInv, [Next]_vars
  PROVE  [Promise!Next]_(Promise!vars)
<1>1. CASE UNCHANGED durable
  BY <1>1 DEF durable, Promise!vars
<1>2. ASSUME NEW s \in Sessions, Create(s)
      PROVE  Promise!Offer(s)
  <2>1. Phases' = [Phases EXCEPT ![s] = "offered"] /\ Phases[s] = "none"
    <3>1. /\ Phases' = [Phases EXCEPT ![s] = PhaseOf("AUTHORIZATION_REQUIRED")]
          /\ Phases[s] = PhaseOf(ABSENT)
      BY <1>2, PhaseMoves DEF Create, SessionInv
    <3> QED
      BY <3>1, PhaseTable
  <2>2. Charges' = Charges
    BY <1>2 DEF Create, records, Charges
  <2> QED
    BY <1>2, <2>1, <2>2 DEF Create, Promise!Offer, Promise!Enter, Phases, Charges
<1>3. ASSUME NEW s \in Sessions, Cancel(s)
      PROVE  Promise!Void(s)
  <2>1. Phases' = [Phases EXCEPT ![s] = "void"] /\ Phases[s] \in {"offered", "authorized"}
    <3>1. /\ Phases' = [Phases EXCEPT ![s] = PhaseOf("CANCELLED")]
          /\ Phases[s] = PhaseOf(status[s])
      BY <1>3, PhaseMoves DEF Cancel, SessionInv
    <3> QED
      BY <1>3, <3>1, PhaseTable DEF Cancel
  <2>2. Charges' = Charges
    BY <1>3 DEF Cancel, records, Charges
  <2> QED
    BY <1>3, <2>1, <2>2 DEF Cancel, Promise!Void, Promise!Enter, Phases, Charges
<1>4. ASSUME NEW s \in Sessions, RecordBaseFee(s) \/ Meter(s)
      PROVE  UNCHANGED <<status, cap, settlements>>
  BY <1>4 DEF RecordBaseFee, Meter, RecordUsage, records
<1>5. ASSUME NEW s \in Sessions, Claim(s) \/ EndStep(s) \/ SetResult(s) \/ SetPartialResult(s)
      PROVE  UNCHANGED <<status, cap, settlements>>
  BY <1>5 DEF Claim, EndStep, SetResult, SetPartialResult, StoreResult, records
<1>6. ASSUME NEW c \in calls, CommitAuthorization(c)
      PROVE  Promise!Authorize(c.session) \/ UNCHANGED <<status, cap, settlements>>
  <2>1. CASE UNCHANGED status
    BY <1>6, <2>1 DEF CommitAuthorization, records
  <2>2. CASE /\ status[c.session] = "AUTHORIZATION_REQUIRED"
             /\ status' = [status EXCEPT ![c.session] = "AUTHORIZED"]
    <3>1. c.session \in Sessions
      BY DEF SessionInv, TypeOK, Call
    <3>2. /\ Phases' = [Phases EXCEPT ![c.session] = "authorized"]
          /\ Phases[c.session] = "offered"
      <4>1. /\ Phases' = [Phases EXCEPT ![c.session] = PhaseOf("AUTHORIZED")]
            /\ Phases[c.session] = PhaseOf("AUTHORIZATION_REQUIRED")
        BY <2>2, <3>1, PhaseMoves DEF SessionInv
      <4>2. PhaseOf("AUTHORIZED") = "authorized"
        BY PhaseTable DEF SessionState
      <4> QED
        BY <4>1, <4>2, PhaseTable
    <3>3. Charges' = Charges
      BY <1>6 DEF CommitAuthorization, records, Charges
    <3> QED
      BY <1>6, <3>2, <3>3
         DEF CommitAuthorization, Promise!Authorize, Promise!Enter, Phases, Charges
  <2> QED
    BY <1>6, <2>1, <2>2 DEF CommitAuthorization, StillAuthorizable
<1>7. ASSUME UNCHANGED <<status, cap, settlements>>
      PROVE  UNCHANGED Promise!vars
  BY <1>7 DEF Promise!vars
<1>8. \A c \in calls : c.session \in Sessions
  BY DEF SessionInv, TypeOK, Call
<1> QED
  BY <1>1, <1>2, <1>3, <1>4, <1>5, <1>6, <1>7, <1>8, MoveOfPromise, PaymentOfPromise,
     DurableSteps
     DEF Promise!Next

(* The sessions keep the promise of CappedCharge, whatever fails. *)
THEOREM SessionsKeepPromise == Spec => KeepsPromise
<1>1. SessionInv /\ [Next]_vars => [Promise!Next]_(Promise!vars)
  BY StepOfPromise
<1> QED
  BY InitPromise, SessionInvariant, <1>1, PTL DEF Spec, KeepsPromise, Promise!Spec
=============================================================================
