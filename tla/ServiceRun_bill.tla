-------------------------- MODULE ServiceRun_bill ---------------------------
(***************************************************************************)
(* Proofs about the bill of a run, for every job, cap and token count: the *)
(* ledger tells the work of the run piece by piece, its total stays within *)
(* the cap, and the suggested maximum pays for all of it.                  *)
(***************************************************************************)
EXTENDS ServiceRun_proofs, Sums_proofs

(***************************************************************************)
(* The scripts.                                                            *)
(***************************************************************************)

Script == Execution(case.job)

(* What a script meters: none of it is a credit, and none is left to the   *)
(* model.                                                                  *)
Piece == [type : UsageType \ {"CREDIT"}, quantity : Nat]

LEMMA PieceMembers ==
  /\ \A type \in UsageType \ {"CREDIT"}, quantity \in Nat : Metered(type, quantity) \in Piece
  /\ \A n \in Nat : Input(n) \in Piece /\ Output(n) \in Piece
  /\ ModelCall \notin Piece
<1>1. \A type \in UsageType \ {"CREDIT"}, quantity \in Nat : Metered(type, quantity) \in Piece
  BY DEF Piece, Metered
<1>2. {"LLM_INPUT_TOKENS", "LLM_OUTPUT_TOKENS"} \subseteq UsageType \ {"CREDIT"}
  BY DEF UsageType, CommonRates
<1>3. ModelCall \notin Piece
  <2>1. ModelCall.type = "MODEL"
    BY DEF ModelCall, Metered
  <2>2. "MODEL" \notin UsageType
    BY DEF UsageType, CommonRates
  <2>3. \A p \in Piece : p.type \in UsageType
    BY DEF Piece
  <2> QED
    BY <2>1, <2>2, <2>3
<1> QED
  BY <1>1, <1>2, <1>3 DEF Input, Output

LEMMA NotTheCall ==
  ASSUME NEW w \in Seq(Piece)
  PROVE  w # <<ModelCall>>
<1> SUFFICES ASSUME w = <<ModelCall>> PROVE FALSE
  OBVIOUS
<1>1. w[1] = ModelCall /\ 1 \in 1..Len(w)
  OBVIOUS
<1>2. w[1] \in Piece
  BY <1>1, ElementOfSeq
<1> QED
  BY <1>1, <1>2, PieceMembers

(* A service has the three steps of its plan; at most the last is a model  *)
(* call, and nothing else.                                                 *)
LEMMA ScriptShape ==
  ASSUME NEW job, JobOK(job)
  PROVE  /\ Execution(job) \in Seq([id : StepId, work : Seq(Work)]) /\ Len(Execution(job)) = 3
         /\ Plan(job.service) \in Seq(StepId) /\ Len(Plan(job.service)) = 3
         /\ \A k \in 1..3 : Execution(job)[k].id = Plan(job.service)[k]
         /\ Execution(job)[1].work \in Seq(Piece)
         /\ Execution(job)[2].work \in Seq(Piece)
         /\ Execution(job)[3].work \in Seq(Piece) \/ Execution(job)[3].work = <<ModelCall>>
<1>t. Execution(job) \in Seq([id : StepId, work : Seq(Work)])
  BY ExecutionType DEF Step
<1> DEFINE seconds == AtLeast(HalfUp(job.pages), 2)
           cost == IF job.priority = "fast" THEN 75000 ELSE 55000
<1>1. job.pages \in Nat /\ seconds \in Nat /\ cost \in Nat
  <2>1. job.pages \in 1..100
    BY DEF JobOK
  <2>2. HalfUp(job.pages) = (job.pages + 1) \div 2
    BY <2>1 DEF HalfUp, CeilDiv, TruncDiv
  <2> QED
    BY <2>1, <2>2 DEF AtLeast
<1> HIDE DEF seconds, cost
<1>m. \A type \in {"EXTERNAL_API_COST", "COMPUTE_SECONDS", "DOCUMENT_PAGE", "IMAGE_GENERATION"},
        quantity \in Nat : Metered(type, quantity) \in Piece
  BY PieceMembers DEF UsageType, CommonRates
<1>2. CASE job.service = "supplier-research"
  <2> DEFINE scope == <<Metered("EXTERNAL_API_COST", 40000), Input(5400), Output(620)>>
             verify == <<Metered("EXTERNAL_API_COST", cost), Metered("COMPUTE_SECONDS", 18)>>
  <2>1. scope \in Seq(Piece)
    BY <1>m, PieceMembers
  <2>2. verify \in Seq(Piece)
    BY <1>m, <1>1
  <2>3. Execution(job) =
          <<StepOf("scope", scope), StepOf("verify", verify), StepOf("synthesize", <<ModelCall>>)>>
    BY <1>2 DEF Execution, SupplierResearch, cost
  <2>4. Plan(job.service) = <<"scope", "verify", "synthesize">>
    BY <1>2 DEF Plan
  <2> HIDE DEF scope, verify
  <2> QED
    BY <1>t, <2>1, <2>2, <2>3, <2>4 DEF StepOf, StepId
<1>3. CASE job.service = "document-analysis"
  <2> DEFINE extract == <<Metered("DOCUMENT_PAGE", job.pages), Metered("COMPUTE_SECONDS", seconds)>>
             review == <<Input(1000 + 650 * job.pages), Output(900)>>
             brief == <<Output(650)>>
  <2>1. extract \in Seq(Piece)
    BY <1>m, <1>1
  <2>2. review \in Seq(Piece)
    <3>1. 1000 + 650 * job.pages \in Nat
      BY <1>1
    <3> QED
      BY <3>1, PieceMembers
  <2>3. brief \in Seq(Piece)
    BY PieceMembers
  <2>4. Execution(job) =
          <<StepOf("extract", extract), StepOf("review", review), StepOf("brief", brief)>>
    BY <1>3 DEF Execution, DocumentAnalysis, seconds
  <2>5. Plan(job.service) = <<"extract", "review", "brief">>
    BY <1>3 DEF Plan
  <2> HIDE DEF extract, review, brief
  <2> QED
    BY <1>t, <2>1, <2>2, <2>3, <2>4, <2>5 DEF StepOf, StepId
<1>4. CASE job.service = "campaign-concept"
  <2> DEFINE strategy == <<Input(4200), Output(1100)>>
             directions == <<Metered("IMAGE_GENERATION", 2)>>
             package == <<Output(1350), Metered("COMPUTE_SECONDS", 12)>>
  <2>1. strategy \in Seq(Piece)
    BY PieceMembers
  <2>2. directions \in Seq(Piece)
    BY <1>m
  <2>3. package \in Seq(Piece)
    BY <1>m, PieceMembers
  <2>4. Execution(job) =
          <<StepOf("strategy", strategy), StepOf("directions", directions),
            StepOf("package", package)>>
    BY <1>4 DEF Execution, CampaignConcept
  <2>5. Plan(job.service) = <<"strategy", "directions", "package">>
    BY <1>4 DEF Plan
  <2> HIDE DEF strategy, directions, package
  <2> QED
    BY <1>t, <2>1, <2>2, <2>3, <2>4, <2>5 DEF StepOf, StepId
<1> QED
  BY <1>2, <1>3, <1>4 DEF JobOK, ServiceId

(***************************************************************************)
(* The bill, step by step.                                                 *)
(***************************************************************************)

Bill0 == <<Metered("BASE_FEE", 1)>>
Bill1 == Bill0 \o KnownWork(Script[1].work)
Bill2 == Bill1 \o KnownWork(Script[2].work)
Bill3 == Bill2 \o KnownWork(Script[3].work)

(* What is billed when k steps have ended. *)
BillTo(k) == IF k = 0 THEN Bill0 ELSE IF k = 1 THEN Bill1 ELSE IF k = 2 THEN Bill2 ELSE Bill3

(* t is s and then more. *)
Extends(t, s, more) ==
  /\ Len(t) = Len(s) + Len(more)
  /\ \A i \in 1..Len(s) : t[i] = s[i]
  /\ \A j \in 1..Len(more) : t[Len(s) + j] = more[j]

LEMMA ConcatExtends ==
  ASSUME NEW S, NEW s \in Seq(S), NEW more \in Seq(S)
  PROVE  s \o more \in Seq(S) /\ Extends(s \o more, s, more)
<1>1. /\ s \o more \in Seq(S) /\ Len(s \o more) = Len(s) + Len(more)
      /\ \A i \in 1..Len(s) + Len(more) :
           (s \o more)[i] = IF i <= Len(s) THEN s[i] ELSE more[i - Len(s)]
  BY ConcatProperties
<1>2. Len(s) \in Nat /\ Len(more) \in Nat
  OBVIOUS
<1>3. \A i \in 1..Len(s) : (s \o more)[i] = s[i]
  BY <1>1, <1>2
<1>4. ASSUME NEW j \in 1..Len(more) PROVE (s \o more)[Len(s) + j] = more[j]
  <2>1. Len(s) + j \in 1..Len(s) + Len(more) /\ ~(Len(s) + j <= Len(s)) /\ (Len(s) + j) - Len(s) = j
    BY <1>2
  <2> QED
    BY <1>1, <2>1
<1> QED
  BY <1>1, <1>3, <1>4 DEF Extends

LEMMA BillParts ==
  ASSUME JobOK(case.job), answer = <<>> \/ answer \in Nat \X Nat
  PROVE  /\ \A k \in 1..3 : KnownWork(Script[k].work) \in Seq(Piece)
         /\ \A k \in 0..3 : BillTo(k) \in Seq(Piece)
         /\ \A k \in 1..3 : Extends(BillTo(k), BillTo(k - 1), KnownWork(Script[k].work))
         /\ Bill = BillTo(3) /\ Len(BillTo(0)) = 1 /\ BillTo(0)[1] = Metered("BASE_FEE", 1)
         /\ \A k \in 0..3 : /\ Len(BillTo(k)) \in 1..Len(Bill)
                            /\ \A i \in 1..Len(BillTo(k)) : Bill[i] = BillTo(k)[i]
<1> DEFINE w1 == KnownWork(Script[1].work)
           w2 == KnownWork(Script[2].work)
           w3 == KnownWork(Script[3].work)
<1>1. w1 \in Seq(Piece) /\ w2 \in Seq(Piece) /\ w3 \in Seq(Piece)
  <2>1. ASSUME NEW w, w \in Seq(Piece) \/ w = <<ModelCall>> PROVE KnownWork(w) \in Seq(Piece)
    <3>1. CASE w # <<ModelCall>>
      BY <2>1, <3>1 DEF KnownWork
    <3>2. CASE w = <<ModelCall>> /\ answer = <<>>
      <4>1. KnownWork(w) = <<>>
        BY <3>2 DEF KnownWork
      <4> QED
        BY <4>1
    <3>3. CASE w = <<ModelCall>> /\ answer # <<>>
      <4>1. answer[1] \in Nat /\ answer[2] \in Nat
        BY <3>3
      <4>2. <<Input(answer[1]), Output(answer[2])>> \in Seq(Piece)
        BY <4>1, PieceMembers
      <4> QED
        BY <3>3, <4>2 DEF KnownWork
    <3> QED
      BY <3>1, <3>2, <3>3
  <2> QED
    BY <2>1, ScriptShape DEF Script
<1>2. Bill0 \in Seq(Piece) /\ Len(Bill0) = 1 /\ Bill0[1] = Metered("BASE_FEE", 1)
  <2>1. Metered("BASE_FEE", 1) \in Piece
    BY PieceMembers DEF UsageType
  <2> QED
    BY <2>1 DEF Bill0
<1> HIDE DEF w1, w2, w3
<1>3. Bill1 \in Seq(Piece) /\ Extends(Bill1, Bill0, w1)
  BY <1>1, <1>2, ConcatExtends DEF Bill1, w1
<1>4. Bill2 \in Seq(Piece) /\ Extends(Bill2, Bill1, w2)
  BY <1>1, <1>3, ConcatExtends DEF Bill2, w2
<1>5. Bill3 \in Seq(Piece) /\ Extends(Bill3, Bill2, w3)
  BY <1>1, <1>4, ConcatExtends DEF Bill3, w3
<1>6. Bill = Bill3
  BY DEF Bill, Bill3, Bill2, Bill1, Bill0, Script
<1>7. /\ Len(Bill0) \in Nat /\ Len(w1) \in Nat /\ Len(w2) \in Nat /\ Len(w3) \in Nat
  BY <1>1, <1>2
<1>8. /\ Len(Bill0) <= Len(Bill1) /\ Len(Bill1) <= Len(Bill2) /\ Len(Bill2) <= Len(Bill3)
      /\ Len(Bill1) \in Nat /\ Len(Bill2) \in Nat /\ Len(Bill3) \in Nat
  BY <1>3, <1>4, <1>5, <1>7 DEF Extends
<1>9. /\ \A i \in 1..Len(Bill2) : Bill3[i] = Bill2[i]
      /\ \A i \in 1..Len(Bill1) : Bill3[i] = Bill1[i]
      /\ \A i \in 1..Len(Bill0) : Bill3[i] = Bill0[i]
  <2>1. \A i \in 1..Len(Bill2) : Bill3[i] = Bill2[i]
    BY <1>5 DEF Extends
  <2>2. \A i \in 1..Len(Bill1) : Bill3[i] = Bill1[i]
    BY <1>4, <1>8, <2>1 DEF Extends
  <2>3. \A i \in 1..Len(Bill0) : Bill3[i] = Bill0[i]
    BY <1>3, <1>8, <2>2 DEF Extends
  <2> QED
    BY <2>1, <2>2, <2>3
<1>10. BillTo(0) = Bill0 /\ BillTo(1) = Bill1 /\ BillTo(2) = Bill2 /\ BillTo(3) = Bill3
  BY DEF BillTo
<1>11. \A k \in 0..3 : k = 0 \/ k = 1 \/ k = 2 \/ k = 3
  OBVIOUS
<1>12. \A k \in 0..3 : BillTo(k) \in Seq(Piece)
  BY <1>2, <1>3, <1>4, <1>5, <1>10, <1>11
<1>13. \A k \in 1..3 : KnownWork(Script[k].work) \in Seq(Piece)
  BY <1>1, <1>11 DEF w1, w2, w3
<1>14. \A k \in 1..3 : Extends(BillTo(k), BillTo(k - 1), KnownWork(Script[k].work))
  <2> TAKE k \in 1..3
  <2>1. CASE k = 1
    BY <2>1, <1>3, <1>10 DEF w1
  <2>2. CASE k = 2
    BY <2>2, <1>4, <1>10 DEF w2
  <2>3. CASE k = 3
    BY <2>3, <1>5, <1>10 DEF w3
  <2> QED
    BY <2>1, <2>2, <2>3
<1>l. /\ Len(Bill0) \in 1..Len(Bill3) /\ Len(Bill1) \in 1..Len(Bill3)
      /\ Len(Bill2) \in 1..Len(Bill3) /\ Len(Bill3) \in 1..Len(Bill3)
  BY <1>2, <1>8
<1>15. \A k \in 0..3 : /\ Len(BillTo(k)) \in 1..Len(Bill)
                       /\ \A i \in 1..Len(BillTo(k)) : Bill[i] = BillTo(k)[i]
  <2> TAKE k \in 0..3
  <2>1. CASE k = 0
    BY <2>1, <1>6, <1>9, <1>10, <1>l
  <2>2. CASE k = 1
    BY <2>2, <1>6, <1>9, <1>10, <1>l
  <2>3. CASE k = 2
    BY <2>3, <1>6, <1>9, <1>10, <1>l
  <2>4. CASE k = 3
    BY <2>4, <1>6, <1>10, <1>l
  <2> QED
    BY <2>1, <2>2, <2>3, <2>4
<1> QED
  BY <1>2, <1>6, <1>10, <1>12, <1>13, <1>14, <1>15

(***************************************************************************)
(* Where a run is in its bill.                                             *)
(***************************************************************************)

(* Steps that have begun, and what the current one is still to meter. *)
Begun == 3 - Len(steps)
ToDo == IF work = <<ModelCall>> THEN <<>> ELSE work

(* In a step, what is billed and what is ahead are the bill of the steps   *)
(* so far; a model call is the last step's and unanswered.                 *)
InStep ==
  /\ Begun >= 1
  /\ Len(events) + Len(ToDo) = Len(BillTo(Begun))
  /\ \A j \in 1..Len(ToDo) : ToDo[j] = BillTo(Begun)[Len(events) + j]
  /\ work \in Seq(Piece) \/ work = <<ModelCall>>
  /\ work = <<ModelCall>> => Begun = 3 /\ Script[3].work = <<ModelCall>> /\ answer = <<>>

PlaceInv ==
  /\ Begun \in 0..3
  /\ \A i \in 1..Len(steps) : steps[i] = Script[Begun + i]
  /\ run = "baseFee" => events = <<>> /\ Begun = 0
  /\ run = "work" => Len(events) = Len(BillTo(Begun))
  /\ run = "step" => InStep
  /\ run = "setResult" => Begun = 3 /\ Len(events) = Len(Bill)
  /\ call = "asked" => work = <<ModelCall>>
  /\ answer # <<>> =>
       Begun = 3 /\ Script[3].work = <<ModelCall>> /\ Len(events) >= Len(BillTo(2))

BilledInv ==
  /\ Len(events) <= Len(Bill)
  /\ \A i \in 1..Len(events) : Usage(events[i]) = Bill[i]

BillInv == WorkInv /\ PlaceInv /\ BilledInv

LEMMA TypeFacts ==
  ASSUME TypeOK
  PROVE  /\ case \in Cases /\ JobOK(case.job)
         /\ answer = <<>> \/ answer \in Nat \X Nat
         /\ events \in Seq(Event) /\ Len(events) \in Nat /\ DOMAIN events = 1..Len(events)
         /\ steps \in Seq([id : StepId, work : Seq(Work)]) /\ Len(steps) \in Nat
         /\ work \in Seq(Work)
<1>1. case \in Cases /\ JobOK(case.job)
  BY CaseAssumption DEF TypeOK
<1>2. answer = <<>> \/ answer \in Nat \X Nat
  BY AnswerAssumption DEF TypeOK, DemoUsage
<1>3. events \in Seq(Event) /\ Len(events) \in Nat /\ DOMAIN events = 1..Len(events)
  BY DEF TypeOK, Event
<1> QED
  BY <1>1, <1>2, <1>3 DEF TypeOK

LEMMA BillFacts ==
  ASSUME TypeOK
  PROVE  /\ \A k \in 1..3 : KnownWork(Script[k].work) \in Seq(Piece)
         /\ \A k \in 0..3 : BillTo(k) \in Seq(Piece)
         /\ \A k \in 1..3 : Extends(BillTo(k), BillTo(k - 1), KnownWork(Script[k].work))
         /\ Bill = BillTo(3) /\ Len(BillTo(0)) = 1 /\ BillTo(0)[1] = Metered("BASE_FEE", 1)
         /\ \A k \in 0..3 : /\ Len(BillTo(k)) \in 1..Len(Bill)
                            /\ \A i \in 1..Len(BillTo(k)) : Bill[i] = BillTo(k)[i]
BY TypeFacts, BillParts

LEMMA BillStays ==
  ASSUME UNCHANGED <<case, answer>>
  PROVE  /\ Bill' = Bill /\ Script' = Script
         /\ \A k : BillTo(k)' = BillTo(k)
BY DEF Bill, Script, KnownWork, BillTo, Bill3, Bill2, Bill1, Bill0

(* Steps of a run that bill nothing and begin no step. *)
LEMMA PlaceStays ==
  ASSUME PlaceInv, BilledInv, UNCHANGED <<case, steps, work, events, answer>>,
         run' = run \/ run' \in {"caught", "limit"} \/ (run' = "setResult" /\ run = "work" /\ Begun = 3),
         call' = "asked" => work = <<ModelCall>>, TypeOK
  PROVE  PlaceInv' /\ BilledInv'
<1>1. Bill' = Bill /\ Script' = Script /\ \A k : BillTo(k)' = BillTo(k)
  BY BillStays
<1>2. Begun' = Begun /\ ToDo' = ToDo
  BY DEF Begun, ToDo
<1>3. InStep => InStep'
  BY <1>1, <1>2 DEF InStep
<1>4. Bill = BillTo(3)
  BY BillFacts
<1>5. BilledInv'
  BY <1>1 DEF BilledInv, Usage
<1>6. run' = "setResult" => Begun = 3 /\ Len(events) = Len(Bill)
  BY <1>4 DEF PlaceInv
<1>7. PlaceInv'
  BY <1>1, <1>2, <1>3, <1>6 DEF PlaceInv
<1> QED
  BY <1>5, <1>7

(* What is billed next is the next piece of the bill. *)
LEMMA BilledGrows ==
  ASSUME TypeOK, BilledInv, NEW e \in Event, events' = Append(events, e), UNCHANGED <<case, answer>>,
         Len(events) < Len(Bill), Usage(e) = Bill[Len(events) + 1]
  PROVE  BilledInv' /\ Len(events') = Len(events) + 1
<1>1. Bill' = Bill
  BY BillStays
<1>2. /\ Len(events') = Len(events) + 1 /\ Len(events) \in Nat
      /\ \A i \in 1..Len(events) : events'[i] = events[i]
      /\ events'[Len(events) + 1] = e
  BY TypeFacts, AppendedEvent
<1>3. ASSUME NEW i \in 1..Len(events') PROVE Usage(events'[i]) = Bill[i]
  <2>1. CASE i = Len(events) + 1
    BY <1>2, <2>1
  <2>2. CASE i \in 1..Len(events)
    BY <1>2, <2>2 DEF BilledInv
  <2> QED
    BY <1>2, <2>1, <2>2
<1>4. Len(Bill) \in Nat
  BY BillFacts
<1> QED
  BY <1>1, <1>2, <1>3, <1>4 DEF BilledInv, Usage

LEMMA PlaceInit == Init => PlaceInv /\ BilledInv
<1> SUFFICES ASSUME Init PROVE PlaceInv /\ BilledInv
  OBVIOUS
<1>1. WorkInv /\ TypeOK
  BY WorkInit DEF WorkInv
<1>2. steps = Script /\ Len(Script) = 3
  BY <1>1, TypeFacts, ScriptShape DEF Init, Script
<1>3. Begun = 0
  BY <1>2 DEF Begun
<1>4. \A i \in 1..Len(steps) : steps[i] = Script[Begun + i]
  BY <1>2, <1>3
<1>5. /\ run = "baseFee" /\ events = <<>> /\ call = "none" /\ answer = <<>> /\ Len(events) = 0
  BY DEF Init
<1>6. Len(Bill) \in Nat
  BY <1>1, BillFacts
<1> QED
  BY <1>3, <1>4, <1>5, <1>6 DEF PlaceInv, BilledInv

(***************************************************************************)
(* The steps.                                                              *)
(***************************************************************************)

(* A record call under a new key bills its usage or ends the run. *)
LEMMA RecordOutcome ==
  ASSUME NEW key \in Key, NEW usage, NEW next \in Trying, ~Known(key),
         usage.type \in UsageType, usage.quantity \in Nat, Record(key, usage, next)
  PROVE  LET e == [key |-> key, type |-> usage.type, quantity |-> usage.quantity]
         IN  \/ run' = next /\ FitsCap(usage) /\ e \in Event /\ events' = Append(events, e)
             \/ run' = "limit" /\ ~FitsCap(usage) /\ UNCHANGED events
             \/ run' = "caught" /\ UNCHANGED events
<1> DEFINE e == [key |-> key, type |-> usage.type, quantity |-> usage.quantity]
<1>1. CASE Accepted(key, usage) /\ events' = EventsAfter(key, usage) /\ run' = next
  <2>1. Priceable(usage) /\ FitsCap(usage) /\ events' = Append(events, e)
    BY <1>1 DEF Accepted, EventsAfter
  <2>2. e \in Event
    BY <2>1 DEF Priceable, Event
  <2> QED
    BY <1>1, <2>1, <2>2
<1>2. CASE Capped(key, usage) /\ run' = "limit" /\ UNCHANGED events
  BY <1>2 DEF Capped
<1>3. CASE run' = "caught" /\ UNCHANGED events
  BY <1>3
<1> QED
  BY <1>1, <1>2, <1>3 DEF Record, AtCap

LEMMA BaseFeeStep ==
  ASSUME BillInv, RecordBaseFee
  PROVE  PlaceInv' /\ BilledInv'
<1>1. /\ TypeOK /\ PlaceInv /\ BilledInv /\ run = "baseFee" /\ events = <<>> /\ Begun = 0
      /\ Record(<<"base-fee">>, Metered("BASE_FEE", 1), "work")
      /\ UNCHANGED <<case, work, steps, call, answer>>
  BY DEF BillInv, WorkInv, PlaceInv, RecordBaseFee, control
<1>2. <<"base-fee">> \in Key /\ ~Known(<<"base-fee">>)
  BY <1>1 DEF Key, Known
<1> DEFINE fee == Metered("BASE_FEE", 1)
           e == [key |-> <<"base-fee">>, type |-> fee.type, quantity |-> fee.quantity]
<1>3. fee.type \in UsageType /\ fee.quantity \in Nat /\ Usage(e) = fee
  BY DEF Metered, UsageType, Usage
<1>4. "work" \in Trying
  BY DEF Trying
<1>f. Record(<<"base-fee">>, fee, "work")
  BY <1>1
<1> HIDE DEF fee
<1>5. \/ run' = "work" /\ e \in Event /\ events' = Append(events, e)
      \/ run' \in {"limit", "caught"} /\ events' = events
  BY <1>2, <1>3, <1>4, <1>f, RecordOutcome
<1>6. CASE run' = "work" /\ e \in Event /\ events' = Append(events, e)
  <2>1. Len(events) = 0
    BY <1>1
  <2>2. /\ Len(BillTo(0)) = 1 /\ BillTo(0)[1] = Metered("BASE_FEE", 1)
        /\ Len(BillTo(0)) \in 1..Len(Bill) /\ Bill[1] = BillTo(0)[1]
    BY <1>1, BillFacts
  <2>3. Len(events) < Len(Bill) /\ Usage(e) = Bill[Len(events) + 1]
    BY <2>1, <2>2, <1>3 DEF fee
  <2> HIDE DEF e
  <2>4. BilledInv' /\ Len(events') = 1
    BY <1>1, <1>6, <2>1, <2>3, BilledGrows
  <2>5. \A k : BillTo(k)' = BillTo(k)
    BY <1>1, BillStays
  <2>6. Begun' = 0 /\ Script' = Script
    BY <1>1, BillStays DEF Begun
  <2>7. PlaceInv'
    BY <1>1, <1>6, <2>2, <2>4, <2>5, <2>6 DEF PlaceInv
  <2> QED
    BY <2>4, <2>7
<1>7. CASE run' \in {"limit", "caught"} /\ events' = events
  BY <1>1, <1>7, PlaceStays DEF PlaceInv
<1> QED
  BY <1>5, <1>6, <1>7

LEMMA BeginStepPlace ==
  ASSUME BillInv, BeginStep
  PROVE  PlaceInv' /\ BilledInv'
<1>1. /\ TypeOK /\ PlaceInv /\ BilledInv /\ run = "work" /\ run' = "step" /\ steps # <<>>
      /\ work' = Head(steps).work /\ steps' = Tail(steps)
      /\ UNCHANGED <<case, events, call, answer>>
  BY DEF BillInv, WorkInv, BeginStep
<1>2. JobOK(case.job) /\ steps \in Seq([id : StepId, work : Seq(Work)])
  BY <1>1, TypeFacts
<1>3. /\ Len(steps) \in Nat /\ Len(steps) >= 1 /\ Len(steps') = Len(steps) - 1
      /\ Head(steps) = steps[1] /\ \A i \in 1..Len(steps') : steps'[i] = steps[i + 1]
  BY <1>1, <1>2
<1>4. Begun \in 0..2 /\ Begun' = Begun + 1 /\ Begun + 1 \in 1..3
  <2>1. Begun \in 0..3
    BY <1>1 DEF PlaceInv
  <2>2. Begun = 3 - Len(steps) /\ Begun' = 3 - Len(steps')
    BY DEF Begun
  <2> QED
    BY <1>3, <2>1, <2>2
<1> DEFINE k == Begun + 1
           w == Script[k].work
<1>5. work' = w
  BY <1>1, <1>3 DEF PlaceInv
<1>6. Bill' = Bill /\ Script' = Script /\ \A j : BillTo(j)' = BillTo(j)
  BY <1>1, BillStays
<1>7. answer = <<>>
  BY <1>1, <1>4 DEF PlaceInv
<1>8. w \in Seq(Piece) \/ (w = <<ModelCall>> /\ k = 3)
  <2>1. k = 1 \/ k = 2 \/ k = 3
    BY <1>4
  <2> QED
    BY <1>2, <2>1, ScriptShape DEF Script
<1>9. KnownWork(w) = ToDo'
  BY <1>5, <1>7 DEF KnownWork, ToDo
<1>10. Extends(BillTo(k), BillTo(Begun), ToDo')
  <2>1. Extends(BillTo(k), BillTo(k - 1), KnownWork(w)) /\ k - 1 = Begun
    BY <1>1, <1>4, BillFacts
  <2> QED
    BY <1>9, <2>1
<1>11. Len(events) = Len(BillTo(Begun))
  BY <1>1 DEF PlaceInv
<1>12. \A i \in 1..Len(steps') : steps'[i] = Script'[Begun' + i]
  <2> TAKE i \in 1..Len(steps')
  <2>1. i + 1 \in 1..Len(steps) /\ Begun' + i = Begun + (i + 1)
    BY <1>3, <1>4
  <2>2. steps[i + 1] = Script[Begun + (i + 1)]
    BY <1>1, <2>1 DEF PlaceInv
  <2> QED
    BY <1>3, <1>6, <2>1, <2>2
<1>13. InStep'
  <2>1. Begun' = k /\ BillTo(Begun)' = BillTo(k) /\ k >= 1 /\ events' = events
    BY <1>1, <1>4, <1>6
  <2>2. Len(events) + Len(ToDo') = Len(BillTo(k))
    BY <1>10, <1>11 DEF Extends
  <2>3. \A j \in 1..Len(ToDo') : ToDo'[j] = BillTo(k)[Len(events) + j]
    BY <1>10, <1>11 DEF Extends
  <2>4. work' \in Seq(Piece) \/ work' = <<ModelCall>>
    BY <1>5, <1>8
  <2>5. work' = <<ModelCall>> => k = 3 /\ Script[3].work = <<ModelCall>>
    <3>1. ASSUME w = <<ModelCall>>, w \in Seq(Piece) PROVE FALSE
      BY <3>1, NotTheCall
    <3> QED
      BY <1>5, <1>8, <3>1
  <2> QED
    BY <1>1, <1>6, <1>7, <2>1, <2>2, <2>3, <2>4, <2>5 DEF InStep
<1>14. BilledInv'
  BY <1>1, <1>6 DEF BilledInv, Usage
<1>15. call' # "asked"
  BY <1>1 DEF BillInv, WorkInv, AskedInv
<1>16. PlaceInv'
  BY <1>1, <1>4, <1>7, <1>12, <1>13, <1>15 DEF PlaceInv
<1> QED
  BY <1>14, <1>16

(* The usage at hand is the next piece of the bill. *)
LEMMA NextPiece ==
  ASSUME BillInv, NextUsage
  PROVE  /\ work \in Seq(Piece) /\ ToDo = work /\ Head(work) = work[1] /\ Head(work) \in Piece
         /\ Begun \in 1..3 /\ Len(work) >= 1
         /\ Len(events) < Len(Bill) /\ Head(work) = Bill[Len(events) + 1]
<1>1. TypeOK /\ PlaceInv /\ InStep /\ work # <<>> /\ Head(work) # ModelCall
  BY DEF BillInv, WorkInv, PlaceInv, NextUsage
<1>2. work # <<ModelCall>>
  BY <1>1
<1>3. work \in Seq(Piece) /\ ToDo = work
  BY <1>1, <1>2 DEF InStep, ToDo
<1>4. /\ Head(work) = work[1] /\ Head(work) \in Piece /\ Len(work) \in Nat /\ Len(work) >= 1
      /\ 1 \in 1..Len(work)
  BY <1>1, <1>3
<1>5. Begun \in 1..3 /\ Begun \in 0..3
  BY <1>1 DEF InStep, PlaceInv
<1>6. Len(events) \in Nat /\ Len(Bill) \in Nat /\ Len(BillTo(Begun)) \in 1..Len(Bill)
  BY <1>1, <1>5, TypeFacts, BillFacts
<1>7. Len(events) + Len(work) = Len(BillTo(Begun)) /\ work[1] = BillTo(Begun)[Len(events) + 1]
  BY <1>1, <1>3, <1>4 DEF InStep
<1>8. Len(events) + 1 \in 1..Len(BillTo(Begun))
  BY <1>4, <1>6, <1>7
<1>9. Bill[Len(events) + 1] = BillTo(Begun)[Len(events) + 1]
  BY <1>1, <1>5, <1>8, BillFacts
<1> QED
  BY <1>3, <1>4, <1>5, <1>6, <1>7, <1>8, <1>9

LEMMA MeterOutcome ==
  ASSUME BillInv, Meter
  PROVE  LET e == [key |-> <<activeStep, sequence>>, type |-> Head(work).type,
                   quantity |-> Head(work).quantity]
         IN  \/ /\ run' = "step" /\ FitsCap(Head(work)) /\ e \in Event
                /\ events' = Append(events, e) /\ Usage(e) = Head(work)
             \/ run' = "limit" /\ ~FitsCap(Head(work)) /\ UNCHANGED events
             \/ run' = "caught" /\ UNCHANGED events
<1> DEFINE usage == Head(work)
           e == [key |-> <<activeStep, sequence>>, type |-> usage.type, quantity |-> usage.quantity]
<1>1. NextUsage /\ run = "step" /\ WorkInv /\ Record(<<activeStep, sequence>>, usage, "step")
  BY DEF Meter, NextUsage, BillInv
<1>2. <<activeStep, sequence>> \in Key /\ ~Known(<<activeStep, sequence>>)
  BY <1>1, MeterKey
<1>3. usage \in Piece
  BY <1>1, NextPiece
<1>4. usage.type \in UsageType /\ usage.quantity \in Nat /\ Usage(e) = usage
  BY <1>3 DEF Piece, Usage, Metered
<1>5. "step" \in Trying
  BY DEF Trying
<1> HIDE DEF usage
<1>6. \/ run' = "step" /\ FitsCap(usage) /\ e \in Event /\ events' = Append(events, e)
      \/ run' = "limit" /\ ~FitsCap(usage) /\ UNCHANGED events
      \/ run' = "caught" /\ UNCHANGED events
  BY <1>1, <1>2, <1>4, <1>5, RecordOutcome
<1> QED
  BY <1>4, <1>6 DEF usage

LEMMA MeterPlace ==
  ASSUME BillInv, Meter
  PROVE  PlaceInv' /\ BilledInv'
<1>1. /\ TypeOK /\ PlaceInv /\ BilledInv /\ InStep /\ NextUsage /\ run = "step" /\ call = "none"
      /\ work' = Tail(work)
      /\ UNCHANGED <<case, steps, call, answer>>
  BY DEF BillInv, WorkInv, PlaceInv, Meter, NextUsage, control
<1> DEFINE e == [key |-> <<activeStep, sequence>>, type |-> Head(work).type,
                 quantity |-> Head(work).quantity]
<1>2. \/ run' = "step" /\ e \in Event /\ events' = Append(events, e) /\ Usage(e) = Head(work)
      \/ run' \in {"limit", "caught"} /\ events' = events
  BY MeterOutcome
<1> HIDE DEF e
<1>3. /\ work \in Seq(Piece) /\ ToDo = work /\ Len(work) \in Nat /\ Len(work) >= 1
      /\ Len(events) < Len(Bill) /\ Head(work) = Bill[Len(events) + 1] /\ Begun \in 1..3
  BY <1>1, NextPiece
<1>4. /\ work' \in Seq(Piece) /\ Len(work') = Len(work) - 1
      /\ \A j \in 1..Len(work') : work'[j] = work[j + 1]
  BY <1>1, <1>3
<1>5. work' # <<ModelCall>>
  BY <1>4, NotTheCall
<1>6. ToDo' = work'
  BY <1>5 DEF ToDo
<1>7. Begun' = Begun
  BY <1>1 DEF Begun
<1>8. Bill' = Bill /\ Script' = Script /\ \A k : BillTo(k)' = BillTo(k)
  BY <1>1, BillStays
<1>9. CASE run' = "step" /\ e \in Event /\ events' = Append(events, e) /\ Usage(e) = Head(work)
  <2>1. BilledInv' /\ Len(events') = Len(events) + 1
    BY <1>1, <1>3, <1>9, BilledGrows
  <2>2. Len(events) \in Nat
    BY <1>1, TypeFacts
  <2>3. Len(events') + Len(ToDo') = Len(BillTo(Begun))
    BY <1>1, <1>3, <1>4, <1>6, <2>1, <2>2 DEF InStep
  <2>4. ASSUME NEW j \in 1..Len(ToDo') PROVE ToDo'[j] = BillTo(Begun)[Len(events') + j]
    <3>1. j + 1 \in 1..Len(work) /\ Len(events') + j = Len(events) + (j + 1)
      BY <1>3, <1>4, <1>6, <2>1, <2>2
    <3>2. work[j + 1] = BillTo(Begun)[Len(events) + (j + 1)]
      BY <1>1, <1>3, <3>1 DEF InStep
    <3> QED
      BY <1>4, <1>6, <3>1, <3>2
  <2>5. InStep'
    BY <1>3, <1>4, <1>5, <1>7, <1>8, <2>3, <2>4 DEF InStep
  <2>6. answer' # <<>> => Len(events') >= Len(BillTo(2))
    <3>1. Len(BillTo(2)) \in Nat
      BY <1>1, BillFacts
    <3> QED
      BY <1>1, <2>1, <2>2, <3>1 DEF PlaceInv
  <2>7. PlaceInv'
    BY <1>1, <1>7, <1>8, <1>9, <2>5, <2>6 DEF PlaceInv
  <2> QED
    BY <2>1, <2>7
<1>10. CASE run' \in {"limit", "caught"} /\ events' = events
  <2>1. BilledInv'
    BY <1>1, <1>8, <1>10 DEF BilledInv, Usage
  <2>2. PlaceInv'
    BY <1>1, <1>7, <1>8, <1>10 DEF PlaceInv
  <2> QED
    BY <2>1, <2>2
<1> QED
  BY <1>2, <1>9, <1>10

LEMMA EndStepPlace ==
  ASSUME BillInv, EndStep
  PROVE  PlaceInv' /\ BilledInv'
<1>1. /\ TypeOK /\ PlaceInv /\ BilledInv /\ InStep /\ run = "step" /\ run' = "work"
      /\ call = "none" /\ work = <<>>
      /\ UNCHANGED <<case, steps, work, events, call, answer>>
  BY DEF BillInv, WorkInv, PlaceInv, EndStep, StepDone
<1>2. Bill' = Bill /\ Script' = Script /\ \A k : BillTo(k)' = BillTo(k)
  BY <1>1, BillStays
<1>3. Begun' = Begun
  BY <1>1 DEF Begun
<1>4. Len(events) = Len(BillTo(Begun))
  <2>1. Len(ToDo) = 0
    BY <1>1 DEF ToDo
  <2>2. Len(events) \in Nat
    BY <1>1, TypeFacts
  <2> QED
    BY <1>1, <2>1, <2>2 DEF InStep
<1>5. BilledInv'
  BY <1>1, <1>2 DEF BilledInv, Usage
<1>6. PlaceInv'
  BY <1>1, <1>2, <1>3, <1>4 DEF PlaceInv
<1> QED
  BY <1>5, <1>6

LEMMA AskModelPlace ==
  ASSUME BillInv, AskModel
  PROVE  PlaceInv' /\ BilledInv'
<1>1. /\ TypeOK /\ PlaceInv /\ BilledInv /\ InStep /\ run = "step" /\ work # <<>>
      /\ Head(work) = ModelCall
      /\ UNCHANGED <<case, run, steps, work, events, answer>>
  BY DEF BillInv, WorkInv, PlaceInv, AskModel
<1>2. work = <<ModelCall>>
  <2>1. ASSUME work \in Seq(Piece) PROVE FALSE
    <3>1. Head(work) \in Piece
      BY <1>1, <2>1
    <3> QED
      BY <1>1, <3>1, PieceMembers
  <2> QED
    BY <1>1, <2>1 DEF InStep
<1> QED
  BY <1>1, <1>2, PlaceStays

LEMMA PairIsNotEmpty ==
  ASSUME NEW t \in Nat \X Nat
  PROVE  t # <<>>
<1> SUFFICES ASSUME t = <<>> PROVE FALSE
  OBVIOUS
<1>1. t = <<t[1], t[2]>>
  OBVIOUS
<1>2. DOMAIN t = 1..2
  BY <1>1
<1>3. DOMAIN <<>> = {}
  OBVIOUS
<1> QED
  BY <1>2, <1>3

LEMMA AnswerPlace ==
  ASSUME BillInv, ModelAnswers
  PROVE  PlaceInv' /\ BilledInv'
<1>1. /\ TypeOK /\ PlaceInv /\ BilledInv /\ run = "step" /\ call = "asked" /\ call' = "none"
      /\ UNCHANGED <<case, run, steps, events>>
  BY DEF BillInv, WorkInv, AskedInv, ModelAnswers
<1>2. /\ InStep /\ work = <<ModelCall>> /\ Begun = 3 /\ Script[3].work = <<ModelCall>>
      /\ answer = <<>>
  BY <1>1 DEF PlaceInv, InStep
<1>3. PICK tokens \in Reports :
        answer' = tokens /\ work' = <<Input(tokens[1]), Output(tokens[2])>> \o Tail(work)
  BY DEF ModelAnswers
<1>4. tokens \in Nat \X Nat /\ tokens[1] \in Nat /\ tokens[2] \in Nat
  <2>1. tokens \in Nat \X Nat
    BY AnswerAssumption DEF Reports, DemoUsage
  <2> QED
    BY <2>1
<1> DEFINE said == <<Input(tokens[1]), Output(tokens[2])>>
<1>5. said \in Seq(Piece) /\ Len(said) = 2
  BY <1>4, PieceMembers
<1>6. work' = said
  <2>1. Tail(work) = <<>>
    BY <1>2
  <2> QED
    BY <1>3, <1>5, <2>1, ConcatEmptySeq
<1>7. answer' # <<>>
  BY <1>3, <1>4, PairIsNotEmpty
<1> HIDE DEF said
<1>8. ToDo' = said /\ said # <<ModelCall>>
  <2>1. said # <<ModelCall>>
    BY <1>5
  <2> QED
    BY <1>6, <2>1 DEF ToDo
<1>9. TypeOK'
  BY WorkStep DEF BillInv, WorkInv, Next, Model
<1>10. Script' = Script /\ Begun' = Begun
  BY <1>1 DEF Script, Begun
<1>11. \A k \in 0..2 : BillTo(k)' = BillTo(k)
  <2>1. JobOK(case.job)
    BY <1>1, TypeFacts
  <2>2. Script[1].work # <<ModelCall>> /\ Script[2].work # <<ModelCall>>
    <3>1. \A w \in Seq(Piece) : w # <<ModelCall>>
      BY NotTheCall
    <3> QED
      BY <2>1, <3>1, ScriptShape DEF Script
  <2>3. /\ KnownWork(Script[1].work)' = KnownWork(Script[1].work)
        /\ KnownWork(Script[2].work)' = KnownWork(Script[2].work)
    BY <1>10, <2>2 DEF KnownWork
  <2>4. Bill0' = Bill0 /\ Bill1' = Bill1 /\ Bill2' = Bill2
    BY <2>3 DEF Bill0, Bill1, Bill2
  <2> QED
    BY <2>4 DEF BillTo
<1>12. Len(events) = Len(BillTo(2))
  <2>1. KnownWork(Script[3].work) = <<>> /\ Len(<<>>) = 0
    BY <1>2 DEF KnownWork
  <2>2. Extends(BillTo(3), BillTo(3 - 1), KnownWork(Script[3].work)) /\ 3 - 1 = 2
    BY <1>1, BillFacts
  <2>3. Len(ToDo) = 0 /\ Len(events) \in Nat /\ Len(BillTo(2)) \in Nat
    BY <1>1, <1>2, TypeFacts, BillFacts DEF ToDo
  <2>4. Len(events) + 0 = Len(BillTo(3)) /\ Len(BillTo(3)) = Len(BillTo(2)) + 0
    BY <1>2, <2>1, <2>2, <2>3 DEF InStep, Extends
  <2> QED
    BY <2>3, <2>4
<1>13. Extends(BillTo(3)', BillTo(2), said)
  <2>1. KnownWork(Script[3].work)' = said
    BY <1>2, <1>3, <1>7, <1>10 DEF KnownWork, said
  <2>2. BillTo(3)' = BillTo(2)' \o KnownWork(Script[3].work)'
    BY DEF BillTo, Bill3
  <2>3. BillTo(2)' = BillTo(2) /\ BillTo(2) \in Seq(Piece)
    BY <1>1, <1>11, BillFacts
  <2> QED
    BY <1>5, <2>1, <2>2, <2>3, ConcatExtends
<1>14. Bill' = BillTo(3)'
  BY DEF Bill, BillTo, Bill3, Bill2, Bill1, Bill0, Script
<1>15. InStep'
  <2>1. Len(events) + Len(said) = Len(BillTo(3)')
    BY <1>12, <1>13 DEF Extends
  <2>2. \A j \in 1..Len(said) : said[j] = BillTo(3)'[Len(events) + j]
    BY <1>12, <1>13 DEF Extends
  <2> QED
    BY <1>1, <1>2, <1>5, <1>6, <1>8, <1>10, <2>1, <2>2 DEF InStep
<1>16. BilledInv'
  <2>1. /\ Len(events) \in Nat /\ Len(said) \in Nat
    BY <1>1, <1>5, TypeFacts
  <2>2. Len(events) <= Len(Bill')
    BY <1>12, <1>13, <1>14, <2>1 DEF Extends
  <2>3. ASSUME NEW i \in 1..Len(events) PROVE Usage(events[i]) = Bill'[i]
    <3>1. Usage(events[i]) = Bill[i]
      BY <1>1 DEF BilledInv
    <3>2. Bill[i] = BillTo(2)[i]
      BY <1>1, <1>12, BillFacts
    <3>3. BillTo(3)'[i] = BillTo(2)[i]
      BY <1>12, <1>13 DEF Extends
    <3> QED
      BY <1>14, <3>1, <3>2, <3>3
  <2> QED
    BY <1>1, <2>2, <2>3 DEF BilledInv, Usage
<1>17. PlaceInv'
  <2>1. Len(events') >= Len(BillTo(2)')
    <3>1. Len(events) \in Nat /\ BillTo(2)' = BillTo(2)
      BY <1>1, <1>11, TypeFacts
    <3> QED
      BY <1>1, <1>12, <3>1
  <2> QED
    BY <1>1, <1>2, <1>10, <1>15, <2>1 DEF PlaceInv
<1> QED
  BY <1>16, <1>17

LEMMA BillStep == BillInv /\ [Next]_vars => BillInv'
<1> SUFFICES ASSUME BillInv, [Next]_vars PROVE PlaceInv' /\ BilledInv'
  BY WorkStep DEF BillInv
<1>1. CASE ServiceReturns
  <2>1. Begun = 3
    BY <1>1 DEF ServiceReturns, Begun
  <2> QED
    BY <1>1, <2>1, PlaceStays DEF ServiceReturns, control, BillInv, WorkInv, PlaceInv
<1>2. CASE Cancel \/ WriteFails \/ ModelFails \/ TimesOut \/ LateAnswer \/ UNCHANGED vars
  BY <1>2, PlaceStays
     DEF Cancel, WriteFails, ModelFails, TimesOut, LateAnswer, vars, control, BillInv, WorkInv,
         PlaceInv
<1> QED
  BY <1>1, <1>2, BaseFeeStep, BeginStepPlace, MeterPlace, EndStepPlace, AskModelPlace, AnswerPlace
     DEF Next, Execute, Model

LEMMA BillInvariant == Spec => []BillInv
<1>1. Init => BillInv
  BY WorkInit, PlaceInit DEF BillInv
<1> QED
  BY <1>1, BillStep, PTL DEF Spec

(***************************************************************************)
(* The plan.                                                               *)
(***************************************************************************)

(* The completed steps are the plan's, in its order, and the current step  *)
(* is the next of them.                                                    *)
CompletedInv ==
  /\ Len(completed) \in 0..3
  /\ \A i \in 1..Len(completed) : completed[i] = Plan(service)[i]
  /\ run \in {"baseFee", "work", "setResult"} => Len(completed) = Begun
  /\ run = "step" => /\ Begun >= 1 /\ Len(completed) = Begun - 1
                     /\ activeStep = Plan(service)[Begun]

(* Steps of a run that neither begin nor end a step. *)
LEMMA CompletedStays ==
  ASSUME CompletedInv, UNCHANGED <<case, steps, activeStep, completed>>,
         \/ run' = run \/ run' \in {"caught", "limit"}
         \/ run \in {"baseFee", "work"} /\ run' \in {"work", "setResult"}
  PROVE  CompletedInv'
<1>1. Begun' = Begun /\ Plan(service)' = Plan(service)
  BY DEF Begun, service
<1> QED
  BY <1>1 DEF CompletedInv

LEMMA CompletedInit == Init => CompletedInv
<1> SUFFICES ASSUME Init PROVE CompletedInv
  OBVIOUS
<1>1. Begun \in 0..3 /\ Begun = 0
  <2>1. TypeOK
    BY WorkInit DEF WorkInv
  <2>2. Len(steps) = 3
    BY <2>1, TypeFacts, ScriptShape DEF Init
  <2> QED
    BY <2>2 DEF Begun
<1>2. completed = <<>> /\ Len(completed) = 0 /\ run = "baseFee"
  BY DEF Init
<1> QED
  BY <1>1, <1>2 DEF CompletedInv

LEMMA CompletedStep == BillInv /\ CompletedInv /\ [Next]_vars => CompletedInv'
<1> SUFFICES ASSUME BillInv, CompletedInv, [Next]_vars PROVE CompletedInv'
  OBVIOUS
<1>1. /\ TypeOK /\ PlaceInv /\ JobOK(case.job) /\ Begun \in 0..3
      /\ completed \in Seq(StepId) /\ Len(completed) \in 0..3
      /\ steps \in Seq([id : StepId, work : Seq(Work)])
  BY TypeFacts DEF BillInv, WorkInv, PlaceInv, TypeOK, CompletedInv
<1>2. CASE BeginStep
  <2>1. /\ run = "work" /\ run' = "step" /\ steps # <<>> /\ activeStep' = Head(steps).id
        /\ steps' = Tail(steps) /\ UNCHANGED <<case, completed>>
    BY <1>2 DEF BeginStep
  <2>2. /\ Len(steps) \in Nat /\ Len(steps) >= 1 /\ Len(steps') = Len(steps) - 1
        /\ Head(steps) = steps[1]
    BY <1>1, <2>1
  <2>3. Begun' = Begun + 1 /\ Begun + 1 \in 1..3
    <3>1. Begun = 3 - Len(steps) /\ Begun' = 3 - Len(steps')
      BY DEF Begun
    <3>2. Begun \in 0..3
      BY <1>1
    <3> QED
      BY <2>2, <3>1, <3>2
  <2>4. activeStep' = Plan(service)[Begun + 1]
    <3>1. steps[1] = Script[Begun + 1]
      BY <1>1, <2>2 DEF PlaceInv
    <3>2. Script[Begun + 1].id = Plan(service)[Begun + 1]
      BY <1>1, <2>3, ScriptShape DEF Script, service
    <3> QED
      BY <2>1, <2>2, <3>1, <3>2
  <2>5. Plan(service)' = Plan(service)
    BY <2>1 DEF service
  <2>6. Len(completed) = Begun /\ Begun' >= 1 /\ Len(completed') = Begun' - 1
    BY <1>1, <2>1, <2>3 DEF CompletedInv
  <2>7. activeStep' = Plan(service)'[Begun']
    BY <2>3, <2>4, <2>5
  <2> QED
    BY <1>1, <2>1, <2>5, <2>6, <2>7 DEF CompletedInv
<1>3. CASE EndStep
  <2>1. /\ run = "step" /\ run' = "work" /\ completed' = Append(completed, activeStep)
        /\ UNCHANGED <<case, steps>>
    BY <1>3 DEF EndStep, StepDone
  <2>2. activeStep = Plan(service)[Begun] /\ Len(completed) = Begun - 1 /\ activeStep \in StepId
    BY <2>1 DEF CompletedInv, BillInv, WorkInv, KeysInv
  <2>3. /\ Len(completed') = Len(completed) + 1 /\ completed'[Len(completed) + 1] = activeStep
        /\ \A i \in 1..Len(completed) : completed'[i] = completed[i]
    BY <1>1, <2>1, <2>2
  <2>4. Begun' = Begun /\ Plan(service)' = Plan(service)
    BY <2>1 DEF Begun, service
  <2>5. Len(completed') = Begun
    BY <1>1, <2>2, <2>3
  <2>6. ASSUME NEW i \in 1..Len(completed') PROVE completed'[i] = Plan(service)[i]
    <3>1. CASE i = Begun
      BY <3>1, <2>2, <2>3, <2>5
    <3>2. CASE i \in 1..Len(completed)
      BY <3>2, <2>3 DEF CompletedInv
    <3> QED
      BY <1>1, <2>2, <2>5, <3>1, <3>2
  <2> QED
    BY <1>1, <2>1, <2>4, <2>5, <2>6 DEF CompletedInv
<1>4. CASE Meter
  <2>1. \/ run' = "step" \/ run' \in {"limit", "caught"}
    BY <1>4, MeterOutcome
  <2>2. run = "step" /\ UNCHANGED <<case, steps, activeStep, completed>>
    BY <1>4 DEF Meter, NextUsage, control
  <2> QED
    BY <2>1, <2>2, CompletedStays
<1>5. CASE RecordBaseFee
  <2>1. run' \in {"work", "limit", "caught"}
    BY <1>5 DEF RecordBaseFee, Record, AtCap
  <2>2. run = "baseFee" /\ UNCHANGED <<case, steps, activeStep, completed>>
    BY <1>5 DEF RecordBaseFee, control
  <2> QED
    BY <2>1, <2>2, CompletedStays
<1>6. CASE ServiceReturns \/ Cancel \/ WriteFails \/ LateAnswer \/ Model \/ UNCHANGED vars
  BY <1>6, CompletedStays
     DEF ServiceReturns, Cancel, WriteFails, LateAnswer, Model, AskModel, ModelAnswers, ModelFails,
         TimesOut, control, vars
<1> QED
  BY <1>2, <1>3, <1>4, <1>5, <1>6 DEF Next, Execute

LEMMA CompletedInvariant == Spec => [](BillInv /\ CompletedInv)
<1>1. Init => CompletedInv
  BY CompletedInit
<1> QED
  BY <1>1, CompletedStep, BillInvariant, PTL DEF Spec

(* What is billed, as a sequence of pieces. *)
LEMMA BilledShape ==
  ASSUME BillInv
  PROVE  /\ Billed \in Seq(Piece) /\ Len(Billed) = Len(events) /\ Bill \in Seq(Piece)
         /\ \A i \in 1..Len(Billed) : Billed[i] = Bill[i]
         /\ Len(events) \in Nat /\ Len(Bill) \in Nat /\ Len(events) <= Len(Bill)
         /\ Len(events) = Len(Bill) => Billed = Bill
<1>1. TypeOK /\ BilledInv
  BY DEF BillInv, WorkInv
<1>2. Bill \in Seq(Piece)
  BY <1>1, BillFacts
<1>3. /\ Len(events) \in Nat /\ Len(Bill) \in Nat /\ Len(events) <= Len(Bill)
      /\ DOMAIN events = 1..Len(events)
  BY <1>1, <1>2, TypeFacts DEF BilledInv
<1>4. Billed = [i \in 1..Len(events) |-> Bill[i]]
  BY <1>1, <1>3 DEF Billed, BilledInv
<1>5. \A i \in 1..Len(events) : Bill[i] \in Piece
  <2>1. \A i \in 1..Len(Bill) : Bill[i] \in Piece
    BY <1>2, ElementOfSeq
  <2> QED
    BY <1>3, <2>1
<1>6. Billed \in Seq(Piece) /\ Len(Billed) = Len(events)
  BY <1>3, <1>4, <1>5, IsASeq
<1>7. ASSUME Len(events) = Len(Bill) PROVE Billed = Bill
  BY <1>2, <1>4, <1>6, <1>7, SeqEqual
<1> QED
  BY <1>2, <1>3, <1>4, <1>6, <1>7

LEMMA PrefixOf ==
  ASSUME NEW S, NEW s \in Seq(S), NEW t \in Seq(S), Len(s) <= Len(t),
         \A i \in 1..Len(s) : s[i] = t[i]
  PROVE  IsPrefix(s, t)
<1> DEFINE n == Len(s)
<1>1. n \in Nat /\ Len(t) \in Nat
  OBVIOUS
<1>2. SubSeq(s, 1, n) \in Seq(S) /\ Len(SubSeq(s, 1, n)) = n
  BY <1>1
<1>3. SubSeq(t, 1, n) \in Seq(S) /\ Len(SubSeq(t, 1, n)) = n
  BY <1>1
<1>4. \A i \in 1..n : SubSeq(s, 1, n)[i] = SubSeq(t, 1, n)[i]
  BY <1>1
<1>5. SubSeq(s, 1, n) = SubSeq(t, 1, n)
  BY <1>2, <1>3, <1>4, SeqEqual
<1> QED
  BY <1>5 DEF IsPrefix

(* The ledger tells the work of a run, in order and each piece once, and a *)
(* run that returns a result has billed all of its work and completed its  *)
(* plan (context.step, context.meter, generateStructured), for every job.  *)
THEOREM LedgersTellTheWork == Spec => []LedgerTellsTheWork
<1>1. BillInv /\ CompletedInv => LedgerTellsTheWork
  <2> SUFFICES ASSUME BillInv, CompletedInv PROVE LedgerTellsTheWork
    OBVIOUS
  <2>1. IsPrefix(Billed, Bill)
    BY BilledShape, PrefixOf
  <2>2. /\ completed \in Seq(StepId) /\ Plan(service) \in Seq(StepId)
        /\ Len(Plan(service)) = 3 /\ Len(completed) \in 0..3
        /\ \A i \in 1..Len(completed) : completed[i] = Plan(service)[i]
    BY TypeFacts, ScriptShape DEF BillInv, WorkInv, TypeOK, CompletedInv, service
  <2>3. IsPrefix(completed, Plan(service))
    BY <2>2, PrefixOf
  <2>4. ASSUME run = "setResult" PROVE Billed = Bill /\ completed = Plan(service)
    <3>1. Begun = 3 /\ Len(events) = Len(Bill) /\ Len(completed) = 3
      BY <2>4 DEF BillInv, PlaceInv, CompletedInv
    <3> QED
      BY <2>2, <3>1, BilledShape, SeqEqual
  <2> QED
    BY <2>1, <2>3, <2>4 DEF LedgerTellsTheWork
<1> QED
  BY <1>1, CompletedInvariant, PTL

(* The model is asked only when all work before is billed, and a run that  *)
(* ends owes at most the two counts of its call, whatever the model says.  *)
THEOREM OneCallIsUnbilled == Spec => []UnbilledIsOneCall
<1>1. BillInv => UnbilledIsOneCall
  <2> SUFFICES ASSUME BillInv PROVE UnbilledIsOneCall
    OBVIOUS
  <2>1. TypeOK /\ PlaceInv /\ AskedInv
    BY DEF BillInv, WorkInv
  <2>2. ASSUME call = "asked" PROVE Billed = Bill
    <3>1. InStep /\ work = <<ModelCall>> /\ Begun = 3
      BY <2>1, <2>2 DEF PlaceInv, AskedInv, InStep
    <3>2. Len(ToDo) = 0
      BY <3>1 DEF ToDo
    <3>3. Len(events) + 0 = Len(BillTo(3)) /\ Bill = BillTo(3) /\ Len(events) \in Nat
      BY <2>1, <3>1, <3>2, BillFacts, TypeFacts DEF InStep
    <3> QED
      BY <3>3, BilledShape
  <2>3. ASSUME answer # <<>> PROVE Len(Bill) - Len(Billed) <= 2
    <3>1. Script[3].work = <<ModelCall>> /\ Len(events) >= Len(BillTo(2))
      BY <2>1, <2>3 DEF PlaceInv
    <3>2. Len(KnownWork(Script[3].work)) = 2
      BY <2>3, <3>1 DEF KnownWork
    <3>3. Extends(BillTo(3), BillTo(3 - 1), KnownWork(Script[3].work)) /\ 3 - 1 = 2
          /\ Bill = BillTo(3) /\ Len(BillTo(2)) \in Nat
      BY <2>1, BillFacts
    <3>4. Len(Bill) = Len(BillTo(2)) + 2
      BY <3>2, <3>3 DEF Extends
    <3> QED
      BY <3>1, <3>3, <3>4, BilledShape
  <2> QED
    BY <2>2, <2>3 DEF UnbilledIsOneCall
<1> QED
  BY <1>1, BillInvariant, PTL

(***************************************************************************)
(* Prices.                                                                 *)
(***************************************************************************)

LEMMA TwoDigits ==
  ASSUME NEW w \in Nat, NEW a \in Digit, NEW b \in Digit
  PROVE  parseUsdc(Usdc(w, <<a, b>>)) = w * 1000000 + a * 100000 + b * 10000
<1> DEFINE d == <<a, b>>
<1>1. /\ DigitAt(d, 1) = a /\ DigitAt(d, 2) = b /\ DigitAt(d, 3) = 0
      /\ DigitAt(d, 4) = 0 /\ DigitAt(d, 5) = 0 /\ DigitAt(d, 6) = 0
  BY DEF DigitAt
<1>2. Usdc(w, d).whole = w /\ Usdc(w, d).fraction = d
  BY DEF Usdc
<1> HIDE DEF d
<1>3. a \in Int /\ b \in Int
  BY DEF Digit
<1> QED
  BY <1>1, <1>2, <1>3 DEF parseUsdc, Place, Scale, d

LEMMA PricesAre ==
  /\ /\ PricingOf("supplier-research").baseFee = 50000
     /\ PricingOf("supplier-research").minimum = 50000
     /\ PricingOf("supplier-research").suggested = 1000000
  /\ /\ PricingOf("document-analysis").baseFee = 40000
     /\ PricingOf("document-analysis").minimum = 40000
     /\ PricingOf("document-analysis").suggested = 500000
  /\ /\ PricingOf("campaign-concept").baseFee = 60000
     /\ PricingOf("campaign-concept").minimum = 60000
     /\ PricingOf("campaign-concept").suggested = 750000
<1>1. \A n \in 0..9 : n \in Digit
  BY DEF Digit
<1>2. /\ parseUsdc(Usdc(0, <<0, 5>>)) = 50000 /\ parseUsdc(Usdc(1, <<0, 0>>)) = 1000000
      /\ parseUsdc(Usdc(0, <<0, 4>>)) = 40000 /\ parseUsdc(Usdc(0, <<5, 0>>)) = 500000
      /\ parseUsdc(Usdc(0, <<0, 6>>)) = 60000 /\ parseUsdc(Usdc(0, <<7, 5>>)) = 750000
  BY <1>1, TwoDigits
<1>3. /\ PricingOf("supplier-research") =
           PriceList(Usdc(0, <<0, 5>>), Usdc(1, <<0, 0>>), Usdc(1, <<0, 0>>))
      /\ PricingOf("document-analysis") =
           PriceList(Usdc(0, <<0, 4>>), Usdc(0, <<5, 0>>), Usdc(0, <<5, 0>>))
      /\ PricingOf("campaign-concept") =
           PriceList(Usdc(0, <<0, 6>>), Usdc(0, <<7, 5>>), Usdc(0, <<7, 5>>))
  BY DEF PricingOf
<1> QED
  BY <1>2, <1>3 DEF PriceList

(* What a piece costs. *)
LEMMA RateOf ==
  ASSUME NEW q \in Nat, NEW r \in Nat
  PROVE  RateAmount(q, r, 1) = q * r
<1> DEFINE n == q * r
<1>1. n \in Nat /\ ~(r < 0)
  OBVIOUS
<1> HIDE DEF n
<1>2. CeilDiv(n, 1) = n
  BY <1>1 DEF CeilDiv, TruncDiv
<1> QED
  BY <1>1, <1>2 DEF RateAmount, n

LEMMA CostOf ==
  ASSUME NEW q \in Nat
  PROVE  /\ \A sv : AmountOf(sv, Input(q)) = q * 2
         /\ \A sv : AmountOf(sv, Output(q)) = q * 8
         /\ \A sv : AmountOf(sv, Metered("COMPUTE_SECONDS", q)) = q * 100
         /\ \A sv : AmountOf(sv, Metered("IMAGE_GENERATION", q)) = q * 70000
         /\ \A sv : AmountOf(sv, Metered("DOCUMENT_PAGE", q)) = q * 1500
         /\ \A sv : AmountOf(sv, Metered("EXTERNAL_API_COST", q)) = RateAmount(q, 6, 5)
         /\ \A sv : AmountOf(sv, Metered("BASE_FEE", q)) = PricingOf(sv).baseFee * q
<1>1. /\ RateAmount(q, 2, 1) = q * 2 /\ RateAmount(q, 8, 1) = q * 8
      /\ RateAmount(q, 100, 1) = q * 100 /\ RateAmount(q, 70000, 1) = q * 70000
      /\ RateAmount(q, 1500, 1) = q * 1500
  <2>1. RateAmount(q, 2, 1) = q * 2
    BY RateOf
  <2>2. RateAmount(q, 8, 1) = q * 8
    BY RateOf
  <2>3. RateAmount(q, 100, 1) = q * 100
    BY RateOf
  <2>4. RateAmount(q, 70000, 1) = q * 70000
    BY RateOf
  <2>5. RateAmount(q, 1500, 1) = q * 1500
    BY RateOf
  <2> QED
    BY <2>1, <2>2, <2>3, <2>4, <2>5
<1> QED
  BY <1>1 DEF AmountOf, Metered, Input, Output, CommonRates, Ratio

LEMMA ApiCost ==
  ASSUME NEW q \in Nat
  PROVE  RateAmount(q, 6, 5) \in Nat /\ 5 * RateAmount(q, 6, 5) <= 6 * q + 4
<1>1. RateAmount(q, 6, 5) = CeilDiv(q * 6, 5)
  BY DEF RateAmount
<1> QED
  BY <1>1 DEF CeilDiv, TruncDiv

LEMMA PiecePrice ==
  ASSUME NEW sv \in ServiceId, NEW u, u.type \in UsageType \ {"CREDIT"}, u.quantity \in Nat
  PROVE  AmountOf(sv, u) \in Nat
<1> DEFINE q == u.quantity
<1>1. CASE u.type = "BASE_FEE"
  <2>1. PricingOf(sv).baseFee \in Nat
    BY PricesAre DEF ServiceId
  <2> QED
    BY <1>1, <2>1 DEF AmountOf
<1>2. CASE u.type # "BASE_FEE"
  <2>1. u.type \in {"LLM_INPUT_TOKENS", "LLM_OUTPUT_TOKENS", "COMPUTE_SECONDS",
                    "EXTERNAL_API_COST", "IMAGE_GENERATION", "DOCUMENT_PAGE"}
    BY <1>2 DEF UsageType, CommonRates
  <2>2. AmountOf(sv, u) = AmountOf(sv, Metered(u.type, q))
    BY DEF AmountOf, Metered
  <2>3. q * 2 \in Nat /\ q * 8 \in Nat /\ q * 100 \in Nat /\ q * 70000 \in Nat /\ q * 1500 \in Nat
    OBVIOUS
  <2> QED
    BY <2>1, <2>2, <2>3, CostOf, ApiCost DEF Input, Output
<1> QED
  BY <1>1, <1>2

(***************************************************************************)
(* Sums of pieces.                                                         *)
(***************************************************************************)

LEMMA PricesOfPieces ==
  ASSUME JobOK(case.job), NEW w \in Seq(Piece)
  PROVE  /\ \A i \in 1..Len(w) : AmountOf(service, w[i]) \in Nat
         /\ SumOf(w) = SumTo([i \in 1..Len(w) |-> AmountOf(service, w[i])], Len(w))
         /\ SumOf(w) \in Nat
<1>1. ASSUME NEW i \in 1..Len(w) PROVE AmountOf(service, w[i]) \in Nat
  <2>1. w[i] \in Piece
    BY ElementOfSeq
  <2> QED
    BY <2>1, PiecePrice DEF Piece, service, JobOK
<1>2. SumOf(w) = SumTo([i \in 1..Len(w) |-> AmountOf(service, w[i])], Len(w))
  BY DEF SumOf
<1> DEFINE f == [i \in 1..Len(w) |-> AmountOf(service, w[i])]
<1>3. \A i \in 1..Len(w) : f[i] \in Nat
  BY <1>1
<1>4. Len(w) \in Nat /\ Len(w) \in 0..Len(w)
  OBVIOUS
<1> HIDE DEF f
<1>5. SumTo(f, Len(w)) \in Nat
  BY <1>3, <1>4, SumNat
<1> QED
  BY <1>1, <1>2, <1>5 DEF f

(* A sequence that goes on costs what its parts cost. *)
LEMMA SumOfExtended ==
  ASSUME JobOK(case.job), NEW s \in Seq(Piece), NEW more \in Seq(Piece), NEW t \in Seq(Piece),
         Extends(t, s, more)
  PROVE  SumOf(t) = SumOf(s) + SumOf(more)
<1> DEFINE f == [i \in 1..Len(t) |-> AmountOf(service, t[i])]
           g == [i \in 1..Len(s) |-> AmountOf(service, s[i])]
           h == [i \in 1..Len(more) |-> AmountOf(service, more[i])]
           a == Len(s)
           b == Len(more)
           S == {j \in Nat : j <= b => SumTo(f, a + j) = SumTo(g, a) + SumTo(h, j)}
<1>1. a \in Nat /\ b \in Nat /\ Len(t) = a + b
  BY DEF Extends
<1>2. \A i \in 1..a : f[i] = g[i]
  BY <1>1 DEF Extends
<1>3. \A j \in 1..b : a + j \in 1..(a + b) /\ f[a + j] = h[j]
  BY <1>1 DEF Extends
<1>4. /\ \A i \in 1..a : g[i] \in Int
      /\ \A j \in 1..b : h[j] \in Int
  <2>1. \A i \in 1..a : AmountOf(service, s[i]) \in Nat
    BY PricesOfPieces
  <2>2. \A j \in 1..b : AmountOf(service, more[j]) \in Nat
    BY PricesOfPieces
  <2> QED
    BY <2>1, <2>2
<1>5. SumOf(t) = SumTo(f, a + b) /\ SumOf(s) = SumTo(g, a) /\ SumOf(more) = SumTo(h, b)
  BY <1>1, PricesOfPieces
<1> HIDE DEF f, g, h, a, b
<1>6. SumTo(g, a) \in Int /\ \A j \in 0..b : SumTo(h, j) \in Int
  <2>1. a \in 0..a
    BY <1>1
  <2>2. \A j \in 0..a : SumTo(g, j) \in Int
    BY <1>1, <1>4, SumInt
  <2>3. \A j \in 0..b : SumTo(h, j) \in Int
    BY <1>1, <1>4, SumInt
  <2> QED
    BY <2>1, <2>2, <2>3
<1>7. 0 \in S
  <2>1. SumTo(f, a) = SumTo(g, a)
    BY <1>1, <1>2, SumSame
  <2>2. SumTo(h, 0) = 0
    BY SumStep
  <2>3. a + 0 = a
    BY <1>1
  <2> QED
    BY <1>6, <2>1, <2>2, <2>3
<1>8. ASSUME NEW j \in Nat, j \in S PROVE j + 1 \in S
  <2> SUFFICES ASSUME j + 1 <= b PROVE SumTo(f, a + (j + 1)) = SumTo(g, a) + SumTo(h, j + 1)
    OBVIOUS
  <2>1. /\ SumTo(f, a + j) = SumTo(g, a) + SumTo(h, j) /\ j + 1 \in 1..b /\ j \in 0..b
        /\ a + j \in Nat /\ a + (j + 1) = (a + j) + 1
    BY <1>1, <1>8
  <2>2. SumTo(f, (a + j) + 1) = SumTo(f, a + j) + f[(a + j) + 1]
    BY <2>1, SumStep
  <2>3. SumTo(h, j + 1) = SumTo(h, j) + h[j + 1]
    BY SumStep
  <2>4. f[(a + j) + 1] = h[j + 1] /\ h[j + 1] \in Int
    BY <1>3, <1>4, <2>1
  <2> QED
    BY <1>6, <2>1, <2>2, <2>3, <2>4
<1> HIDE DEF S
<1>9. \A j \in Nat : j \in S
  BY <1>7, <1>8, SetInduction
<1> QED
  BY <1>1, <1>5, <1>9 DEF S

LEMMA SumOfFew ==
  ASSUME JobOK(case.job)
  PROVE  /\ SumOf(<<>>) = 0
         /\ \A p \in Piece : SumOf(<<p>>) = AmountOf(service, p)
         /\ \A p, q \in Piece : SumOf(<<p, q>>) = AmountOf(service, p) + AmountOf(service, q)
         /\ \A p, q, r \in Piece :
              SumOf(<<p, q, r>>) =
                AmountOf(service, p) + AmountOf(service, q) + AmountOf(service, r)
<1>e. <<>> \in Seq(Piece) /\ Len(<<>>) = 0
  OBVIOUS
<1>1. SumOf(<<>>) = 0
  BY <1>e, PricesOfPieces, SumStep
<1>2. ASSUME NEW p \in Piece PROVE SumOf(<<p>>) = AmountOf(service, p)
  <2> DEFINE f == [i \in 1..Len(<<p>>) |-> AmountOf(service, <<p>>[i])]
  <2>1. Len(<<p>>) = 1 /\ <<p>> \in Seq(Piece) /\ f[1] = AmountOf(service, p)
    OBVIOUS
  <2>2. SumOf(<<p>>) = SumTo(f, 1)
    BY <2>1 DEF SumOf
  <2>4. AmountOf(service, <<p>>[1]) \in Nat
    BY PiecePrice DEF Piece, service, JobOK
  <2> HIDE DEF f
  <2>3. SumTo(f, 0 + 1) = SumTo(f, 0) + f[0 + 1] /\ SumTo(f, 0) = 0
    BY SumStep
  <2> QED
    BY <2>1, <2>2, <2>3, <2>4
<1>3. ASSUME NEW p \in Piece, NEW w \in Seq(Piece), NEW t \in Seq(Piece), Len(t) = Len(w) + 1,
             \A i \in 1..Len(w) : t[i] = w[i], t[Len(w) + 1] = p
      PROVE  SumOf(t) = SumOf(w) + AmountOf(service, p)
  <2>1. Len(<<p>>) = 1 /\ <<p>>[1] = p /\ <<p>> \in Seq(Piece)
    OBVIOUS
  <2>2. Extends(t, w, <<p>>)
    BY <1>3, <2>1 DEF Extends
  <2>3. SumOf(t) = SumOf(w) + SumOf(<<p>>)
    BY <2>1, <2>2, SumOfExtended
  <2> QED
    BY <1>2, <2>3
<1>4. ASSUME NEW p \in Piece, NEW q \in Piece
      PROVE  SumOf(<<p, q>>) = AmountOf(service, p) + AmountOf(service, q)
  <2> DEFINE w == <<p>>
             t == <<p, q>>
  <2>2. /\ w \in Seq(Piece) /\ t \in Seq(Piece) /\ Len(t) = Len(w) + 1
        /\ (\A i \in 1..Len(w) : t[i] = w[i]) /\ t[Len(w) + 1] = q
    OBVIOUS
  <2> HIDE DEF w, t
  <2>3. SumOf(t) = SumOf(w) + AmountOf(service, q)
    BY <1>3, <2>2
  <2>1. SumOf(<<p, q>>) = SumOf(<<p>>) + AmountOf(service, q)
    BY <2>3 DEF w, t
  <2> QED
    BY <1>2, <2>1
<1>5. ASSUME NEW p \in Piece, NEW q \in Piece, NEW r \in Piece
      PROVE  SumOf(<<p, q, r>>) =
               AmountOf(service, p) + AmountOf(service, q) + AmountOf(service, r)
  <2> DEFINE w == <<p, q>>
             t == <<p, q, r>>
  <2>2. /\ w \in Seq(Piece) /\ t \in Seq(Piece) /\ Len(t) = Len(w) + 1
        /\ (\A i \in 1..Len(w) : t[i] = w[i]) /\ t[Len(w) + 1] = r
    OBVIOUS
  <2> HIDE DEF w, t
  <2>3. SumOf(t) = SumOf(w) + AmountOf(service, r)
    BY <1>3, <2>2
  <2>1. SumOf(<<p, q, r>>) = SumOf(<<p, q>>) + AmountOf(service, r)
    BY <2>3 DEF w, t
  <2> QED
    BY <1>4, <2>1
<1> QED
  BY <1>1, <1>2, <1>4, <1>5

(***************************************************************************)
(* The budget.                                                             *)
(***************************************************************************)

(* The charge of a run stays within its cap, and a demo answer is the demo *)
(* provider's.                                                             *)
BudgetInv ==
  /\ Total \in 0..case.cap
  /\ case.provider = "demo" => answer \in {<<>>, DemoUsage}

LEMMA CapIsNatural == TypeOK => case.cap \in Nat /\ service \in ServiceId
<1> SUFFICES ASSUME TypeOK PROVE case.cap \in Nat /\ service \in ServiceId
  OBVIOUS
<1>1. /\ JobOK(case.job)
      /\ case.cap \in PricingOf(case.job.service).minimum..PricingOf(case.job.service).maximum
  BY CaseAssumption DEF TypeOK
<1>2. case.job.service \in ServiceId
  BY <1>1 DEF JobOK
<1>3. PricingOf(case.job.service).minimum \in Nat
  BY <1>2, PricesAre DEF ServiceId
<1>4. \A lo \in Nat : \A hi : \A c \in lo..hi : c \in Nat
  OBVIOUS
<1> QED
  BY <1>1, <1>2, <1>3, <1>4 DEF service

(* One more event adds its price to the charge. *)
LEMMA TotalGrows ==
  ASSUME TypeOK, NEW u, u.type \in UsageType \ {"CREDIT"}, u.quantity \in Nat, NEW e \in Event,
         e.type = u.type, e.quantity = u.quantity,
         events' = Append(events, e), UNCHANGED case
  PROVE  Total' = Total + AmountOf(service, u) /\ AmountOf(service, u) \in Nat
<1> DEFINE f == [i \in DOMAIN events |-> AmountOf(service, events[i])]
           g == [i \in DOMAIN events' |-> AmountOf(service, events'[i])]
           n == Len(events)
<1>1. events \in Seq(Event) /\ n \in Nat
  BY TypeFacts
<1>2. /\ Len(events') = n + 1 /\ DOMAIN events = 1..n /\ DOMAIN events' = 1..(n + 1)
      /\ \A i \in 1..n : events'[i] = events[i]
      /\ events'[n + 1] = e
  BY <1>1
<1>3. AmountOf(service, e) = AmountOf(service, u)
  BY DEF AmountOf
<1>4. \A i \in 1..n : f[i] = g[i]
  BY <1>1, <1>2
<1>5. g[n + 1] = AmountOf(service, u)
  BY <1>1, <1>2, <1>3
<1>6. Total = SumTo(f, n)
  BY DEF Total, SumOf
<1>7. Total' = SumTo(g, n + 1)
  BY <1>2 DEF Total, SumOf, service
<1> HIDE DEF f, g, n
<1>8. SumTo(g, n + 1) = SumTo(f, n) + g[n + 1]
  BY <1>1, <1>4, SumAppended
<1> QED
  BY <1>5, <1>6, <1>7, <1>8, CapIsNatural, PiecePrice

LEMMA BudgetInit == Init => BudgetInv
<1> SUFFICES ASSUME Init PROVE BudgetInv
  OBVIOUS
<1>1. TypeOK /\ events = <<>> /\ answer = <<>>
  BY WorkInit DEF WorkInv, Init
<1>2. Total = 0
  BY <1>1, SumStep DEF Total, SumOf
<1> QED
  BY <1>1, <1>2, CapIsNatural DEF BudgetInv

LEMMA BudgetStep == BillInv /\ BudgetInv /\ [Next]_vars => BudgetInv'
<1> SUFFICES ASSUME BillInv, BudgetInv, [Next]_vars PROVE BudgetInv'
  OBVIOUS
<1>1. TypeOK /\ case.cap \in Nat /\ Total \in 0..case.cap
  BY CapIsNatural DEF BillInv, WorkInv, BudgetInv
<1>2. ASSUME NEW u, u.type \in UsageType \ {"CREDIT"}, u.quantity \in Nat, NEW e \in Event,
             e.type = u.type, e.quantity = u.quantity, FitsCap(u),
             events' = Append(events, e), UNCHANGED <<case, answer>>
      PROVE  BudgetInv'
  <2>1. Total' = Total + AmountOf(service, u) /\ AmountOf(service, u) \in Nat
    BY <1>1, <1>2, TotalGrows
  <2>2. Total + AmountOf(service, u) <= case.cap /\ case' = case
    BY <1>2 DEF FitsCap
  <2>3. Total' \in 0..case'.cap
    BY <1>1, <2>1, <2>2
  <2> QED
    BY <1>2, <2>3 DEF BudgetInv
<1>3. ASSUME UNCHANGED <<case, events, answer>> PROVE BudgetInv'
  BY <1>3 DEF BudgetInv, Total, SumOf, service
<1>4. CASE Meter
  <2>1. Head(work) \in Piece /\ UNCHANGED <<case, answer>>
    BY <1>4, NextPiece DEF Meter, control
  <2>2. Head(work).type \in UsageType \ {"CREDIT"} /\ Head(work).quantity \in Nat
    BY <2>1 DEF Piece
  <2> DEFINE e == [key |-> <<activeStep, sequence>>, type |-> Head(work).type,
                   quantity |-> Head(work).quantity]
  <2>3. e.type = Head(work).type /\ e.quantity = Head(work).quantity
    OBVIOUS
  <2>4. \/ FitsCap(Head(work)) /\ e \in Event /\ events' = Append(events, e)
        \/ UNCHANGED events
    BY <1>4, MeterOutcome
  <2> HIDE DEF e
  <2> QED
    BY <1>2, <1>3, <2>1, <2>2, <2>3, <2>4
<1>5. CASE RecordBaseFee
  <2> DEFINE fee == Metered("BASE_FEE", 1)
             e == [key |-> <<"base-fee">>, type |-> fee.type, quantity |-> fee.quantity]
  <2>1. fee.type \in UsageType \ {"CREDIT"} /\ fee.quantity \in Nat /\ fee.type \in UsageType
    BY DEF Metered, UsageType
  <2>2. /\ Record(<<"base-fee">>, fee, "work") /\ UNCHANGED <<case, answer>>
        /\ <<"base-fee">> \in Key /\ "work" \in Trying /\ events = <<>>
    BY <1>5 DEF RecordBaseFee, control, Key, Trying, BillInv, PlaceInv
  <2>3. e.type = fee.type /\ e.quantity = fee.quantity
    OBVIOUS
  <2>4. ~Known(<<"base-fee">>)
    BY <2>2 DEF Known
  <2> HIDE DEF fee
  <2>5. \/ FitsCap(fee) /\ e \in Event /\ events' = Append(events, e)
        \/ UNCHANGED events
    BY <2>1, <2>2, <2>4, RecordOutcome
  <2> HIDE DEF e
  <2> QED
    BY <1>2, <1>3, <2>1, <2>2, <2>3, <2>5
<1>6. CASE ModelAnswers
  <2>1. PICK tokens \in Reports : answer' = tokens
    BY <1>6 DEF ModelAnswers
  <2>2. UNCHANGED <<case, events>>
    BY <1>6 DEF ModelAnswers
  <2>3. Total' = Total
    BY <2>2 DEF Total, SumOf, service
  <2>4. case.provider = "demo" => answer' \in {<<>>, DemoUsage}
    BY <2>1 DEF Reports
  <2> QED
    BY <1>1, <2>2, <2>3, <2>4 DEF BudgetInv
<1>7. CASE BeginStep \/ EndStep \/ ServiceReturns \/ AskModel \/ ModelFails \/ TimesOut
           \/ LateAnswer \/ Cancel \/ WriteFails \/ UNCHANGED vars
  BY <1>3, <1>7 DEF BeginStep, EndStep, ServiceReturns, AskModel, ModelFails, TimesOut, LateAnswer,
                    Cancel, WriteFails, control, vars
<1> QED
  BY <1>4, <1>5, <1>6, <1>7 DEF Next, Execute, Model

LEMMA BudgetInvariant == Spec => [](BillInv /\ BudgetInv)
<1>1. Init => BudgetInv
  BY BudgetInit
<1> QED
  BY <1>1, BudgetStep, BillInvariant, PTL DEF Spec

(* The charge and what remains of the cap, as texts (toPublic of the       *)
(* session and budget.updated), are read back as amounts that add up to    *)
(* the cap: neither is negative at any moment of any run.                  *)
THEOREM BudgetsReadBack == Spec => []BudgetReadsBack
<1>1. BillInv /\ BudgetInv => BudgetReadsBack
  <2> SUFFICES ASSUME BillInv, BudgetInv PROVE BudgetReadsBack
    OBVIOUS
  <2>1. case.cap \in Nat /\ Total \in Nat /\ case.cap - Total \in Nat
    BY CapIsNatural DEF BillInv, WorkInv, BudgetInv
  <2>2. /\ Readable(formatUsdc(Total)) /\ parseUsdc(formatUsdc(Total)) = Total
        /\ Readable(formatUsdc(case.cap - Total))
        /\ parseUsdc(formatUsdc(case.cap - Total)) = case.cap - Total
    BY <2>1, AmountsReadBack
  <2> QED
    BY <2>1, <2>2 DEF BudgetReadsBack, currentChargeUsdc, remainingAuthorizationUsdc
<1> QED
  BY <1>1, BudgetInvariant, PTL

(***************************************************************************)
(* The suggested maximum.                                                  *)
(***************************************************************************)

(* The bill costs what its base fee and its steps cost. *)
LEMMA BillCosts ==
  ASSUME TypeOK, NEW w1 \in Seq(Piece), NEW w2 \in Seq(Piece), NEW w3 \in Seq(Piece),
         KnownWork(Script[1].work) = w1, KnownWork(Script[2].work) = w2,
         KnownWork(Script[3].work) = w3
  PROVE  SumOf(Bill) = PricingOf(service).baseFee + SumOf(w1) + SumOf(w2) + SumOf(w3)
<1>1. JobOK(case.job) /\ service \in ServiceId
  BY TypeFacts, CapIsNatural
<1>2. /\ BillTo(0) \in Seq(Piece) /\ BillTo(1) \in Seq(Piece) /\ BillTo(2) \in Seq(Piece)
      /\ BillTo(3) \in Seq(Piece) /\ Bill = BillTo(3)
  BY BillFacts
<1>3. /\ Extends(BillTo(1), BillTo(0), w1) /\ Extends(BillTo(2), BillTo(1), w2)
      /\ Extends(BillTo(3), BillTo(2), w3)
  <2>1. /\ Extends(BillTo(1), BillTo(1 - 1), w1) /\ Extends(BillTo(2), BillTo(2 - 1), w2)
        /\ Extends(BillTo(3), BillTo(3 - 1), w3)
    BY BillFacts
  <2>2. 1 - 1 = 0 /\ 2 - 1 = 1 /\ 3 - 1 = 2
    OBVIOUS
  <2> QED
    BY <2>1, <2>2
<1>4. SumOf(BillTo(1)) = SumOf(BillTo(0)) + SumOf(w1)
  BY <1>1, <1>2, <1>3, SumOfExtended
<1>5. SumOf(BillTo(2)) = SumOf(BillTo(1)) + SumOf(w2)
  BY <1>1, <1>2, <1>3, SumOfExtended
<1>6. SumOf(BillTo(3)) = SumOf(BillTo(2)) + SumOf(w3)
  BY <1>1, <1>2, <1>3, SumOfExtended
<1>7. SumOf(BillTo(0)) = PricingOf(service).baseFee
  <2>1. Metered("BASE_FEE", 1) \in Piece
    BY PieceMembers DEF UsageType
  <2>2. SumOf(<<Metered("BASE_FEE", 1)>>) = AmountOf(service, Metered("BASE_FEE", 1))
    BY <1>1, <2>1, SumOfFew
  <2>3. AmountOf(service, Metered("BASE_FEE", 1)) = PricingOf(service).baseFee * 1
    BY CostOf
  <2>4. PricingOf(service).baseFee \in Nat
    BY <1>1, PricesAre DEF ServiceId
  <2> QED
    BY <2>2, <2>3, <2>4 DEF BillTo, Bill0
<1> QED
  BY <1>2, <1>4, <1>5, <1>6, <1>7

LEMMA KnownPieces == \A w \in Seq(Piece) : KnownWork(w) = w
  BY NotTheCall DEF KnownWork

LEMMA SupplierBill ==
  ASSUME TypeOK, service = "supplier-research", answer \in {<<>>, DemoUsage}
  PROVE  SumOf(Bill) \in Nat /\ SumOf(Bill) <= 231800
<1> DEFINE cost == IF case.job.priority = "fast" THEN 75000 ELSE 55000
           w1 == <<Metered("EXTERNAL_API_COST", 40000), Input(5400), Output(620)>>
           w2 == <<Metered("EXTERNAL_API_COST", cost), Metered("COMPUTE_SECONDS", 18)>>
           w3 == KnownWork(<<ModelCall>>)
<1>1. JobOK(case.job) /\ cost \in Nat /\ cost <= 75000
  BY TypeFacts
<1>2. /\ Script[1].work = w1 /\ Script[2].work = w2 /\ Script[3].work = <<ModelCall>>
  BY DEF Script, Execution, service, SupplierResearch, StepOf
<1> HIDE DEF cost
<1>3. /\ Metered("EXTERNAL_API_COST", 40000) \in Piece /\ Metered("EXTERNAL_API_COST", cost) \in Piece
      /\ Metered("COMPUTE_SECONDS", 18) \in Piece
      /\ Input(5400) \in Piece /\ Output(620) \in Piece /\ Input(7200) \in Piece
      /\ Output(1480) \in Piece
  BY <1>1, PieceMembers DEF UsageType, CommonRates
<1>4. w1 \in Seq(Piece) /\ w2 \in Seq(Piece)
  BY <1>3
<1>5. SumOf(w1) \in Nat /\ SumOf(w1) <= 63760
  <2>1. SumOf(w1) = AmountOf(service, Metered("EXTERNAL_API_COST", 40000))
                    + AmountOf(service, Input(5400)) + AmountOf(service, Output(620))
    BY <1>1, <1>3, SumOfFew
  <2>2. AmountOf(service, Input(5400)) = 10800 /\ AmountOf(service, Output(620)) = 4960
    BY CostOf
  <2>3. /\ AmountOf(service, Metered("EXTERNAL_API_COST", 40000)) = RateAmount(40000, 6, 5)
        /\ RateAmount(40000, 6, 5) \in Nat /\ 5 * RateAmount(40000, 6, 5) <= 240004
    BY CostOf, ApiCost
  <2> QED
    BY <2>1, <2>2, <2>3
<1>6. SumOf(w2) \in Nat /\ SumOf(w2) <= 91800
  <2>1. SumOf(w2) = AmountOf(service, Metered("EXTERNAL_API_COST", cost))
                    + AmountOf(service, Metered("COMPUTE_SECONDS", 18))
    BY <1>1, <1>3, SumOfFew
  <2>2. AmountOf(service, Metered("COMPUTE_SECONDS", 18)) = 1800
    BY CostOf
  <2>3. /\ AmountOf(service, Metered("EXTERNAL_API_COST", cost)) = RateAmount(cost, 6, 5)
        /\ RateAmount(cost, 6, 5) \in Nat /\ 5 * RateAmount(cost, 6, 5) <= 6 * cost + 4
    BY <1>1, CostOf, ApiCost
  <2> QED
    BY <1>1, <2>1, <2>2, <2>3
<1>7. w3 \in Seq(Piece) /\ SumOf(w3) \in Nat /\ SumOf(w3) <= 26240
  <2>1. CASE answer = <<>>
    <3>1. w3 = <<>>
      BY <2>1 DEF KnownWork
    <3> QED
      BY <1>1, <3>1, SumOfFew
  <2>2. CASE answer # <<>>
    <3>1. answer[1] = 7200 /\ answer[2] = 1480
      BY <2>2 DEF DemoUsage
    <3> DEFINE pair == <<Input(7200), Output(1480)>>
    <3>2. w3 = pair
      BY <2>2, <3>1 DEF KnownWork
    <3>3. SumOf(pair) = AmountOf(service, Input(7200)) + AmountOf(service, Output(1480))
      BY <1>1, <1>3, SumOfFew
    <3>4. AmountOf(service, Input(7200)) = 14400 /\ AmountOf(service, Output(1480)) = 11840
      BY CostOf
    <3>5. pair \in Seq(Piece)
      BY <1>3
    <3> HIDE DEF pair, w1, w2, w3
    <3> QED
      BY <3>2, <3>3, <3>4, <3>5
  <2> QED
    BY <2>1, <2>2
<1>9. KnownWork(Script[3].work) = w3
  BY <1>2
<1> HIDE DEF w1, w2, w3
<1>8. KnownWork(Script[1].work) = w1 /\ KnownWork(Script[2].work) = w2
  <2>1. KnownWork(w1) = w1 /\ KnownWork(w2) = w2
    BY <1>4, KnownPieces
  <2> QED
    BY <1>2, <2>1
<1>10. SumOf(Bill) = PricingOf(service).baseFee + SumOf(w1) + SumOf(w2) + SumOf(w3)
  BY <1>4, <1>7, <1>8, <1>9, BillCosts
<1>11. PricingOf(service).baseFee = 50000
  BY PricesAre
<1> QED
  BY <1>5, <1>6, <1>7, <1>10, <1>11

LEMMA DocumentBill ==
  ASSUME TypeOK, service = "document-analysis"
  PROVE  SumOf(Bill) \in Nat /\ SumOf(Bill) <= 339400
<1> DEFINE pages == case.job.pages
           seconds == AtLeast(HalfUp(pages), 2)
           tokens == 1000 + 650 * pages
           w1 == <<Metered("DOCUMENT_PAGE", pages), Metered("COMPUTE_SECONDS", seconds)>>
           w2 == <<Input(tokens), Output(900)>>
           w3 == <<Output(650)>>
<1>1. /\ JobOK(case.job) /\ pages \in 1..100 /\ pages \in Nat
      /\ seconds \in Nat /\ seconds <= 50 /\ tokens \in Nat /\ tokens <= 66000
  <2>1. pages \in 1..100
    BY TypeFacts DEF JobOK
  <2>2. HalfUp(pages) = (pages + 1) \div 2
    BY <2>1 DEF HalfUp, CeilDiv, TruncDiv
  <2>3. seconds \in Nat /\ seconds <= 50
    BY <2>1, <2>2 DEF AtLeast
  <2>4. tokens \in Nat /\ tokens <= 66000
    BY <2>1
  <2>5. JobOK(case.job)
    BY TypeFacts
  <2> QED
    BY <2>1, <2>3, <2>4, <2>5
<1>2. Script[1].work = w1 /\ Script[2].work = w2 /\ Script[3].work = w3
  BY DEF Script, Execution, service, DocumentAnalysis, StepOf
<1> HIDE DEF pages, seconds, tokens
<1>3. /\ Metered("DOCUMENT_PAGE", pages) \in Piece /\ Metered("COMPUTE_SECONDS", seconds) \in Piece
      /\ Input(tokens) \in Piece /\ Output(900) \in Piece /\ Output(650) \in Piece
  BY <1>1, PieceMembers DEF UsageType, CommonRates
<1>4. w1 \in Seq(Piece) /\ w2 \in Seq(Piece) /\ w3 \in Seq(Piece)
  BY <1>3
<1>5. SumOf(w1) = pages * 1500 + seconds * 100
  BY <1>1, <1>3, SumOfFew, CostOf
<1>6. SumOf(w2) = tokens * 2 + 7200
  BY <1>1, <1>3, SumOfFew, CostOf
<1>7. SumOf(w3) = 5200
  BY <1>1, <1>3, SumOfFew, CostOf
<1> HIDE DEF w1, w2, w3
<1>8. /\ KnownWork(Script[1].work) = w1 /\ KnownWork(Script[2].work) = w2
      /\ KnownWork(Script[3].work) = w3
  <2>1. KnownWork(w1) = w1 /\ KnownWork(w2) = w2 /\ KnownWork(w3) = w3
    BY <1>4, KnownPieces
  <2> QED
    BY <1>2, <2>1
<1>10. SumOf(Bill) = PricingOf(service).baseFee + SumOf(w1) + SumOf(w2) + SumOf(w3)
  BY <1>4, <1>8, BillCosts
<1>11. PricingOf(service).baseFee = 40000
  BY PricesAre
<1> QED
  BY <1>1, <1>5, <1>6, <1>7, <1>10, <1>11

LEMMA CampaignBill ==
  ASSUME TypeOK, service = "campaign-concept"
  PROVE  SumOf(Bill) \in Nat /\ SumOf(Bill) <= 229200
<1> DEFINE w1 == <<Input(4200), Output(1100)>>
           w2 == <<Metered("IMAGE_GENERATION", 2)>>
           w3 == <<Output(1350), Metered("COMPUTE_SECONDS", 12)>>
<1>1. JobOK(case.job)
  BY TypeFacts
<1>2. Script[1].work = w1 /\ Script[2].work = w2 /\ Script[3].work = w3
  BY DEF Script, Execution, service, CampaignConcept, StepOf
<1>3. /\ Input(4200) \in Piece /\ Output(1100) \in Piece /\ Metered("IMAGE_GENERATION", 2) \in Piece
      /\ Output(1350) \in Piece /\ Metered("COMPUTE_SECONDS", 12) \in Piece
  BY PieceMembers DEF UsageType, CommonRates
<1>4. w1 \in Seq(Piece) /\ w2 \in Seq(Piece) /\ w3 \in Seq(Piece)
  BY <1>3
<1>5. SumOf(w1) = 8400 + 8800
  BY <1>1, <1>3, SumOfFew, CostOf
<1>6. SumOf(w2) = 140000
  BY <1>1, <1>3, SumOfFew, CostOf
<1>7. SumOf(w3) = 10800 + 1200
  BY <1>1, <1>3, SumOfFew, CostOf
<1> HIDE DEF w1, w2, w3
<1>8. /\ KnownWork(Script[1].work) = w1 /\ KnownWork(Script[2].work) = w2
      /\ KnownWork(Script[3].work) = w3
  <2>1. KnownWork(w1) = w1 /\ KnownWork(w2) = w2 /\ KnownWork(w3) = w3
    BY <1>4, KnownPieces
  <2> QED
    BY <1>2, <2>1
<1>10. SumOf(Bill) = PricingOf(service).baseFee + SumOf(w1) + SumOf(w2) + SumOf(w3)
  BY <1>4, <1>8, BillCosts
<1>11. PricingOf(service).baseFee = 60000
  BY PricesAre
<1> QED
  BY <1>5, <1>6, <1>7, <1>10, <1>11

(* Whatever the input, a run on the demo provider costs no more than its   *)
(* suggested maximum (suggestedMaximumUsdc of each service).               *)
THEOREM SuggestedMaximumCoversTheBill ==
  ASSUME TypeOK, answer \in {<<>>, DemoUsage}
  PROVE  SumOf(Bill) <= PricingOf(service).suggested
<1>1. service \in ServiceId
  BY CapIsNatural
<1>2. CASE service = "supplier-research"
  BY <1>2, SupplierBill, PricesAre
<1>3. CASE service = "document-analysis"
  BY <1>3, DocumentBill, PricesAre
<1>4. CASE service = "campaign-concept"
  BY <1>4, CampaignBill, PricesAre
<1> QED
  BY <1>1, <1>2, <1>3, <1>4 DEF ServiceId

(* The charge and the next piece of the bill are part of what it costs.    *)
LEMMA NextIsWithinTheBill ==
  ASSUME BillInv, Len(events) < Len(Bill)
  PROVE  Total + AmountOf(service, Bill[Len(events) + 1]) <= SumOf(Bill)
<1> DEFINE f == [i \in DOMAIN events |-> AmountOf(service, events[i])]
           g == [i \in 1..Len(Bill) |-> AmountOf(service, Bill[i])]
           n == Len(events)
           m == Len(Bill)
<1>1. /\ TypeOK /\ BilledInv /\ JobOK(case.job) /\ n \in Nat /\ m \in Nat
      /\ DOMAIN events = 1..n /\ Bill \in Seq(Piece)
  BY TypeFacts, BilledShape DEF BillInv, WorkInv
<1>2. n + 1 \in 0..m /\ n + 1 \in 1..m
  BY <1>1
<1>3. ASSUME NEW i \in 1..n PROVE f[i] = g[i]
  <2>1. i \in 1..m /\ f[i] = AmountOf(service, events[i]) /\ g[i] = AmountOf(service, Bill[i])
    BY <1>1, <1>2
  <2>2. Metered(events[i].type, events[i].quantity) = Bill[i]
    BY <1>1 DEF BilledInv, Usage
  <2>3. Bill[i].type = events[i].type /\ Bill[i].quantity = events[i].quantity
    BY <2>2 DEF Metered
  <2> QED
    BY <2>1, <2>3 DEF AmountOf
<1>4. Total = SumTo(f, n)
  BY DEF Total, SumOf
<1>5. SumOf(Bill) = SumTo(g, m)
  BY <1>1, PricesOfPieces
<1>6. \A i \in 1..m : g[i] \in Nat
  <2>1. \A i \in 1..m : AmountOf(service, Bill[i]) \in Nat
    BY <1>1, PricesOfPieces
  <2> QED
    BY <2>1
<1>7. g[n + 1] = AmountOf(service, Bill[Len(events) + 1])
  BY <1>2
<1> HIDE DEF f, g, n, m
<1>8. SumTo(g, n + 1) = SumTo(f, n) + g[n + 1]
  BY <1>1, <1>3, SumAppended
<1>9. SumTo(g, n + 1) <= SumTo(g, m)
  BY <1>1, <1>2, <1>6, SumNat
<1> QED
  BY <1>4, <1>5, <1>7, <1>8, <1>9

(* A run on the demo provider whose cap is the suggested maximum never     *)
(* stops at its cap, whatever the input (LimitReachedError of              *)
(* UsageLedger.record, the stop at the cap in #execute).                   *)
THEOREM SuggestedMaximumIsEnough == Spec => []SuggestedMaximumSuffices
<1>1. BillInv /\ BudgetInv /\ SuggestedMaximumSuffices /\ [Next]_vars => SuggestedMaximumSuffices'
  <2> SUFFICES ASSUME BillInv, BudgetInv, SuggestedMaximumSuffices, [Next]_vars,
                      case'.provider = "demo", case'.cap >= PricingOf(service)'.suggested,
                      run' = "limit"
               PROVE  FALSE
    BY DEF SuggestedMaximumSuffices
  <2>1. UNCHANGED case
    BY DEF Next, Execute, Model, RecordBaseFee, BeginStep, Meter, EndStep, ServiceReturns, AskModel,
           ModelAnswers, ModelFails, TimesOut, LateAnswer, Cancel, WriteFails, vars
  <2>2. case.provider = "demo" /\ case.cap >= PricingOf(service).suggested
    BY <2>1 DEF service
  <2>3. TypeOK /\ case.cap \in Nat /\ service \in ServiceId /\ answer \in {<<>>, DemoUsage}
    BY <2>2, CapIsNatural DEF BillInv, WorkInv, BudgetInv
  <2>4. ASSUME Len(events) < Len(Bill), ~FitsCap(Bill[Len(events) + 1]) PROVE FALSE
    <3>1. Total + AmountOf(service, Bill[Len(events) + 1]) <= SumOf(Bill)
      BY <2>4, NextIsWithinTheBill
    <3>2. SumOf(Bill) <= PricingOf(service).suggested
      BY <2>3, SuggestedMaximumCoversTheBill
    <3>3. SumOf(Bill) \in Nat /\ Total \in Nat /\ PricingOf(service).suggested \in Nat
      <4>1. SumOf(Bill) \in Nat
        BY <2>3, BilledShape, PricesOfPieces, TypeFacts
      <4>2. Total \in Nat
        BY <2>3 DEF BudgetInv
      <4>3. PricingOf(service).suggested \in Nat
        BY <2>3, PricesAre DEF ServiceId
      <4> QED
        BY <4>1, <4>2, <4>3
    <3>4. AmountOf(service, Bill[Len(events) + 1]) \in Nat
      <4>1. Bill \in Seq(Piece) /\ Len(events) + 1 \in 1..Len(Bill) /\ JobOK(case.job)
        BY <2>3, <2>4, BilledShape, TypeFacts
      <4> QED
        BY <4>1, PricesOfPieces
    <3> QED
      BY <2>2, <2>3, <2>4, <3>1, <3>2, <3>3, <3>4 DEF FitsCap
  <2>5. run # "limit"
    BY <2>2 DEF SuggestedMaximumSuffices
  <2>6. CASE Meter
    <3>1. ~FitsCap(Head(work))
      BY <2>6, MeterOutcome
    <3>2. Len(events) < Len(Bill) /\ Head(work) = Bill[Len(events) + 1]
      BY <2>6, NextPiece DEF Meter
    <3> QED
      BY <2>4, <3>1, <3>2
  <2>7. CASE RecordBaseFee
    <3>1. events = <<>> /\ Capped(<<"base-fee">>, Metered("BASE_FEE", 1))
      BY <2>7 DEF RecordBaseFee, Record, BillInv, PlaceInv
    <3>2. Len(events) = 0 /\ ~FitsCap(Metered("BASE_FEE", 1))
      BY <3>1 DEF Capped
    <3>3. /\ Len(BillTo(0)) = 1 /\ BillTo(0)[1] = Metered("BASE_FEE", 1)
          /\ Len(BillTo(0)) \in 1..Len(Bill) /\ Bill[1] = BillTo(0)[1]
      BY <2>3, BillFacts
    <3>4. Len(events) < Len(Bill) /\ Bill[Len(events) + 1] = Metered("BASE_FEE", 1)
      BY <3>2, <3>3
    <3> QED
      BY <2>4, <3>2, <3>4
  <2> QED
    BY <2>5, <2>6, <2>7
       DEF Next, Execute, Model, BeginStep, EndStep, ServiceReturns, AskModel, ModelAnswers,
           ModelFails, TimesOut, LateAnswer, Cancel, WriteFails, vars
<1>2. Init => SuggestedMaximumSuffices
  BY DEF Init, SuggestedMaximumSuffices
<1> QED
  BY <1>1, <1>2, BudgetInvariant, PTL DEF Spec

(***************************************************************************)
(* The services as instances of the ones PaymentSession allows.            *)
(***************************************************************************)

(* What a step of the job can meter. *)
Usages(job) ==
  LET metered == (UNION {Range(Execution(job)[i].work) : i \in DOMAIN Execution(job)})
                   \ {ModelCall}
      tokens  == Answers \cup {DemoUsage}
  IN  metered \cup {Input(t[1]) : t \in tokens} \cup {Output(t[2]) : t \in tokens}

(* The work at hand is of the job's script or of an answer of its model. *)
SourceInv == \A i \in 1..Len(work) : work[i] = ModelCall \/ work[i] \in Usages(case.job)

LEMMA SourceStep == BillInv /\ SourceInv /\ [Next]_vars => SourceInv'
<1> SUFFICES ASSUME BillInv, SourceInv, [Next]_vars PROVE SourceInv'
  OBVIOUS
<1>1. TypeOK /\ PlaceInv /\ JobOK(case.job) /\ work \in Seq(Work)
  BY TypeFacts DEF BillInv, WorkInv
<1>2. CASE BeginStep
  <2>1. /\ steps # <<>> /\ work' = Head(steps).work /\ UNCHANGED case
        /\ steps \in Seq([id : StepId, work : Seq(Work)]) /\ Begun \in 0..3
    BY <1>1, <1>2, TypeFacts DEF BeginStep, PlaceInv
  <2>2. Len(steps) \in Nat /\ 1 \in 1..Len(steps) /\ Head(steps) = steps[1]
    BY <2>1
  <2> DEFINE k == Begun + 1
  <2>3. k \in 1..3
    <3>1. Begun = 3 - Len(steps)
      BY DEF Begun
    <3>2. Len(steps) \in Nat /\ Len(steps) >= 1 /\ Begun \in 0..3
      BY <2>1, <2>2
    <3>3. Begun \in 0..2
      BY <3>1, <3>2
    <3> QED
      BY <3>3
  <2>4. steps[1] = Script[k]
    BY <1>1, <2>2 DEF PlaceInv
  <2> HIDE DEF k
  <2>5. k \in DOMAIN Execution(case.job)
    <3>1. Execution(case.job) \in Seq([id : StepId, work : Seq(Work)]) /\ Len(Execution(case.job)) = 3
      BY <1>1, ScriptShape
    <3> QED
      BY <2>3, <3>1
  <2>6. work' = Execution(case.job)[k].work
    BY <2>1, <2>2, <2>4 DEF Script
  <2>7. work' \in Seq(Work)
    BY WorkStep DEF BillInv, WorkInv, TypeOK
  <2>8. ASSUME NEW i \in 1..Len(work'), work'[i] # ModelCall PROVE work'[i] \in Usages(case.job)
    <3>1. work'[i] \in Range(Execution(case.job)[k].work)
      BY <2>6, <2>7 DEF Range
    <3> DEFINE scripts == {Range(Execution(case.job)[j].work) : j \in DOMAIN Execution(case.job)}
    <3>2. Range(Execution(case.job)[k].work) \in scripts
      BY <2>5
    <3>3. scripts = {Range(Execution(case.job)[j].work) : j \in DOMAIN Execution(case.job)}
      OBVIOUS
    <3> HIDE DEF scripts
    <3>4. work'[i] \in (UNION scripts) \ {ModelCall}
      BY <2>8, <3>1, <3>2
    <3> QED
      BY <3>3, <3>4, Zenon DEF Usages
  <2> QED
    BY <2>1, <2>8 DEF SourceInv
<1>3. CASE Meter
  <2>1. work # <<>> /\ work' = Tail(work) /\ UNCHANGED case
    BY <1>3 DEF Meter, NextUsage
  <2>2. ASSUME NEW i \in 1..Len(work') PROVE i + 1 \in 1..Len(work) /\ work'[i] = work[i + 1]
    BY <1>1, <2>1
  <2> QED
    BY <2>1, <2>2 DEF SourceInv
<1>4. CASE ModelAnswers
  <2>1. PICK tokens \in Reports :
          work' = <<Input(tokens[1]), Output(tokens[2])>> \o Tail(work)
    BY <1>4 DEF ModelAnswers
  <2>2. UNCHANGED case /\ work = <<ModelCall>>
    BY <1>1, <1>4 DEF ModelAnswers, PlaceInv
  <2>3. tokens \in Answers \cup {DemoUsage} /\ tokens \in Nat \X Nat
    BY AnswerAssumption DEF Reports, DemoUsage
  <2>4. Input(tokens[1]) \in Usages(case.job) /\ Output(tokens[2]) \in Usages(case.job)
    BY <2>3 DEF Usages
  <2> DEFINE said == <<Input(tokens[1]), Output(tokens[2])>>
  <2>5. work' = said
    <3>1. Tail(work) = <<>>
      BY <2>2
    <3>2. said \in Seq(Piece)
      BY <2>3, PieceMembers
    <3> QED
      BY <2>1, <3>1, <3>2, ConcatEmptySeq
  <2>6. Len(work') = 2 /\ work'[1] = Input(tokens[1]) /\ work'[2] = Output(tokens[2])
    BY <2>5
  <2>7. \A i \in 1..2 : i = 1 \/ i = 2
    OBVIOUS
  <2> QED
    BY <2>2, <2>4, <2>6, <2>7 DEF SourceInv
<1>5. CASE RecordBaseFee \/ EndStep \/ ServiceReturns \/ AskModel \/ ModelFails \/ TimesOut
           \/ LateAnswer \/ Cancel \/ WriteFails \/ UNCHANGED vars
  <2>1. UNCHANGED <<case, work>>
    BY <1>5 DEF RecordBaseFee, EndStep, ServiceReturns, AskModel, ModelFails, TimesOut, LateAnswer,
                Cancel, WriteFails, vars
  <2> QED
    BY <2>1 DEF SourceInv
<1> QED
  BY <1>2, <1>3, <1>4, <1>5 DEF Next, Execute, Model

RunInv == BillInv /\ CompletedInv /\ BudgetInv /\ SourceInv

LEMMA RunInvariant == Spec => []RunInv
<1>1. Init => SourceInv
  <2>1. Init => Len(work) = 0
    BY DEF Init
  <2> QED
    BY <2>1 DEF SourceInv
<1> QED
  BY <1>1, SourceStep, CompletedInvariant, BudgetInvariant, PTL DEF Spec, RunInv

(* A record call is one of the session, or throws where a service may. *)
LEMMA SessionRecords ==
  ASSUME NEW job, case.job = job, RunInv,
         NEW key \in Key, ~Known(key), NEW usage, usage.type \in UsageType \ {"CREDIT"},
         usage.quantity \in Nat, NEW next \in Trying, Record(key, usage, next),
         run \in {"baseFee", "step"}, UNCHANGED <<case, status, completed, writeFailures>>
  PROVE  \/ Session(job)!RecordUsage("session", AmountOf(service, usage), next)
         \/ status = "ACTIVE" /\ ~Priceable(usage) /\ run' = "caught" /\ UNCHANGED Total
<1>1. TypeOK /\ Total \in Nat /\ case.cap \in Nat
  BY CapIsNatural DEF RunInv, BillInv, WorkInv, BudgetInv
<1> DEFINE price == AmountOf(service, usage)
           e == [key |-> key, type |-> usage.type, quantity |-> usage.quantity]
<1>2. price \in Nat
  BY <1>1, CapIsNatural, PiecePrice
<1>3. CASE status = "ACTIVE" /\ FitsCap(usage) /\ run' = next /\ e \in Event
            /\ events' = Append(events, e)
  <2>1. Total' = Total + price
    BY <1>1, <1>3, TotalGrows
  <2>2. Total + price <= case.cap /\ Total + price >= -0
    BY <1>1, <1>2, <1>3 DEF FitsCap
  <2> HIDE DEF price, e
  <2>3. Session(job)!RecordUsage("session", price, next)
    BY <1>3, <2>1, <2>2
       DEF Session!RecordUsage, Session!Meterable, Session!FitsCap, Session!Goto, Session!records,
           Session!environment
  <2> QED
    BY <2>3 DEF price
<1>4. CASE status = "ACTIVE" /\ ~FitsCap(usage) /\ run' = "limit" /\ UNCHANGED events
  <2>1. Total' = Total /\ ~(Total + price <= case.cap)
    BY <1>4 DEF FitsCap, Total, SumOf, service
  <2> HIDE DEF price, e
  <2>2. Session(job)!RecordUsage("session", price, next)
    BY <1>4, <2>1
       DEF Session!RecordUsage, Session!Meterable, Session!FitsCap, Session!Goto, Session!records,
           Session!environment
  <2> QED
    BY <2>2 DEF price
<1>5. CASE status # "ACTIVE" /\ run' = "caught" /\ UNCHANGED events
  <2>1. Total' = Total
    BY <1>5 DEF Total, SumOf, service
  <2>2. Session(job)!OnError(run) = "caught"
    BY DEF Session!OnError
  <2> HIDE DEF price, e
  <2>3. Session(job)!RecordUsage("session", price, next)
    BY <1>5, <2>1, <2>2
       DEF Session!RecordUsage, Session!Meterable, Session!Goto, Session!Throw, Session!records,
           Session!environment
  <2> QED
    BY <2>3 DEF price
<1>6. CASE status = "ACTIVE" /\ ~Priceable(usage) /\ run' = "caught" /\ UNCHANGED events
  BY <1>6 DEF Total, SumOf, service
<1>7. "limit" \notin Trying /\ "caught" \notin Trying
  BY DEF Trying
<1>8. \/ /\ status = "ACTIVE" /\ FitsCap(usage) /\ run' = next /\ e \in Event
         /\ events' = Append(events, e)
      \/ status = "ACTIVE" /\ ~FitsCap(usage) /\ run' = "limit" /\ UNCHANGED events
      \/ status # "ACTIVE" /\ run' = "caught" /\ UNCHANGED events
      \/ status = "ACTIVE" /\ ~Priceable(usage) /\ run' = "caught" /\ UNCHANGED events
  BY <1>7 DEF Record, Accepted, Capped, EventsAfter, AtCap, Priceable, Event
<1> QED
  BY <1>3, <1>4, <1>5, <1>6, <1>8

LEMMA SessionBaseFee ==
  ASSUME NEW job, case.job = job, RunInv, RecordBaseFee
  PROVE  Session(job)!RecordBaseFee("session")
<1> DEFINE fee == Metered("BASE_FEE", 1)
<1>1. /\ Record(<<"base-fee">>, fee, "work") /\ run = "baseFee" /\ events = <<>>
      /\ UNCHANGED <<case, status, completed, writeFailures>>
  BY DEF RecordBaseFee, control, RunInv, BillInv, PlaceInv
<1>2. fee.type \in UsageType \ {"CREDIT"} /\ fee.quantity = 1
  BY DEF Metered, UsageType
<1>3. <<"base-fee">> \in Key /\ ~Known(<<"base-fee">>) /\ "work" \in Trying
  BY <1>1 DEF Key, Known, Trying
<1>4. Priceable(fee)
  BY <1>2 DEF Priceable
<1> HIDE DEF fee
<1>5. Session(job)!RecordUsage("session", AmountOf(service, fee), "work")
  BY <1>1, <1>2, <1>3, <1>4, SessionRecords
<1>6. AmountOf(service, fee) = PricingOf(job.service).baseFee
  <2>1. AmountOf(service, fee) = PricingOf(service).baseFee * 1
    BY CostOf DEF fee
  <2>2. PricingOf(service).baseFee \in Nat
    BY CapIsNatural, PricesAre DEF ServiceId, RunInv, BillInv, WorkInv
  <2> QED
    BY <2>1, <2>2 DEF service
<1> QED
  BY <1>1, <1>5, <1>6 DEF Session!RecordBaseFee

(* Where the service or the provider throws. *)
LEMMA SessionThrows ==
  ASSUME NEW job, run = "step", run' = "caught",
         UNCHANGED <<case, status, Total, completed, writeFailures>>
  PROVE  Session(job)!ServiceThrows("session")
<1>1. Session(job)!OnError("step") = "caught"
  BY DEF Session!OnError
<1> QED
  BY <1>1
     DEF Session!ServiceThrows, Session!Throw, Session!Goto, Session!durable, Session!ledger,
         Session!records, Session!environment

LEMMA SessionMeters ==
  ASSUME NEW job, case.job = job, RunInv, Meter
  PROVE  Session(job)!Meter("session") \/ Session(job)!ServiceThrows("session")
<1> DEFINE usage == Head(work)
           key == <<activeStep, sequence>>
<1>1. /\ Record(key, usage, "step") /\ run = "step" /\ NextUsage
      /\ UNCHANGED <<case, status, completed, writeFailures>>
  BY DEF Meter, NextUsage, control
<1>2. key \in Key /\ ~Known(key) /\ "step" \in Trying
  BY <1>1, MeterKey DEF RunInv, BillInv, Trying
<1>3. usage \in Piece /\ usage = work[1] /\ 1 \in 1..Len(work) /\ usage # ModelCall
  <2>1. usage \in Piece /\ usage = work[1] /\ work \in Seq(Piece) /\ Len(work) >= 1
    BY <1>1, NextPiece DEF RunInv
  <2> QED
    BY <1>1, <2>1 DEF NextUsage
<1>4. usage.type \in UsageType \ {"CREDIT"} /\ usage.quantity \in Nat
  BY <1>3 DEF Piece
<1>5. AmountOf(service, usage) \in EventPrices(job)
  <2>1. usage \in Usages(job)
    BY <1>3 DEF RunInv, SourceInv
  <2>2. EventPrices(job) = {AmountOf(job.service, u) : u \in Usages(job)}
    BY DEF EventPrices, Usages
  <2> QED
    BY <2>1, <2>2 DEF service
<1> HIDE DEF usage, key
<1>6. CASE Session(job)!RecordUsage("session", AmountOf(service, usage), "step")
  <2>1. [s \in {"session"} |-> run]["session"] = "step"
    BY <1>1
  <2> QED
    BY <1>5, <1>6, <2>1 DEF Session!Meter
<1>7. CASE run' = "caught" /\ UNCHANGED Total
  BY <1>1, <1>7, SessionThrows
<1> QED
  BY <1>1, <1>2, <1>4, <1>6, <1>7, SessionRecords

LEMMA SessionSteps ==
  ASSUME NEW job, case.job = job, RunInv, BeginStep \/ EndStep \/ ServiceReturns
  PROVE  \/ Session(job)!BeginStep("session") \/ Session(job)!EndStep("session")
         \/ Session(job)!ServiceReturns("session")
<1>1. TypeOK /\ JobOK(job) /\ Len(Plan(job.service)) = 3
  BY TypeFacts, ScriptShape DEF RunInv, BillInv, WorkInv
<1>2. /\ Begun \in 0..3 /\ Begun = 3 - Len(steps) /\ Len(steps) \in Nat
      /\ completed \in Seq(StepId)
      /\ run = "work" => Len(completed) = Begun
  BY <1>1, TypeFacts DEF RunInv, BillInv, PlaceInv, Begun, CompletedInv, TypeOK
<1>3. ASSUME UNCHANGED <<case, events>> PROVE UNCHANGED Total
  BY <1>3 DEF Total, SumOf, service
<1>4. CASE BeginStep
  <2>1. /\ run = "work" /\ run' = "step" /\ steps # <<>>
        /\ UNCHANGED <<case, status, completed, events, writeFailures>>
    BY <1>4 DEF BeginStep
  <2>2. Len(completed) < 3
    <3>1. Len(steps) # 0
      BY <1>1, <2>1, TypeFacts
    <3> QED
      BY <1>2, <2>1, <3>1
  <2>3. Session(job)!BeginStep("session")
    BY <1>1, <1>3, <2>1, <2>2
       DEF Session!BeginStep, Session!Goto, Session!durable, Session!ledger, Session!records,
           Session!environment
  <2> QED
    BY <2>3
<1>5. CASE EndStep
  <2>1. /\ run = "step" /\ run' = "work" /\ completed' = Append(completed, activeStep)
        /\ UNCHANGED <<case, status, events, writeFailures>>
    BY <1>5 DEF EndStep, StepDone
  <2>2. Len(completed') = Len(completed) + 1
    <3>1. activeStep \in StepId
      BY <2>1 DEF RunInv, BillInv, WorkInv, KeysInv
    <3> QED
      BY <1>2, <2>1, <3>1
  <2>3. Session(job)!EndStep("session")
    BY <1>1, <1>3, <2>1, <2>2
       DEF Session!EndStep, Session!Goto, Session!records, Session!environment
  <2> QED
    BY <2>3
<1>6. CASE ServiceReturns
  <2>1. /\ run = "work" /\ run' = "setResult" /\ steps = <<>>
        /\ UNCHANGED <<case, status, completed, events, writeFailures>>
    BY <1>6 DEF ServiceReturns, control
  <2>2. Len(completed) = 3
    <3>1. Len(steps) = 0
      BY <2>1
    <3> QED
      BY <1>2, <2>1, <3>1
  <2>3. Session(job)!ServiceReturns("session")
    BY <1>1, <1>3, <2>1, <2>2
       DEF Session!ServiceReturns, Session!PlanDone, Session!Goto, Session!durable, Session!ledger,
           Session!records, Session!environment
  <2> QED
    BY <2>3
<1> QED
  BY <1>4, <1>5, <1>6

LEMMA SessionCancels ==
  ASSUME NEW job, Cancel
  PROVE  Session(job)!Cancel("session")
<1>1. /\ status = "ACTIVE" /\ status' = "CANCELLED"
      /\ UNCHANGED <<case, run, completed, events, writeFailures>>
  BY DEF Cancel, control
<1>2. UNCHANGED Total
  BY <1>1 DEF Total, SumOf, service
<1>3. Session(job)!CanTransition("ACTIVE", "CANCELLED")
  BY DEF Session!CanTransition, Session!Transitions
<1> QED
  BY <1>1, <1>2, <1>3
     DEF Session!Cancel, Session!ledger, Session!records, Session!process, Session!environment

LEMMA SessionWriteFails ==
  ASSUME NEW job, WriteFails
  PROVE  Session(job)!WriteFails("session")
<1>1. /\ run \in {"baseFee", "work", "step"} /\ run' = "caught" /\ writeFailures < MaxWriteFailures
      /\ writeFailures' = writeFailures + 1 /\ UNCHANGED <<case, status, completed, events>>
  BY DEF WriteFails, Writing, NextUsage, StepDone, control
<1>2. UNCHANGED Total
  BY <1>1 DEF Total, SumOf, service
<1>3. run \in Session(job)!Writing /\ Session(job)!OnError(run) = "caught"
  BY <1>1 DEF Session!Writing, Session!RunStep, Session!OnError
<1> QED
  BY <1>1, <1>2, <1>3
     DEF Session!WriteFails, Session!Throw, Session!Goto, Session!durable, Session!ledger,
         Session!records

(* Every step of a service of the registry is one PaymentSession allows:   *)
(* what is proved there of any service holds of these (execute of the      *)
(* three services, #execute, generateStructured), for every job.           *)
THEOREM ServicesAreInstances == Spec => ImplementsSession
<1>1. RunInv /\ [Next]_vars =>
        [\A job \in Jobs : case.job = job =>
           \/ Session(job)!Service("session")
           \/ Session(job)!Cancel("session")
           \/ Session(job)!WriteFails("session")]_<<status, run, Total, completed, writeFailures>>
  <2> SUFFICES ASSUME RunInv, [Next]_vars, NEW job, case.job = job,
                      ~ UNCHANGED <<status, run, Total, completed, writeFailures>>
               PROVE  \/ Session(job)!Service("session")
                      \/ Session(job)!Cancel("session")
                      \/ Session(job)!WriteFails("session")
    OBVIOUS
  <2>1. CASE RecordBaseFee
    BY <2>1, SessionBaseFee DEF Session!Service
  <2>2. CASE Meter
    BY <2>2, SessionMeters DEF Session!Service
  <2>3. CASE BeginStep \/ EndStep \/ ServiceReturns
    BY <2>3, SessionSteps DEF Session!Service
  <2>4. CASE ModelFails \/ TimesOut
    <3>1. /\ run = "step" /\ run' = "caught"
          /\ UNCHANGED <<case, status, events, completed, writeFailures>>
      BY <2>4 DEF ModelFails, TimesOut, RunInv, BillInv, WorkInv, AskedInv
    <3>2. UNCHANGED Total
      BY <3>1 DEF Total, SumOf, service
    <3> QED
      BY <3>1, <3>2, SessionThrows DEF Session!Service
  <2>5. CASE AskModel \/ ModelAnswers \/ LateAnswer \/ UNCHANGED vars
    <3>1. UNCHANGED <<case, status, run, events, completed, writeFailures>>
      BY <2>5 DEF AskModel, ModelAnswers, LateAnswer, vars
    <3>2. UNCHANGED Total
      BY <3>1 DEF Total, SumOf, service
    <3> QED
      BY <3>1, <3>2
  <2>6. CASE Cancel
    BY <2>6, SessionCancels
  <2>7. CASE WriteFails
    BY <2>7, SessionWriteFails
  <2> QED
    BY <2>1, <2>2, <2>3, <2>4, <2>5, <2>6, <2>7 DEF Next, Execute, Model
<1> QED
  BY <1>1, RunInvariant, PTL DEF Spec, ImplementsSession
=============================================================================
