------------------------ MODULE ServiceRun_proofs --------------------------
(***************************************************************************)
(* Proofs about the work of a run, for every job, every cap, any token     *)
(* counts a model reports and any number of failed writes, and about the   *)
(* texts its amounts are told in.                                          *)
(***************************************************************************)
EXTENDS ServiceRun, SequenceTheorems, TLAPS

Step == [id : StepId, work : Seq(Work)]
Event == [key : Key, type : UsageType, quantity : Nat \ {0}]

(* The keys of the ledger are older than the next one, and a step has an   *)
(* id of its own.                                                          *)
KeysInv ==
  /\ \A i \in DOMAIN events, id \in StepId \cup {"startup"}, n \in Nat :
       events[i].key = <<id, n>> => n < sequence
  /\ run = "step" => activeStep \in StepId

(* A model call is the work at hand of the step that waits for it. *)
AskedInv == call = "asked" => run = "step" /\ work # <<>>

WorkInv == TypeOK /\ KeysInv /\ AskedInv
-----------------------------------------------------------------------------
(* The scripts of the services. *)

LEMMA WorkMembers ==
  /\ ModelCall \in Work
  /\ \A type \in UsageType, quantity \in Nat : Metered(type, quantity) \in Work
  /\ \A n \in Nat : Input(n) \in Work /\ Output(n) \in Work
<1>1. \A type \in UsageType, quantity \in Nat : Metered(type, quantity) \in Work
  BY DEF Work, Metered
<1>2. {"LLM_INPUT_TOKENS", "LLM_OUTPUT_TOKENS"} \subseteq UsageType
  BY DEF UsageType, CommonRates
<1> QED
  BY <1>1, <1>2 DEF Work, Input, Output

LEMMA ExecutionType ==
  ASSUME NEW job, JobOK(job)
  PROVE  Execution(job) \in Seq(Step)
<1> DEFINE seconds == AtLeast(HalfUp(job.pages), 2)
           cost == IF job.priority = "fast" THEN 75000 ELSE 55000
<1>1. job.pages \in Nat /\ seconds \in Nat /\ cost \in Nat
  <2>1. job.pages \in 1..100
    BY DEF JobOK
  <2>2. HalfUp(job.pages) = (job.pages + 1) \div 2
    BY <2>1 DEF HalfUp, CeilDiv, TruncDiv
  <2> QED
    BY <2>1, <2>2 DEF AtLeast
<1> HIDE DEF seconds, cost
<1>2. \A id \in StepId, w \in Seq(Work) : StepOf(id, w) \in Step
  BY DEF StepOf, Step
<1>3. SupplierResearch(job) \in Seq(Step)
  <2> DEFINE scope == <<Metered("EXTERNAL_API_COST", 40000), Input(5400), Output(620)>>
             verify == <<Metered("EXTERNAL_API_COST", cost), Metered("COMPUTE_SECONDS", 18)>>
             synthesize == <<ModelCall>>
  <2>1. scope \in Seq(Work)
    BY WorkMembers DEF UsageType, CommonRates
  <2>2. verify \in Seq(Work)
    BY <1>1, WorkMembers DEF UsageType, CommonRates
  <2>3. synthesize \in Seq(Work)
    BY WorkMembers
  <2>4. SupplierResearch(job) =
          <<StepOf("scope", scope), StepOf("verify", verify), StepOf("synthesize", synthesize)>>
    BY DEF SupplierResearch, cost
  <2> HIDE DEF scope, verify, synthesize
  <2> QED
    BY <1>2, <2>1, <2>2, <2>3, <2>4 DEF StepId
<1>4. DocumentAnalysis(job) \in Seq(Step)
  <2> DEFINE extract == <<Metered("DOCUMENT_PAGE", job.pages), Metered("COMPUTE_SECONDS", seconds)>>
             review == <<Input(1000 + 650 * job.pages), Output(900)>>
             brief == <<Output(650)>>
  <2>1. extract \in Seq(Work)
    BY <1>1, WorkMembers DEF UsageType, CommonRates
  <2>2. review \in Seq(Work)
    <3>1. 1000 + 650 * job.pages \in Nat
      BY <1>1
    <3> QED
      BY <3>1, WorkMembers
  <2>3. brief \in Seq(Work)
    BY WorkMembers
  <2>4. DocumentAnalysis(job) =
          <<StepOf("extract", extract), StepOf("review", review), StepOf("brief", brief)>>
    BY DEF DocumentAnalysis, seconds
  <2> HIDE DEF extract, review, brief
  <2> QED
    BY <1>2, <2>1, <2>2, <2>3, <2>4 DEF StepId
<1>5. CampaignConcept \in Seq(Step)
  <2> DEFINE strategy == <<Input(4200), Output(1100)>>
             directions == <<Metered("IMAGE_GENERATION", 2)>>
             package == <<Output(1350), Metered("COMPUTE_SECONDS", 12)>>
  <2>1. strategy \in Seq(Work)
    BY WorkMembers
  <2>2. directions \in Seq(Work)
    BY WorkMembers DEF UsageType, CommonRates
  <2>3. package \in Seq(Work)
    BY WorkMembers DEF UsageType, CommonRates
  <2>4. CampaignConcept =
          <<StepOf("strategy", strategy), StepOf("directions", directions),
            StepOf("package", package)>>
    BY DEF CampaignConcept
  <2> HIDE DEF strategy, directions, package
  <2> QED
    BY <1>2, <2>1, <2>2, <2>3, <2>4 DEF StepId
<1> QED
  BY <1>3, <1>4, <1>5 DEF Execution, JobOK, ServiceId
-----------------------------------------------------------------------------
(* The invariant. *)

LEMMA WorkFields ==
  ASSUME NEW u \in Work, u # ModelCall
  PROVE  u.type \in UsageType /\ u.quantity \in Nat
BY DEF Work

(* A record call adds one event under a new key, or none. *)
LEMMA RecordEffect ==
  ASSUME events \in Seq(Event), NEW key \in Key, NEW usage, NEW next,
         usage.type \in UsageType, usage.quantity \in Nat, Record(key, usage, next)
  PROVE  /\ run' \in {next, "limit", "caught"}
         /\ events' \in Seq(Event)
         /\ \/ events' = events
            \/ /\ \A i \in DOMAIN events : events[i].key # key
               /\ events' = Append(events, [key |-> key, type |-> usage.type,
                                            quantity |-> usage.quantity])
<1>1. CASE UNCHANGED events
  BY <1>1 DEF Record, AtCap
<1>2. CASE Accepted(key, usage) /\ ~Known(key) /\ events' = EventsAfter(key, usage) /\ run' = next
  <2>1. usage.quantity \in Nat \ {0}
    BY <1>2 DEF Accepted, Priceable
  <2>2. [key |-> key, type |-> usage.type, quantity |-> usage.quantity] \in Event
    BY <2>1 DEF Event
  <2> QED
    BY <1>2, <2>2 DEF EventsAfter, Known
<1> QED
  BY <1>1, <1>2 DEF Record, EventsAfter

LEMMA AppendedEvent ==
  ASSUME NEW seq \in Seq(Event), NEW e \in Event
  PROVE  /\ Len(Append(seq, e)) = Len(seq) + 1
         /\ DOMAIN Append(seq, e) = DOMAIN seq \cup {Len(seq) + 1}
         /\ \A i \in DOMAIN seq : Append(seq, e)[i] = seq[i]
         /\ Append(seq, e)[Len(seq) + 1] = e
OBVIOUS

LEMMA WorkInit == Init => WorkInv
<1> SUFFICES ASSUME Init PROVE WorkInv
  OBVIOUS
<1>1. JobOK(case.job) /\ case \in Cases
  BY CaseAssumption DEF Init
<1>2. Execution(case.job) \in Seq([id : StepId, work : Seq(Work)])
  BY <1>1, ExecutionType DEF Step
<1> QED
  BY <1>1, <1>2 DEF Init, WorkInv, TypeOK, KeysInv, AskedInv, Trying, Exits

(* The next key of a step is new, and what is added under it keeps the     *)
(* keys older than the number after it.                                    *)
LEMMA MeterKey ==
  ASSUME WorkInv, run = "step"
  PROVE  /\ <<activeStep, sequence>> \in Key
         /\ ~Known(<<activeStep, sequence>>)
<1>1. activeStep \in StepId /\ sequence \in Nat
  BY DEF WorkInv, TypeOK, KeysInv
<1>2. ASSUME NEW i \in DOMAIN events, events[i].key = <<activeStep, sequence>> PROVE FALSE
  <2>1. sequence < sequence
    BY <1>1, <1>2 DEF WorkInv, KeysInv
  <2> QED
    BY <1>1, <2>1
<1> QED
  BY <1>1, <1>2 DEF Key, Known

LEMMA MeterEffect ==
  ASSUME WorkInv, Meter
  PROVE  /\ Head(work) \in Work /\ Tail(work) \in Seq(Work)
         /\ Head(work).type \in UsageType /\ Head(work).quantity \in Nat
         /\ run' \in {"step", "limit", "caught"}
         /\ events' \in Seq(Event)
         /\ \/ events' = events
            \/ events' = Append(events, [key |-> <<activeStep, sequence>>,
                                         type |-> Head(work).type,
                                         quantity |-> Head(work).quantity])
<1>1. work \in Seq(Work) /\ work # <<>> /\ Head(work) # ModelCall /\ run = "step"
  BY DEF WorkInv, TypeOK, Meter, NextUsage
<1>2. Head(work) \in Work /\ Tail(work) \in Seq(Work)
  BY <1>1
<1>3. Head(work).type \in UsageType /\ Head(work).quantity \in Nat
  BY <1>1, <1>2, WorkFields
<1>4. events \in Seq(Event)
  BY DEF WorkInv, TypeOK, Event
<1>5. <<activeStep, sequence>> \in Key
  BY <1>1, MeterKey
<1>6. Record(<<activeStep, sequence>>, Head(work), "step")
  BY DEF Meter
<1> QED
  BY <1>2, <1>3, <1>4, <1>5, <1>6, RecordEffect

LEMMA WorkStep == WorkInv /\ [Next]_vars => WorkInv'
<1> SUFFICES ASSUME WorkInv, [Next]_vars PROVE WorkInv'
  OBVIOUS
<1> USE DEF WorkInv
<1>e. events \in Seq(Event)
  BY DEF TypeOK, Event
<1>1. CASE RecordBaseFee
  <2>1. /\ Record(<<"base-fee">>, Metered("BASE_FEE", 1), "work") /\ run = "baseFee"
        /\ UNCHANGED <<case, status, work, sequence, writeFailures>>
        /\ UNCHANGED <<steps, activeStep, completed, call, answer>>
    BY <1>1 DEF RecordBaseFee, control
  <2>2. /\ <<"base-fee">> \in Key
        /\ Metered("BASE_FEE", 1).type \in UsageType /\ Metered("BASE_FEE", 1).quantity \in Nat
    BY DEF Key, Metered, UsageType
  <2> DEFINE e == [key |-> <<"base-fee">>, type |-> Metered("BASE_FEE", 1).type,
                   quantity |-> Metered("BASE_FEE", 1).quantity]
  <2>3. /\ run' \in {"work", "limit", "caught"} /\ events' \in Seq(Event)
        /\ events' = events \/ events' = Append(events, e)
    BY <2>1, <2>2, <1>e, RecordEffect
  <2>4. TypeOK'
    BY <2>1, <2>3 DEF TypeOK, Event, Trying, Exits
  <2>5. ASSUME NEW i \in DOMAIN events', NEW id \in StepId \cup {"startup"}, NEW n \in Nat,
               events'[i].key = <<id, n>>
        PROVE  n < sequence'
    <3>1. e \in Event
      BY <2>2 DEF Event, Metered
    <3>2. e.key # <<id, n>>
      OBVIOUS
    <3> HIDE DEF e
    <3>3. i \in DOMAIN events /\ events'[i] = events[i]
      BY <3>1, <3>2, <2>3, <2>5, <1>e, AppendedEvent
    <3> QED
      BY <3>3, <2>1, <2>5 DEF KeysInv
  <2> QED
    BY <2>1, <2>3, <2>4, <2>5 DEF KeysInv, AskedInv
<1>2. CASE Meter
  <2>1. /\ UNCHANGED <<case, status, writeFailures>>
        /\ UNCHANGED <<steps, activeStep, completed, call, answer>>
        /\ work' = Tail(work) /\ sequence' = sequence + 1 /\ run = "step"
    BY <1>2 DEF Meter, NextUsage, SequenceAfter, control
  <2> DEFINE e == [key |-> <<activeStep, sequence>>, type |-> Head(work).type,
                   quantity |-> Head(work).quantity]
  <2>2. /\ run' \in {"step", "limit", "caught"} /\ events' \in Seq(Event)
        /\ events' = events \/ events' = Append(events, e)
        /\ Tail(work) \in Seq(Work)
    BY <1>2, MeterEffect
  <2>3. TypeOK'
    BY <2>1, <2>2 DEF TypeOK, Event, Trying, Exits
  <2>4. ASSUME NEW i \in DOMAIN events', NEW id \in StepId \cup {"startup"}, NEW n \in Nat,
               events'[i].key = <<id, n>>
        PROVE  n < sequence'
    <3>1. sequence \in Nat
      BY DEF TypeOK
    <3>2. CASE i \in DOMAIN events /\ events'[i] = events[i]
      BY <3>1, <3>2, <2>1, <2>4 DEF KeysInv
    <3>3. CASE events'[i].key = <<activeStep, sequence>>
      BY <3>1, <3>3, <2>1, <2>4
    <3>4. e.key = <<activeStep, sequence>>
      OBVIOUS
    <3> HIDE DEF e
    <3>5. CASE events' = Append(events, e)
      <4>1. Len(events) \in Nat /\ DOMAIN events = 1..Len(events)
        BY <1>e
      <4>2. i \in 1..Len(events) + 1
        BY <3>5, <4>1, <1>e
      <4>3. CASE i = Len(events) + 1
        BY <4>1, <4>3, <3>5, <3>4, <3>3, <1>e
      <4>4. CASE i \in 1..Len(events)
        BY <4>1, <4>4, <3>5, <3>2, <1>e
      <4> QED
        BY <4>1, <4>2, <4>3, <4>4
    <3> QED
      BY <3>2, <3>5, <2>2, <2>4
  <2> QED
    BY <1>2, <2>1, <2>3, <2>4 DEF KeysInv, AskedInv, Meter, NextUsage
<1>3. CASE BeginStep
  <2>1. steps \in Seq(Step) /\ steps # <<>>
    BY <1>3 DEF BeginStep, TypeOK, Step
  <2>2. Head(steps) \in Step /\ Tail(steps) \in Seq(Step)
    BY <2>1
  <2>3. Head(steps).id \in StepId /\ Head(steps).work \in Seq(Work)
    BY <2>2 DEF Step
  <2>4. TypeOK'
    BY <1>3, <2>2, <2>3 DEF BeginStep, TypeOK, Step, Trying, Exits
  <2> QED
    BY <1>3, <2>3, <2>4 DEF BeginStep, KeysInv, AskedInv
<1>4. CASE EndStep
  <2>1. activeStep \in StepId
    BY <1>4 DEF EndStep, StepDone, KeysInv
  <2>2. TypeOK'
    <3>1. Append(completed, activeStep) \in Seq(StepId)
      BY <2>1 DEF TypeOK
    <3> QED
      BY <1>4, <3>1 DEF EndStep, TypeOK, Trying, Exits
  <2> QED
    BY <1>4, <2>2 DEF EndStep, StepDone, KeysInv, AskedInv
<1>5. CASE ServiceReturns \/ Cancel \/ WriteFails
  <2>1. TypeOK'
    BY <1>5 DEF ServiceReturns, Cancel, WriteFails, TypeOK, Trying, Exits, control
  <2> QED
    BY <1>5, <2>1 DEF ServiceReturns, Cancel, WriteFails, Writing, NextUsage, StepDone, Trying,
                      KeysInv, AskedInv, control
<1>6. CASE AskModel \/ ModelFails \/ TimesOut \/ LateAnswer
  <2>1. TypeOK'
    BY <1>6 DEF AskModel, ModelFails, TimesOut, LateAnswer, TypeOK, Trying, Exits
  <2> QED
    BY <1>6, <2>1 DEF AskModel, ModelFails, TimesOut, LateAnswer, KeysInv, AskedInv
<1>7. CASE ModelAnswers
  <2>1. PICK tokens \in Reports :
          answer' = tokens /\ work' = <<Input(tokens[1]), Output(tokens[2])>> \o Tail(work)
    BY <1>7 DEF ModelAnswers
  <2>2. tokens \in Nat \X Nat /\ tokens \in {<<>>, DemoUsage} \cup Answers
    BY AnswerAssumption DEF Reports, DemoUsage
  <2>3. <<Input(tokens[1]), Output(tokens[2])>> \in Seq(Work)
    BY <2>2, WorkMembers
  <2>4. Tail(work) \in Seq(Work)
    <3>1. work \in Seq(Work) /\ work # <<>>
      BY <1>7 DEF ModelAnswers, TypeOK, AskedInv
    <3> QED
      BY <3>1
  <2>5. work' \in Seq(Work)
    BY <2>1, <2>3, <2>4
  <2>6. TypeOK'
    BY <1>7, <2>1, <2>2, <2>5 DEF ModelAnswers, TypeOK
  <2> QED
    BY <1>7, <2>6 DEF ModelAnswers, KeysInv, AskedInv
<1>8. CASE UNCHANGED vars
  <2>1. TypeOK'
    BY <1>8 DEF vars, TypeOK
  <2> QED
    BY <1>8, <2>1 DEF vars, KeysInv, AskedInv
<1> QED
  BY <1>1, <1>2, <1>3, <1>4, <1>5, <1>6, <1>7, <1>8 DEF Next, Execute, Model

LEMMA WorkInvariant == Spec => []WorkInv
  BY WorkInit, WorkStep, PTL DEF Spec
-----------------------------------------------------------------------------
(* Every variable of a run keeps its type: a session is billed whole       *)
(* quantities, none of them empty, under the keys of its steps.            *)
THEOREM WorkTypeCorrect == Spec => []TypeOK
<1>1. WorkInv => TypeOK
  BY DEF WorkInv
<1> QED
  BY <1>1, WorkInvariant, PTL

(* Usage that lets a run go on is on its ledger, whatever was billed       *)
(* before: the keys of context.meter never repeat within a session.        *)
THEOREM UsageIsOnTheLedger == Spec => UsageIsBilled
<1>1. WorkInv /\ [Next]_vars =>
        [Meter /\ run' = "step" =>
           Len(events') = Len(events) + 1 /\ Usage(Last(events')) = Head(work)]_vars
  <2> SUFFICES ASSUME WorkInv, Meter, run' = "step"
               PROVE  Len(events') = Len(events) + 1 /\ Usage(Last(events')) = Head(work)
    OBVIOUS
  <2> DEFINE e == [key |-> <<activeStep, sequence>>, type |-> Head(work).type,
                   quantity |-> Head(work).quantity]
  <2>1. /\ events \in Seq(Event)
        /\ ~Known(<<activeStep, sequence>>) /\ <<activeStep, sequence>> \in Key
        /\ Record(<<activeStep, sequence>>, Head(work), "step")
    BY MeterKey DEF WorkInv, TypeOK, Event, Meter, NextUsage
  <2>2. Accepted(<<activeStep, sequence>>, Head(work)) /\ events' = Append(events, e)
    BY <2>1 DEF Record, AtCap, EventsAfter
  <2>3. e \in Event
    BY <2>1, <2>2, MeterEffect DEF Accepted, Priceable, Event
  <2>4. Len(events') = Len(events) + 1 /\ events'[Len(events')] = e
    BY <2>1, <2>2, <2>3, AppendedEvent
  <2>5. Usage(e) = Head(work)
    <3>1. Head(work) \in Work /\ Head(work) # ModelCall
      BY MeterEffect DEF Meter, NextUsage
    <3> QED
      BY <3>1 DEF Work, Usage, Metered
  <2> QED
    BY <2>4, <2>5 DEF Last
<1> QED
  BY <1>1, WorkInvariant, PTL DEF Spec, UsageIsBilled
-----------------------------------------------------------------------------
(* Amounts as text. *)

(* An amount is the sum of its digits. *)
LEMMA DigitsAddUp ==
  ASSUME NEW n \in Nat, n < Scale
  PROVE  /\ DigitsOf(n) \in Seq(Digit) /\ Len(DigitsOf(n)) = 6
         /\ n = DigitsOf(n)[1] * 100000 + DigitsOf(n)[2] * 10000 + DigitsOf(n)[3] * 1000
                + DigitsOf(n)[4] * 100 + DigitsOf(n)[5] * 10 + DigitsOf(n)[6]
<1>1. /\ DigitsOf(n)[1] = (n \div 100000) % 10 /\ DigitsOf(n)[2] = (n \div 10000) % 10
      /\ DigitsOf(n)[3] = (n \div 1000) % 10 /\ DigitsOf(n)[4] = (n \div 100) % 10
      /\ DigitsOf(n)[5] = (n \div 10) % 10 /\ DigitsOf(n)[6] = n % 10
  BY DEF DigitsOf, Place
<1>2. \A i \in 1..6 : DigitsOf(n)[i] \in Digit
  BY <1>1 DEF Digit
<1>3. DigitsOf(n) \in Seq(Digit) /\ Len(DigitsOf(n)) = 6
  BY <1>2 DEF DigitsOf
<1>4. /\ n = 10 * (n \div 10) + (n % 10)
      /\ n \div 10 = 10 * (n \div 100) + ((n \div 10) % 10)
      /\ n \div 100 = 10 * (n \div 1000) + ((n \div 100) % 10)
      /\ n \div 1000 = 10 * (n \div 10000) + ((n \div 1000) % 10)
      /\ n \div 10000 = 10 * (n \div 100000) + ((n \div 10000) % 10)
  OBVIOUS
<1>5. n \div 100000 = (n \div 100000) % 10
  <2>1. n \div 100000 \in 0..9
    BY DEF Scale
  <2> QED
    BY <2>1
<1> QED
  BY <1>1, <1>3, <1>4, <1>5

(* A text with all of its digits is worth what they are worth. *)
LEMMA ReadDigits ==
  ASSUME NEW w \in Nat, NEW d \in Seq(Digit), Len(d) = 6
  PROVE  /\ Readable(Usdc(w, d))
         /\ parseUsdc(Usdc(w, d)) = w * Scale + (d[1] * 100000 + d[2] * 10000 + d[3] * 1000
                                                 + d[4] * 100 + d[5] * 10 + d[6])
<1>1. Readable(Usdc(w, d))
  <2>1. Len(d) <= 6
    OBVIOUS
  <2> QED
    BY <2>1 DEF Readable, Usdc
<1>2. parseUsdc(Usdc(w, d)) =
        w * Scale + (DigitAt(d, 1) * 100000 + DigitAt(d, 2) * 10000 + DigitAt(d, 3) * 1000
                     + DigitAt(d, 4) * 100 + DigitAt(d, 5) * 10 + DigitAt(d, 6) * 1)
  BY DEF parseUsdc, Place, Usdc
<1>3. /\ DigitAt(d, 1) = d[1] /\ DigitAt(d, 2) = d[2] /\ DigitAt(d, 3) = d[3]
      /\ DigitAt(d, 4) = d[4] /\ DigitAt(d, 5) = d[5] /\ DigitAt(d, 6) = d[6]
  BY DEF DigitAt
<1>4. d[6] * 1 = d[6]
  <2>1. d[6] \in Digit
    <3>1. 6 \in 1..Len(d)
      OBVIOUS
    <3> QED
      BY <3>1, ElementOfSeq
  <2> QED
    BY <2>1 DEF Digit
<1> QED
  BY <1>1, <1>2, <1>3, <1>4

(* What formatUsdc writes of an amount parseUsdc reads as that amount, so   *)
(* no padding of its digits is lost, whatever the amount.                  *)
THEOREM AmountsReadBack ==
  ASSUME NEW n \in Nat
  PROVE  Readable(formatUsdc(n)) /\ parseUsdc(formatUsdc(n)) = n
<1>1. /\ n % Scale \in Nat /\ n % Scale < Scale /\ n \div Scale \in Nat
      /\ n = (n \div Scale) * Scale + (n % Scale)
  BY DEF Scale
<1>2. formatUsdc(n) = Usdc(n \div Scale, DigitsOf(n % Scale))
  <2>1. Absolute(n) = n /\ Sign(n) = ""
    BY DEF Absolute, Sign
  <2> QED
    BY <2>1 DEF formatUsdc, Usdc
<1> QED
  BY <1>1, <1>2, DigitsAddUp, ReadDigits

(* parseUsdc pads the digits that are not written: a cap of "0.5" USDC is   *)
(* one of "0.50".                                                          *)
THEOREM ZerosAtTheEnd ==
  ASSUME NEW whole \in Nat, NEW fraction \in Seq(Digit), Len(fraction) < 6
  PROVE  parseUsdc(Usdc(whole, Append(fraction, 0))) = parseUsdc(Usdc(whole, fraction))
<1>1. \A i \in 1..6 : DigitAt(Append(fraction, 0), i) = DigitAt(fraction, i)
  BY DEF DigitAt
<1> QED
  BY <1>1 DEF parseUsdc, Usdc
=============================================================================
