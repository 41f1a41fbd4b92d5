----------------------------- MODULE ServiceRun -----------------------------
(***************************************************************************)
(* The work of a run: the try block of ServiceOrchestrator.#execute with   *)
(* the services of the registry (module Services), the ledger and the AI   *)
(* provider.  It starts ACTIVE with the base fee and ends where            *)
(* PaymentSession goes on: with the result to store ("setResult"), at the  *)
(* cap ("limit") or in the catch of a failed service ("caught").           *)
(*                                                                         *)
(* PaymentSession lets a service meter anything; here a service meters     *)
(* what its code meters, and ImplementsSession says the one is an instance *)
(* of the other.                                                           *)
(***************************************************************************)
EXTENDS Services, Sums, SequencesExt

CONSTANTS
  Cases,            \* what may be run: [job, cap, provider]
  Answers,          \* token counts a remote model reports: <<input, output>>
  MaxWriteFailures  \* bound: transactions whose file write fails

ASSUME CaseAssumption ==
  \A c \in Cases :
    /\ JobOK(c.job)
    /\ c.cap \in PricingOf(c.job.service).minimum..PricingOf(c.job.service).maximum
    /\ c.provider \in {"demo", "remote"}
ASSUME AnswerAssumption == Answers \subseteq Nat \X Nat
ASSUME FailureAssumption == MaxWriteFailures \in Nat

VARIABLES
  case,        \* the session's validated input, its cap, and the provider
  status,      \* of the session: ACTIVE until somebody cancels
  run,         \* next await, named as in PaymentSession
  steps,       \* calls of context.step ahead
  work,        \* what the work of the current step still does
  activeStep, sequence,   \* locals of #execute; the parts of a key
  completed,   \* execution.completedSteps
  events,      \* usageEvents of the session
  call,        \* the model call: "none", "asked", or "late" after its timeout
  answer,      \* history: the tokens reported in time; <<>> before
  writeFailures

control == <<steps, activeStep, completed, call, answer>>
vars == <<case, status, run, steps, work, activeStep, sequence, completed, events, call,
          answer, writeFailures>>

Trying == {"baseFee", "work", "step"}
Exits == {"setResult", "limit", "caught"}

service == case.job.service

(* The sum of the amounts of a sequence of events. *)
SumOf(list) == SumTo([i \in DOMAIN list |-> AmountOf(service, list[i])], Len(list))

Total == SumOf(events)

(* What toPublic of the session and budget.updated tell. *)
currentChargeUsdc == formatUsdc(Total)
remainingAuthorizationUsdc == formatUsdc(case.cap - Total)

Init ==
  /\ case \in Cases
  /\ status = "ACTIVE" /\ run = "baseFee"
  /\ steps = Execution(case.job) /\ work = <<>>
  /\ activeStep = "startup" /\ sequence = 0
  /\ completed = <<>> /\ events = <<>>
  /\ call = "none" /\ answer = <<>>
  /\ writeFailures = 0
-----------------------------------------------------------------------------
(* The ledger. *)

Known(key) == \E i \in DOMAIN events : events[i].key = key

(* Faulty variant: an empty quantity is stored like any other. *)
PriceableZero(usage) == usage.quantity >= 0

(* calculateEvent refuses an empty quantity. *)
Priceable(usage) == usage.quantity > 0

(* Faulty variant: the cap is compared with what is already billed. *)
FitsCapBefore(usage) == Total <= case.cap

FitsCap(usage) == Total + AmountOf(service, usage) <= case.cap

Accepted(key, usage) == Known(key) \/ (Priceable(usage) /\ FitsCap(usage))
Capped(key, usage) == ~Known(key) /\ Priceable(usage) /\ ~FitsCap(usage)

(* UsageLedger.record: a known key is answered with its event. *)
EventsAfter(key, usage) ==
  IF Known(key) THEN events
  ELSE Append(events, [key |-> key, type |-> usage.type, quantity |-> usage.quantity])

(* Faulty variant: the step goes on without what did not fit. *)
AtCapGoesOn == "step"

(* Where LimitReachedError leads. *)
AtCap == "limit"

Record(key, usage, next) ==
  \/ /\ status = "ACTIVE" /\ Accepted(key, usage)
     /\ events' = EventsAfter(key, usage)
     /\ run' = next
  \/ /\ status = "ACTIVE" /\ Capped(key, usage)
     /\ run' = AtCap
     /\ UNCHANGED events
  \/ /\ status = "ACTIVE" => ~Known(key) /\ ~Priceable(usage)
     /\ run' = "caught"
     /\ UNCHANGED events
-----------------------------------------------------------------------------
(* The run. *)

RecordBaseFee ==
  /\ run = "baseFee"
  /\ Record(<<"base-fee">>, Metered("BASE_FEE", 1), "work")
  /\ UNCHANGED <<case, status, work, sequence, control, writeFailures>>

(* context.step up to its work. *)
BeginStep ==
  /\ run = "work" /\ steps # <<>>
  /\ activeStep' = Head(steps).id
  /\ work' = Head(steps).work
  /\ steps' = Tail(steps)
  /\ run' = "step"
  /\ UNCHANGED <<case, status, sequence, completed, events, call, answer, writeFailures>>

NextUsage == run = "step" /\ call = "none" /\ work # <<>> /\ Head(work) # ModelCall

(* Faulty variant: the sequence number is not counted up, so the next      *)
(* usage of the step has a key that is known.                              *)
SequenceAfterSame(n) == n

SequenceAfter(n) == n + 1

(* context.meter. *)
Meter ==
  /\ NextUsage
  /\ Record(<<activeStep, sequence>>, Head(work), "step")
  /\ sequence' = SequenceAfter(sequence)
  /\ work' = Tail(work)
  /\ UNCHANGED <<case, status, control, writeFailures>>

StepDone == run = "step" /\ call = "none" /\ work = <<>>

EndStep ==
  /\ StepDone
  /\ completed' = Append(completed, activeStep)
  /\ run' = "work"
  /\ UNCHANGED <<case, status, steps, work, activeStep, sequence, events, call, answer,
                 writeFailures>>

ServiceReturns ==
  /\ run = "work" /\ steps = <<>>
  /\ run' = "setResult"
  /\ UNCHANGED <<case, status, work, sequence, events, control, writeFailures>>
-----------------------------------------------------------------------------
(* The AI provider. *)

AskModel ==
  /\ run = "step" /\ call = "none" /\ work # <<>> /\ Head(work) = ModelCall
  /\ call' = "asked"
  /\ UNCHANGED <<case, status, run, steps, work, activeStep, sequence, completed, events,
                 answer, writeFailures>>

(* Token counts that pass positiveInteger, zero included. *)
Reports == IF case.provider = "demo" THEN {DemoUsage} ELSE Answers

(* generateStructured meters the two counts once the model has answered. *)
ModelAnswers ==
  /\ call = "asked"
  /\ \E tokens \in Reports :
       /\ answer' = tokens
       /\ work' = <<Input(tokens[1]), Output(tokens[2])>> \o Tail(work)
  /\ call' = "none"
  /\ UNCHANGED <<case, status, run, steps, activeStep, sequence, completed, events,
                 writeFailures>>

(* The request fails, or normalizeResponse refuses the answer. *)
ModelFails ==
  /\ call = "asked" /\ case.provider = "remote"
  /\ call' = "none"
  /\ run' = "caught"
  /\ UNCHANGED <<case, status, steps, work, activeStep, sequence, completed, events, answer,
                 writeFailures>>

(* Faulty variant: nothing limits the time of a request. *)
TimerSetNever == FALSE

(* withTimeout, or the timeout of the request. *)
TimerSet == case.provider = "remote"

(* The timer wins the race; the request goes on behind it. *)
TimesOut ==
  /\ call = "asked" /\ TimerSet
  /\ call' = "late"
  /\ run' = "caught"
  /\ UNCHANGED <<case, status, steps, work, activeStep, sequence, completed, events, answer,
                 writeFailures>>

(* The race is over: nobody looks at the answer. *)
LateAnswer ==
  /\ call = "late"
  /\ call' = "none"
  /\ UNCHANGED <<case, status, run, steps, work, activeStep, sequence, completed, events,
                 answer, writeFailures>>
-----------------------------------------------------------------------------
(* POST cancel, at any time. *)
Cancel ==
  /\ status = "ACTIVE" /\ run \in Trying
  /\ status' = "CANCELLED"
  /\ UNCHANGED <<case, run, work, sequence, events, control, writeFailures>>

(* The awaits that are transactions. *)
Writing == run = "baseFee" \/ (run = "work" /\ steps # <<>>) \/ NextUsage \/ StepDone

WriteFails ==
  /\ Writing /\ writeFailures < MaxWriteFailures
  /\ writeFailures' = writeFailures + 1
  /\ run' = "caught"
  /\ UNCHANGED <<case, status, work, sequence, events, control>>

Execute == RecordBaseFee \/ BeginStep \/ Meter \/ EndStep \/ ServiceReturns

Model == AskModel \/ ModelAnswers \/ ModelFails \/ TimesOut

Next == Execute \/ Model \/ LateAnswer \/ Cancel \/ WriteFails

Spec == Init /\ [][Next]_vars

(* A run goes on when its await has settled, and the demo provider answers *)
(* at once.  A remote model need not answer: the timer of its request      *)
(* fires.  Nobody has to cancel.                                           *)
FairSpec ==
  /\ Spec
  /\ WF_vars(Execute) /\ WF_vars(AskModel) /\ WF_vars(TimesOut)
  /\ WF_vars(case.provider = "demo" /\ ModelAnswers)
-----------------------------------------------------------------------------
(* Properties. *)

UsageType == DOMAIN CommonRates \cup {"BASE_FEE"}

(* What a step can have ahead: usage to meter, or the model call. *)
Work == [type : UsageType, quantity : Nat] \cup {ModelCall}

Key == {<<"base-fee">>} \cup ((StepId \cup {"startup"}) \X Nat)

TypeOK ==
  /\ case \in Cases
  /\ status \in {"ACTIVE", "CANCELLED"}
  /\ run \in Trying \cup Exits
  /\ steps \in Seq([id : StepId, work : Seq(Work)])
  /\ work \in Seq(Work)
  /\ activeStep \in StepId \cup {"startup"} /\ sequence \in Nat
  /\ completed \in Seq(StepId)
  /\ events \in Seq([key : Key, type : UsageType, quantity : Nat \ {0}])
  /\ call \in {"none", "asked", "late"}
  /\ answer \in {<<>>, DemoUsage} \cup Answers
  /\ writeFailures \in Nat

Usage(e) == Metered(e.type, e.quantity)

(* What a step meters, of its model call what is known. *)
KnownWork(script) ==
  IF script # <<ModelCall>> THEN script
  ELSE IF answer = <<>> THEN <<>> ELSE <<Input(answer[1]), Output(answer[2])>>

(* Everything a run of the service bills, as far as it is known. *)
Bill ==
  LET plan == Execution(case.job)
  IN  <<Metered("BASE_FEE", 1)>> \o KnownWork(plan[1].work) \o KnownWork(plan[2].work)
        \o KnownWork(plan[3].work)

Billed == [i \in DOMAIN events |-> Usage(events[i])]

(* The ledger tells the work of the run, in order and each piece once: no  *)
(* usage is lost behind a key used twice, none is billed for a call that   *)
(* failed or came late, and a run that returns a result has billed all of  *)
(* its work and completed its plan (generateStructured, context.meter).    *)
LedgerTellsTheWork ==
  /\ IsPrefix(Billed, Bill)
  /\ run = "setResult" => Billed = Bill /\ completed = Plan(service)
  /\ IsPrefix(completed, Plan(service))

(* Usage that lets the run go on is on the ledger: it is never taken for   *)
(* the repetition of an earlier one (the keys of context.meter and         *)
(* generateStructured, whatever the service meters).                       *)
UsageIsBilled ==
  [][Meter /\ run' = "step" =>
       Len(events') = Len(events) + 1 /\ Usage(Last(events')) = Head(work)]_vars

(* What budget.updated and the session tell of the charge, read back as an *)
(* amount, adds up to the cap, and nothing of it is negative.              *)
BudgetReadsBack ==
  /\ Readable(currentChargeUsdc) /\ Readable(remainingAuthorizationUsdc)
  /\ parseUsdc(currentChargeUsdc) + parseUsdc(remainingAuthorizationUsdc) = case.cap

(* A run on the demo provider whose cap is the suggested maximum never     *)
(* stops at its cap, whatever the input.                                   *)
SuggestedMaximumSuffices ==
  case.provider = "demo" /\ case.cap >= PricingOf(service).suggested => run # "limit"

(* A model call is made first and metered afterwards, so at the cap it is  *)
(* neither blocked nor billed.  No more work than that goes unbilled: the  *)
(* model is asked only when all work before is billed, and a run that ends *)
(* owes at most the two counts of its call.                                *)
UnbilledIsOneCall ==
  /\ call = "asked" => Billed = Bill
  /\ run \in Exits /\ answer # <<>> => Len(Bill) - Len(Billed) <= 2

(* The work ends: at the service's return, at the cap or in the catch. *)
WorkEnds == <>(run \in Exits)

Jobs == {c.job : c \in Cases}

(* Amounts of the events of a job. *)
EventPrices(job) ==
  LET metered == (UNION {Range(Execution(job)[i].work) : i \in DOMAIN Execution(job)})
                   \ {ModelCall}
      tokens  == Answers \cup {DemoUsage}
  IN  {AmountOf(job.service, u) :
         u \in metered \cup {Input(t[1]) : t \in tokens} \cup {Output(t[2]) : t \in tokens}}

Session(job) ==
  INSTANCE PaymentSession WITH
    Sessions <- {"session"}, Nonces <- {"nonce"}, NoNonce <- "none",
    Payers <- {"payer"}, PayerOf <- [s \in {"session"} |-> "payer"],
    MinCharge <- PricingOf(job.service).minimum,
    ServiceMax <- PricingOf(job.service).maximum,
    BaseFee <- PricingOf(job.service).baseFee,
    Prices <- EventPrices(job),
    PlanLength <- Len(Plan(job.service)),
    InitialBalance <- 0, SessionLimit <- 0, MaxDaily <- 0, RailMode <- "demo",
    MaxCredit <- 0, MaxCrashes <- 0,
    status <- [s \in {"session"} |-> status],
    cap <- [s \in {"session"} |-> case.cap],
    authorization <- [s \in {"session"} |-> "nonce"],
    total <- [s \in {"session"} |-> Total],
    progress <- [s \in {"session"} |-> Len(completed)],
    result <- [s \in {"session"} |-> "none"],
    settlements <- {}, usedNonces <- {},
    run <- [s \in {"session"} |-> run],
    amount <- [s \in {"session"} |-> 0],
    calls <- {}, expired <- {}, emergencyStop <- FALSE, transfers <- {}, crashes <- 0

(* The services of the registry are among the services PaymentSession      *)
(* allows: every step is one of its session's, or none it can see.         *)
ImplementsSession ==
  [][\A job \in Jobs : case.job = job =>
       \/ Session(job)!Service("session")
       \/ Session(job)!Cancel("session")
       \/ Session(job)!WriteFails("session")]_<<status, run, Total, completed, writeFailures>>
=============================================================================
