------------------------------ MODULE Services ------------------------------
(***************************************************************************)
(* The registered services (src/businesses/registry.js): what a validated  *)
(* input costs and which steps its execution takes.  The texts of inputs,  *)
(* labels and results are left out.                                        *)
(***************************************************************************)
EXTENDS Pricing, UsdcText

ServiceId == {"supplier-research", "document-analysis", "campaign-concept"}

Priority == {"economy", "balanced", "fast"}

(* What validateInput lets through: a priority for the supplier report,    *)
(* which other services ignore, and the pages of a document.               *)
JobOK(job) ==
  /\ job.service \in ServiceId
  /\ job.priority \in Priority
  /\ job.pages \in 1..100

Ratio(numerator, denominator) == [numerator |-> numerator, denominator |-> denominator]

(* Faulty variant: a page costs ten times its price. *)
CommonRatesDearPages ==
  [LLM_INPUT_TOKENS  |-> Ratio(2, 1),
   LLM_OUTPUT_TOKENS |-> Ratio(8, 1),
   COMPUTE_SECONDS   |-> Ratio(100, 1),
   EXTERNAL_API_COST |-> Ratio(6, 5),
   IMAGE_GENERATION  |-> Ratio(70000, 1),
   DOCUMENT_PAGE     |-> Ratio(15000, 1),
   CREDIT            |-> Ratio(-1, 1)]

(* commonRates, in lowest terms. *)
CommonRates ==
  [LLM_INPUT_TOKENS  |-> Ratio(2, 1),
   LLM_OUTPUT_TOKENS |-> Ratio(8, 1),
   COMPUTE_SECONDS   |-> Ratio(100, 1),
   EXTERNAL_API_COST |-> Ratio(6, 5),
   IMAGE_GENERATION  |-> Ratio(70000, 1),
   DOCUMENT_PAGE     |-> Ratio(1500, 1),
   CREDIT            |-> Ratio(-1, 1)]

PriceList(baseFee, maximum, suggested) ==
  [baseFee |-> parseUsdc(baseFee), minimum |-> parseUsdc(baseFee),
   maximum |-> parseUsdc(maximum), suggested |-> parseUsdc(suggested)]

(* pricing and suggestedMaximumUsdc; every service's minimum charge is its *)
(* base fee.                                                               *)
PricingOf(service) ==
  CASE service = "supplier-research" ->
         PriceList(Usdc(0, <<0, 5>>), Usdc(1, <<0, 0>>), Usdc(1, <<0, 0>>))
    [] service = "document-analysis" ->
         PriceList(Usdc(0, <<0, 4>>), Usdc(0, <<5, 0>>), Usdc(0, <<5, 0>>))
    [] service = "campaign-concept" ->
         PriceList(Usdc(0, <<0, 6>>), Usdc(0, <<7, 5>>), Usdc(0, <<7, 5>>))

(* The ids of the plan. *)
Plan(service) ==
  CASE service = "supplier-research" -> <<"scope", "verify", "synthesize">>
    [] service = "document-analysis" -> <<"extract", "review", "brief">>
    [] service = "campaign-concept"  -> <<"strategy", "directions", "package">>

Metered(type, quantity) == [type |-> type, quantity |-> quantity]
Input(tokens) == Metered("LLM_INPUT_TOKENS", tokens)
Output(tokens) == Metered("LLM_OUTPUT_TOKENS", tokens)

(* generateStructured: what it meters is known when the model answered. *)
ModelCall == Metered("MODEL", 0)

(* demoUsage of the one call of generateStructured. *)
DemoUsage == <<7200, 1480>>

StepOf(id, work) == [id |-> id, work |-> work]

HalfUp(n) == CeilDiv(n, 2)

AtLeast(n, least) == IF n < least THEN least ELSE n

(* execute, as the calls of context.step and what each meters. *)

SupplierResearch(job) ==
  <<StepOf("scope", <<Metered("EXTERNAL_API_COST", 40000), Input(5400), Output(620)>>),
    StepOf("verify",
      <<Metered("EXTERNAL_API_COST", IF job.priority = "fast" THEN 75000 ELSE 55000),
        Metered("COMPUTE_SECONDS", 18)>>),
    StepOf("synthesize", <<ModelCall>>)>>

DocumentAnalysis(job) ==
  <<StepOf("extract", <<Metered("DOCUMENT_PAGE", job.pages),
                        Metered("COMPUTE_SECONDS", AtLeast(HalfUp(job.pages), 2))>>),
    StepOf("review", <<Input(1000 + 650 * job.pages), Output(900)>>),
    StepOf("brief", <<Output(650)>>)>>

CampaignConcept ==
  <<StepOf("strategy", <<Input(4200), Output(1100)>>),
    StepOf("directions", <<Metered("IMAGE_GENERATION", 2)>>),
    StepOf("package", <<Output(1350), Metered("COMPUTE_SECONDS", 12)>>)>>

(* The steps of all services. *)
StepId ==
  {"scope", "verify", "synthesize", "extract", "review", "brief",
   "strategy", "directions", "package"}

(* getService(session.serviceId).execute. *)
Execution(job) ==
  CASE job.service = "supplier-research" -> SupplierResearch(job)
    [] job.service = "document-analysis" -> DocumentAnalysis(job)
    [] job.service = "campaign-concept"  -> CampaignConcept

(* calculateEvent with the service's pricing. *)
AmountOf(service, event) ==
  IF event.type = "BASE_FEE" THEN PricingOf(service).baseFee * event.quantity
  ELSE RateAmount(event.quantity, CommonRates[event.type].numerator,
                                  CommonRates[event.type].denominator)
=============================================================================
