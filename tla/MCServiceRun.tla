---------------------------- MODULE MCServiceRun ----------------------------
(***************************************************************************)
(* Every service with every priority and a choice of pages, capped at each *)
(* price its ledger passes through, one unit below it, and at the minimum  *)
(* and the suggested maximum.                                              *)
(***************************************************************************)
EXTENDS ServiceRun

CONSTANT PageCounts

InstanceJobs ==
  {[service |-> "supplier-research", priority |-> p, pages |-> 1] : p \in Priority}
  \cup {[service |-> "document-analysis", priority |-> "balanced", pages |-> n] : n \in PageCounts}
  \cup {[service |-> "campaign-concept", priority |-> "balanced", pages |-> 1]}

(* The demo usage of a job, piece by piece. *)
DemoBill(job) ==
  LET planned == FlattenSeq([i \in DOMAIN Execution(job) |-> Execution(job)[i].work])
      spelled(u) == IF u = ModelCall THEN <<Input(DemoUsage[1]), Output(DemoUsage[2])>>
                    ELSE <<u>>
  IN  <<Metered("BASE_FEE", 1)>> \o FlattenSeq([i \in DOMAIN planned |-> spelled(planned[i])])

PriceAfter(job, n) ==
  FoldSeq(LAMBDA u, sum : sum + AmountOf(job.service, u), 0, SubSeq(DemoBill(job), 1, n))

CapsOf(job) ==
  LET pricing == PricingOf(job.service)
      prices  == {PriceAfter(job, n) : n \in DOMAIN DemoBill(job)}
  IN  (prices \cup {p - 1 : p \in prices} \cup {pricing.suggested})
        \cap pricing.minimum..pricing.maximum

InstanceCases ==
  UNION {[job : {job}, cap : CapsOf(job), provider : {"demo", "remote"}] : job \in InstanceJobs}

(* Nothing, too much of either, and counts that fit. *)
InstanceAnswers == {<<0, 5>>, <<5, 0>>, <<1, 1>>, <<600000, 1>>, <<1, 200000>>}
=============================================================================
