----------------------------- MODULE Agreement -----------------------------
(***************************************************************************)
(* What one session agrees on, from the signed offer to the receipt, while *)
(* the configuration changes at restarts: OfferService, the user's payment *)
(* agent, the checks of PaymentPolicyEngine field by field, and the        *)
(* receipt, around the session's UsageLedger.                              *)
(*                                                                         *)
(* A field of the agreement has the value it had when the session was      *)
(* created ("first") or another one ("other").  A hash or a signature is   *)
(* the value it was computed from.  The control flow in between, and what  *)
(* happens to a run when the process restarts under it, is in              *)
(* PaymentSession.                                                         *)
(***************************************************************************)
EXTENDS UsageLedger

CONSTANTS
  None,         \* stands for a record that is not there yet
  VersionOf,    \* [Lists -> versions]: pricing.version of a price list
  MaxRestarts   \* bound: restarts, each with one setting changed

ASSUME VersionAssumption == DOMAIN VersionOf = Lists
ASSUME RestartAssumption == MaxRestarts \in Nat

VARIABLES
  deployed,       \* settings of the running process
  offer,          \* the signed offer; the session stores the same terms
  authorization,  \* the stored authorization; None before
  phase,
  receipt,        \* None before the settlement
  restarts,
  acceptedBy      \* history: deployed when the authorization was accepted

vars == <<ledgerVars, deployed, offer, authorization, phase, receipt, restarts, acceptedBy>>

Value == {"first", "other"}

(* Terms the payer and the session decide, and terms of the deployment.    *)
Personal == {"session", "payer", "maximum", "validUntil"}
Settings == {"merchant", "network", "token"}
Secrets == {"offerSigningSecret", "demoRailSecret"}

Phase == {"offered", "authorized", "active", "finalized", "settled", "refused"}

(* The terms of an offer or an authorization.  The currency is constant.   *)
Terms == [personal : [Personal -> Value], settings : [Settings -> Value],
          version : {VersionOf[l] : l \in Lists}]

Deployment == [list : Lists, settings : [Settings -> Value], secrets : [Secrets -> Value]]

Fresh(S) == [s \in S |-> "first"]
(* OfferService.create, with the configuration of the moment. *)
Init ==
  /\ deployed \in {d \in Deployment :
       d.settings = Fresh(Settings) /\ d.secrets = Fresh(Secrets)
         /\ PriceLists[d.list].minimum <= Cap}
  /\ offer = [terms |-> [personal |-> Fresh(Personal), settings |-> Fresh(Settings),
                         version |-> VersionOf[deployed.list]],
              signedWith |-> "first"]
  /\ authorization = None /\ acceptedBy = deployed
  /\ phase = "offered"
  /\ receipt = None
  /\ restarts = 0
  /\ list = deployed.list /\ active = FALSE /\ LedgerEmpty
-----------------------------------------------------------------------------
(* The authorization. *)

(* OfferService.verify. *)
OfferVerifies == offer.signedWith = deployed.secrets["offerSigningSecret"]

(* evaluateOffer with the default policy: what of the twelve checks depends *)
(* on the deployment (the rest is in PaymentSession).                      *)
AgentAllows ==
  /\ OfferVerifies
  /\ offer.terms.settings["merchant"] = deployed.settings["merchant"]
  /\ offer.terms.settings["network"] = deployed.settings["network"]

(* DemoPaymentRail.createAuthorization copies the terms of the offer. *)
DemoAuthorization ==
  [terms |-> offer.terms, bound |-> TRUE, signedWith |-> deployed.secrets["demoRailSecret"]]

(* What a wallet may have signed, bound to this offer by its hash or not. *)
SignedAuthorizations ==
  [terms : Terms, bound : BOOLEAN, signedWith : {deployed.secrets["demoRailSecret"]}]

RailVerifies(a) == a.signedWith = deployed.secrets["demoRailSecret"]

(* Faulty variant: the merchant is compared with the session, not with the *)
(* registry.                                                               *)
AuthorizationBindsAnyMerchant(a) ==
  /\ a.bound
  /\ a.terms.personal = offer.terms.personal
  /\ a.terms.settings = [deployed.settings EXCEPT !["merchant"] =
                                              offer.terms.settings["merchant"]]
  /\ a.terms.version = VersionOf[deployed.list]

(* validateAuthorization: personal terms are compared with the session,    *)
(* the others with the deployment.                                         *)
AuthorizationBinds(a) ==
  /\ a.bound
  /\ a.terms.personal = offer.terms.personal
  /\ a.terms.settings = deployed.settings
  /\ a.terms.version = VersionOf[deployed.list]

(* POST authorize: by the agent of the server, or signed elsewhere. *)
Authorize ==
  /\ phase = "offered"
  /\ \E a \in SignedAuthorizations \cup {b \in {DemoAuthorization} : AgentAllows} :
       /\ OfferVerifies /\ AuthorizationBinds(a) /\ RailVerifies(a)
       /\ authorization' = a
  /\ acceptedBy' = deployed
  /\ phase' = "authorized"
  /\ UNCHANGED <<ledgerVars, deployed, offer, receipt, restarts>>
-----------------------------------------------------------------------------
(* The run. *)

(* getService answers with the pricing of the running process. *)
ListAtStart == deployed.list

Start ==
  /\ phase = "authorized"
  /\ phase' = "active"
  /\ active' = TRUE /\ list' = ListAtStart
  /\ UNCHANGED <<events, answered, charge, deployed, offer, authorization, receipt, restarts,
                 acceptedBy>>

Run ==
  /\ phase = "active"
  /\ Metering
  /\ phase' = IF active' THEN "active" ELSE "finalized"
  /\ UNCHANGED <<deployed, offer, authorization, receipt, restarts, acceptedBy>>

(* Faulty variant: the settlement looks everything up again. *)
SettlementBindsRegistry(a) ==
  /\ a.bound
  /\ a.terms.personal = offer.terms.personal
  /\ a.terms.version = offer.terms.version
  /\ a.terms.settings = deployed.settings

(* validateSettlement: the terms are compared with the session, but the    *)
(* token with the configuration.                                           *)
SettlementBinds(a) ==
  /\ a.bound
  /\ a.terms.personal = offer.terms.personal
  /\ a.terms.version = offer.terms.version
  /\ a.terms.settings = [offer.terms.settings EXCEPT !["token"] = deployed.settings["token"]]

(* Faulty variant: the cap, checked event by event, is not checked again. *)
SettlementAcceptableOverCap ==
  SettlementBinds(authorization) /\ RailVerifies(authorization) /\ 0 <= charge

SettlementAcceptable ==
  /\ SettlementBinds(authorization)
  /\ RailVerifies(authorization)
  /\ 0 <= charge /\ charge <= Cap

(* The event a type is first metered with. *)
Firsts == {i \in DOMAIN events : \A j \in 1..i - 1 : events[j].type # events[i].type}

LineOf(type) ==
  [type |-> type, quantity |-> OfType(type, Quantities), amount |-> OfType(type, Amounts),
   count |-> OfType(type, Ones)]

(* Faulty variant: what reduces the charge is left out. *)
UsageLinesNoCredit ==
  [i \in {j \in Firsts : events[j].type # "CREDIT"} |-> LineOf(events[i].type)]

(* explain: one line for each type of usage, in the order they came up. *)
UsageLines == [i \in Firsts |-> LineOf(events[i].type)]

(* buildReceipt. *)
Receipt ==
  [terms |-> offer.terms, actualCharge |-> charge, amountNotCharged |-> Cap - charge,
   usage |-> UsageLines, usageEventCount |-> Len(events),
   signedWith |-> deployed.secrets["offerSigningSecret"]]

(* settleAuthorizedUsage, as far as the agreement decides it. *)
Settle ==
  /\ phase = "finalized"
  /\ \/ SettlementAcceptable /\ phase' = "settled" /\ receipt' = Receipt
     \/ ~SettlementAcceptable /\ phase' = "refused" /\ UNCHANGED receipt
  /\ UNCHANGED <<ledgerVars, deployed, offer, authorization, restarts, acceptedBy>>
-----------------------------------------------------------------------------
(* The process starts again with one setting changed.  A run does not      *)
(* survive it, so nothing is metered or settled across a restart.          *)
Restart ==
  /\ phase \in {"offered", "authorized", "settled"}
  /\ restarts < MaxRestarts /\ restarts' = restarts + 1
  /\ \/ \E l \in Lists : deployed' = [deployed EXCEPT !.list = l]
     \/ \E s \in Settings, v \in Value : deployed' = [deployed EXCEPT !.settings[s] = v]
     \/ \E s \in Secrets, v \in Value : deployed' = [deployed EXCEPT !.secrets[s] = v]
  /\ UNCHANGED <<ledgerVars, offer, authorization, phase, receipt, acceptedBy>>

Next == Authorize \/ Start \/ Run \/ Settle \/ Restart

Spec == Init /\ [][Next]_vars
-----------------------------------------------------------------------------
(* Properties. *)

AgreementTypeOK ==
  /\ deployed \in Deployment /\ acceptedBy \in Deployment
  /\ offer \in [terms : Terms, signedWith : Value]
  /\ authorization = None
       \/ authorization \in [terms : Terms, bound : BOOLEAN, signedWith : Value]
  /\ phase \in Phase
  /\ receipt # None => receipt.amountNotCharged \in 0..Cap
  /\ restarts \in Nat
  /\ active <=> phase = "active"

(* What is settled was agreed: the authorization has the terms of the      *)
(* signed offer, except for a token that was changed at a restart before   *)
(* the authorization; and the merchant who is paid was the registered one  *)
(* when the user authorized, also where the registry changed before or     *)
(* after.  (docs/ARCHITECTURE.md: the authorization binds the same fields  *)
(* as the offer.)                                                          *)
SettledAsAgreed ==
  phase = "settled" =>
    /\ authorization.bound
    /\ authorization.terms.personal = offer.terms.personal
    /\ authorization.terms.version = offer.terms.version
    /\ \A s \in Settings \ {"token"} :
         authorization.terms.settings[s] = offer.terms.settings[s]
    /\ authorization.terms.settings["token"] = acceptedBy.settings["token"]
    /\ acceptedBy.settings["merchant"] = offer.terms.settings["merchant"]

(* Work is not done in vain: what the agent authorized, whatever changed   *)
(* since the offer, settlement does not refuse for its terms unless the    *)
(* token or the rail's secret changed between authorization and start.     *)
(* The two validations compare the same terms with different things.       *)
AcceptedTermsSettle ==
  /\ phase \in {"finalized", "refused"}
  /\ authorization.terms = offer.terms
  /\ deployed.settings["token"] = acceptedBy.settings["token"]
  /\ deployed.secrets["demoRailSecret"] = acceptedBy.secrets["demoRailSecret"]
  => SettlementBinds(authorization) /\ RailVerifies(authorization)

(* verifyReceipt of the user's agent. *)
ReceiptVerifies ==
  /\ receipt.signedWith = deployed.secrets["offerSigningSecret"]
  /\ receipt.terms = offer.terms
  /\ receipt.actualCharge <= Cap
  /\ receipt.actualCharge + receipt.amountNotCharged = Cap

(* What the lines of usage add up to, by their amounts or counts. *)
AmountOfLines(usage, n) ==
  SumTo([i \in 1..n |-> IF i \in DOMAIN usage THEN usage[i].amount ELSE 0], n)
EventsOfLines(usage, n) ==
  SumTo([i \in 1..n |-> IF i \in DOMAIN usage THEN usage[i].count ELSE 0], n)

(* The receipt of a settled session verifies for its user, and its usage   *)
(* lines account for every event and every unit metered, until the signing *)
(* secret is changed.                                                      *)
ReceiptAgrees ==
  phase = "settled" =>
    /\ ReceiptVerifies \/ deployed.secrets["offerSigningSecret"] # receipt.signedWith
    /\ AmountOfLines(receipt.usage, receipt.usageEventCount) = Total
    /\ EventsOfLines(receipt.usage, receipt.usageEventCount) = receipt.usageEventCount
    /\ Total <= receipt.actualCharge

(* docs/ARCHITECTURE.md: "The settlement policy recalculates every event   *)
(* from the session's original pricing version."  So every event that is   *)
(* charged has the amount a price list of that version gives it.           *)
PricedAsOffered ==
  phase = "settled" =>
    \A i \in DOMAIN events : \E l \in Lists :
      /\ VersionOf[l] = offer.terms.version
      /\ Supported(l, events[i].type)
      /\ events[i].amount = EventAmount(l, events[i].type, events[i].quantity)
=============================================================================
