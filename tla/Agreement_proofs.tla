-------------------------- MODULE Agreement_proofs --------------------------
(***************************************************************************)
(* Proofs about the agreement of a session and its ledger, for any keys,   *)
(* price lists, cap and number of restarts.                                *)
(***************************************************************************)
EXTENDS Agreement, Sums_proofs, TLAPS

(***************************************************************************)
(* The terms.                                                              *)
(***************************************************************************)

(* The accepted authorization agrees with the session on what the session  *)
(* decides and with the deployment that accepted it on the rest.           *)
AcceptedInv ==
  phase # "offered" =>
    /\ authorization.bound
    /\ authorization.terms.personal = offer.terms.personal
    /\ authorization.terms.settings = acceptedBy.settings
    /\ authorization.signedWith = acceptedBy.secrets["demoRailSecret"]

OfferInv == offer.terms.settings \in [Settings -> Value]

AgreedInv == OfferInv /\ AcceptedInv /\ SettledAsAgreed

LEMMA AgreedInit == Init => AgreedInv
BY DEF Init, AgreedInv, OfferInv, AcceptedInv, SettledAsAgreed, Fresh, Value

LEMMA AgreedStep == AgreedInv /\ [Next]_vars => AgreedInv'
<1> SUFFICES ASSUME AgreedInv, [Next]_vars PROVE AgreedInv'
  OBVIOUS
<1> USE DEF AgreedInv
<1>1. CASE Authorize
  <2>1. PICK a \in SignedAuthorizations \cup {b \in {DemoAuthorization} : AgentAllows} :
          AuthorizationBinds(a) /\ RailVerifies(a) /\ authorization' = a
    BY <1>1 DEF Authorize
  <2>2. UNCHANGED <<offer, deployed>> /\ acceptedBy' = deployed /\ phase' = "authorized"
    BY <1>1 DEF Authorize
  <2>3. AcceptedInv'
    BY <2>1, <2>2 DEF AcceptedInv, AuthorizationBinds, RailVerifies
  <2> QED
    BY <2>2, <2>3 DEF OfferInv, SettledAsAgreed
<1>2. CASE Start
  BY <1>2 DEF Start, OfferInv, AcceptedInv, SettledAsAgreed
<1>3. CASE Run
  BY <1>3 DEF Run, OfferInv, AcceptedInv, SettledAsAgreed
<1>4. CASE Settle
  <2>1. UNCHANGED <<offer, authorization, acceptedBy>> /\ phase = "finalized"
    BY <1>4 DEF Settle
  <2>2. OfferInv' /\ AcceptedInv'
    BY <2>1 DEF OfferInv, AcceptedInv
  <2>3. CASE phase' = "settled"
    <3>1. SettlementBinds(authorization)
      BY <1>4, <2>3 DEF Settle, SettlementAcceptable
    <3>2. \A s \in Settings \ {"token"} :
            authorization.terms.settings[s] = offer.terms.settings[s]
      BY <3>1 DEF SettlementBinds, OfferInv
    <3>3. authorization.terms.settings = acceptedBy.settings /\ "merchant" \in Settings \ {"token"}
      BY <2>1 DEF AcceptedInv, Settings
    <3> QED
      BY <2>1, <2>2, <3>1, <3>2, <3>3 DEF SettledAsAgreed, SettlementBinds, AcceptedInv
  <2>4. CASE phase' # "settled"
    BY <2>2, <2>4 DEF SettledAsAgreed
  <2> QED
    BY <2>3, <2>4
<1>5. CASE Restart
  BY <1>5 DEF Restart, OfferInv, AcceptedInv, SettledAsAgreed
<1>6. CASE UNCHANGED vars
  BY <1>6 DEF vars, OfferInv, AcceptedInv, SettledAsAgreed
<1> QED
  BY <1>1, <1>2, <1>3, <1>4, <1>5, <1>6 DEF Next

LEMMA AgreedInvariant == Spec => []AgreedInv
BY AgreedInit, AgreedStep, PTL DEF Spec

(* What is settled was agreed, through any number of restarts with other   *)
(* settings.                                                               *)
THEOREM SettlementsAreAgreed == Spec => []SettledAsAgreed
<1>1. AgreedInv => SettledAsAgreed
  BY DEF AgreedInv
<1> QED
  BY <1>1, AgreedInvariant, PTL

(* Settlement does not refuse what the agent authorized for its terms.     *)
THEOREM AcceptedTermsAreSettled == Spec => []AcceptedTermsSettle
<1>1. AgreedInv => AcceptedTermsSettle
  <2> SUFFICES ASSUME AgreedInv, phase \in {"finalized", "refused"},
                      authorization.terms = offer.terms,
                      deployed.settings["token"] = acceptedBy.settings["token"],
                      deployed.secrets["demoRailSecret"] = acceptedBy.secrets["demoRailSecret"]
               PROVE  SettlementBinds(authorization) /\ RailVerifies(authorization)
    BY DEF AcceptedTermsSettle
  <2>1. AcceptedInv /\ phase # "offered"
    BY DEF AgreedInv
  <2>2. offer.terms.settings =
          [offer.terms.settings EXCEPT !["token"] = deployed.settings["token"]]
    BY <2>1 DEF AcceptedInv, AgreedInv, OfferInv
  <2> QED
    BY <2>1, <2>2 DEF AcceptedInv, SettlementBinds, RailVerifies
<1> QED
  BY <1>1, AgreedInvariant, PTL

(***************************************************************************)
(* The ledger.                                                             *)
(***************************************************************************)

LEMMA CeilDivBounds ==
  ASSUME NEW n \in Nat, NEW d \in Nat \ {0}
  PROVE  /\ CeilDiv(n, d) \in Nat
         /\ n <= CeilDiv(n, d) * d
         /\ CeilDiv(n, d) * d <= n + d - 1
<1>1. CASE n = 0
  BY <1>1 DEF CeilDiv
<1>2. CASE n # 0
  <2> DEFINE c == (n + d - 1) \div d
  <2>1. CeilDiv(n, d) = c
    BY <1>2 DEF CeilDiv, TruncDiv
  <2>2. n + d - 1 \in Int
    OBVIOUS
  <2>3. c \in Int /\ d * c <= n + d - 1 /\ n + d - 1 < d * c + d
    BY <2>2
  <2>4. n <= d * c /\ d * c = c * d
    BY <2>3
  <2>5. c >= 0
    BY <2>2
  <2> QED
    BY <2>1, <2>3, <2>4, <2>5
<1> QED
  BY <1>1, <1>2

(* A single event is billed at its rate: upward to the next atomic unit,   *)
(* a credit in favour of the payer, for every rate and quantity.           *)
(* (LedgersAreBilledAtRate sums this over a ledger.)                       *)
THEOREM EventsBilledAtRate ==
  ASSUME NEW quantity \in Nat, NEW numerator \in Int, NEW denominator \in Nat \ {0}
  PROVE  LET amount == RateAmount(quantity, numerator, denominator)
         IN  /\ amount \in Int
             /\ IF numerator < 0 THEN amount <= 0 ELSE amount >= 0
             /\ quantity * Abs(numerator) <= Abs(amount) * denominator
             /\ Abs(amount) * denominator <= quantity * Abs(numerator) + denominator - 1
<1> DEFINE exact == quantity * Abs(numerator)
           c == CeilDiv(exact, denominator)
<1>1. Abs(numerator) \in Nat
  BY DEF Abs
<1>2. exact \in Nat
  BY <1>1
<1>3. /\ c \in Nat
      /\ exact <= c * denominator
      /\ c * denominator <= exact + denominator - 1
  BY <1>2, CeilDivBounds
<1>4. RateAmount(quantity, numerator, denominator) = IF numerator < 0 THEN -c ELSE c
  BY DEF RateAmount, Abs
<1>5. Abs(RateAmount(quantity, numerator, denominator)) = c
  BY <1>3, <1>4 DEF Abs
<1> QED
  BY <1>3, <1>4, <1>5

(* The minimum lifts a charge to itself, never above a cap that covers it. *)
THEOREM MinimumStaysUnderCap ==
  ASSUME NEW subtotal \in Int, NEW minimum \in Nat, NEW limit \in Nat,
         subtotal <= limit
  PROVE  /\ subtotal <= FinalCharge(subtotal, minimum)
         /\ FinalCharge(subtotal, minimum) <= AtLeast(minimum, limit)
         /\ subtotal <= 0 => FinalCharge(subtotal, minimum) = subtotal
BY DEF FinalCharge, AtLeast

LEMMA EventAmountIsInt ==
  ASSUME NEW l \in Lists, NEW type \in EventType, NEW quantity \in Nat, Supported(l, type)
  PROVE  EventAmount(l, type, quantity) \in Int
<1>1. CASE type = "BASE_FEE"
  <2>1. PriceLists[l].baseFee \in Nat
    BY ChargeAssumption
  <2> QED
    BY <1>1, <2>1 DEF EventAmount
<1>2. CASE type # "BASE_FEE"
  <2>1. type \in DOMAIN RatesOf(l)
    BY <1>2 DEF Supported
  <2>2. RatesOf(l)[type].numerator \in Int /\ RatesOf(l)[type].denominator \in Nat \ {0}
    BY <2>1, RateAssumption
  <2>3. RateAmount(quantity, RatesOf(l)[type].numerator, RatesOf(l)[type].denominator) \in Int
    BY <2>2, EventsBilledAtRate
  <2> QED
    BY <1>2, <2>3 DEF EventAmount
<1> QED
  BY <1>1, <1>2

(* What the ledger holds and what its callers were told. *)
LedgerInv ==
  /\ list \in Lists /\ deployed \in Deployment
  /\ events \in Seq(Event)
  /\ answered \in [Keys -> Nat]
  /\ \A key \in Keys : answered[key] # 0 => answered[key] \in DOMAIN events
  /\ KeyBilledOnce

LEMMA LedgerInvInit == Init => LedgerInv
<1> SUFFICES ASSUME Init PROVE LedgerInv
  OBVIOUS
<1>1. deployed \in Deployment /\ list \in Lists
  BY DEF Init, Deployment
<1>2. events = <<>> /\ answered = [k \in Keys |-> 0]
  BY DEF Init, LedgerEmpty
<1>3. events \in Seq(Event) /\ DOMAIN events = {}
  BY <1>2
<1>4. answered \in [Keys -> Nat] /\ \A key \in Keys : answered[key] = 0
  BY <1>2
<1> QED
  BY <1>1, <1>3, <1>4 DEF LedgerInv, KeyBilledOnce

LEMMA RepeatKeepsLedger ==
  ASSUME LedgerInv, NEW key \in Keys, Repeat(key), deployed' = deployed
  PROVE  LedgerInv'
<1>1. PICK i \in Recorded(key) : answered' = [answered EXCEPT ![key] = i]
  BY DEF Repeat
<1>2. UNCHANGED <<list, events>>
  BY DEF Repeat
<1>3. i \in DOMAIN events /\ events[i].key = key /\ i \in Nat
  BY <1>1 DEF Recorded, LedgerInv
<1> QED
  BY <1>1, <1>2, <1>3 DEF LedgerInv, KeyBilledOnce

LEMMA AppendKeepsLedger ==
  ASSUME LedgerInv, NEW key \in Keys, NEW type \in EventType, NEW quantity \in 0..MaxQuantity,
         AppendEvent(key, type, quantity), deployed' = deployed
  PROVE  LedgerInv'
<1> DEFINE event == [key |-> key, type |-> type, quantity |-> quantity,
                     amount |-> EventAmount(list, type, quantity)]
<1>1. /\ events' = Append(events, event)
      /\ answered' = [answered EXCEPT ![key] = Len(events) + 1]
      /\ UNCHANGED list
  BY DEF AppendEvent
<1>2. event \in Event
  <2>1. quantity \in Nat \ {0}
    BY QuantityAssumption DEF AppendEvent, Priceable
  <2>2. EventAmount(list, type, quantity) \in Int
    BY <2>1, EventAmountIsInt DEF AppendEvent, LedgerInv
  <2> QED
    BY <2>1, <2>2 DEF Event
<1>3. \A i \in DOMAIN events : events[i].key # key
  BY DEF AppendEvent, Recorded
<1> HIDE DEF event
<1>4. /\ events' \in Seq(Event)
      /\ Len(events') = Len(events) + 1 /\ Len(events) \in Nat
      /\ \A i \in DOMAIN events : events'[i] = events[i]
      /\ events'[Len(events) + 1] = event
      /\ DOMAIN events' = DOMAIN events \cup {Len(events) + 1}
      /\ Len(events) + 1 \notin DOMAIN events
  BY <1>1, <1>2 DEF LedgerInv
<1>5. event.key = key
  BY DEF event
<1>6. \A i, j \in DOMAIN events' : events'[i].key = events'[j].key => i = j
  BY <1>3, <1>4, <1>5 DEF LedgerInv, KeyBilledOnce
<1>7. \A k \in Keys : answered'[k] # 0 =>
        answered'[k] \in DOMAIN events' /\ events'[answered'[k]].key = k
  BY <1>1, <1>4, <1>5 DEF LedgerInv, KeyBilledOnce
<1>8. answered' \in [Keys -> Nat]
  BY <1>1, <1>4 DEF LedgerInv
<1> QED
  BY <1>1, <1>4, <1>6, <1>7, <1>8 DEF LedgerInv, KeyBilledOnce

LEMMA LedgerStep == LedgerInv /\ [Next]_vars => LedgerInv'
<1> SUFFICES ASSUME LedgerInv, [Next]_vars PROVE LedgerInv'
  OBVIOUS
<1>1. CASE Run
  <2>1. deployed' = deployed /\ Metering
    BY <1>1 DEF Run
  <2>2. CASE Finish
    BY <2>1, <2>2 DEF Finish, LedgerInv, KeyBilledOnce
  <2>3. ASSUME NEW key \in Keys, Record(key) PROVE LedgerInv'
    BY <2>1, <2>3, RepeatKeepsLedger, AppendKeepsLedger DEF Record
  <2> QED
    BY <2>1, <2>2, <2>3 DEF Metering
<1>2. CASE Start
  <2>1. list' \in Lists /\ UNCHANGED <<events, answered, deployed>>
    BY <1>2 DEF Start, ListAtStart, LedgerInv, Deployment
  <2> QED
    BY <2>1 DEF LedgerInv, KeyBilledOnce
<1>3. CASE Restart
  <2>1. deployed' \in Deployment
    <3>1. CASE \E l \in Lists : deployed' = [deployed EXCEPT !.list = l]
      BY <3>1 DEF LedgerInv, Deployment
    <3>2. CASE \E s \in Settings, v \in Value : deployed' = [deployed EXCEPT !.settings[s] = v]
      <4>1. PICK s \in Settings, v \in Value : deployed' = [deployed EXCEPT !.settings[s] = v]
        BY <3>2
      <4>2. deployed \in Deployment
        BY DEF LedgerInv
      <4>3. [deployed.settings EXCEPT ![s] = v] \in [Settings -> Value]
        BY <4>2 DEF Deployment
      <4>4. deployed' = [deployed EXCEPT !.settings = [deployed.settings EXCEPT ![s] = v]]
        BY <4>1
      <4> QED
        BY <4>2, <4>3, <4>4 DEF Deployment
    <3>3. CASE \E s \in Secrets, v \in Value : deployed' = [deployed EXCEPT !.secrets[s] = v]
      BY <3>3 DEF LedgerInv, Deployment
    <3> QED
      BY <1>3, <3>1, <3>2, <3>3 DEF Restart
  <2> QED
    BY <1>3, <2>1 DEF Restart, LedgerInv, KeyBilledOnce, ledgerVars
<1>4. CASE Authorize \/ Settle \/ UNCHANGED vars
  <2>1. UNCHANGED <<ledgerVars, deployed>>
    BY <1>4 DEF Authorize, Settle, vars
  <2> QED
    BY <2>1 DEF LedgerInv, KeyBilledOnce, ledgerVars
<1> QED
  BY <1>1, <1>2, <1>3, <1>4 DEF Next

LEMMA LedgerInvariant == Spec => []LedgerInv
BY LedgerInvInit, LedgerStep, PTL DEF Spec

(* A key is billed once and its callers are told the event it was billed   *)
(* for.                                                                    *)
THEOREM KeysAreBilledOnce == Spec => []KeyBilledOnce
<1>1. LedgerInv => KeyBilledOnce
  BY DEF LedgerInv
<1> QED
  BY <1>1, LedgerInvariant, PTL

(***************************************************************************)
(* What the ledger adds up to.                                             *)
(***************************************************************************)

(* Terms of the events of a type, for each position of the ledger. *)
PartOf(type, terms) == [i \in DOMAIN events |-> IF events[i].type = type THEN terms[i] ELSE 0]

LEMMA LedgerTerms ==
  ASSUME events \in Seq(Event)
  PROVE  /\ Len(events) \in Nat /\ DOMAIN events = 1..Len(events)
         /\ \A i \in 1..Len(events) :
              /\ events[i] \in Event
              /\ Amounts[i] = events[i].amount /\ Amounts[i] \in Int
              /\ Quantities[i] = events[i].quantity /\ Quantities[i] \in Nat
              /\ Ones[i] = 1
         /\ Total \in Int
<1>1. Len(events) \in Nat /\ DOMAIN events = 1..Len(events)
  OBVIOUS
<1>2. \A i \in 1..Len(events) :
        /\ events[i] \in Event
        /\ Amounts[i] = events[i].amount /\ Amounts[i] \in Int
        /\ Quantities[i] = events[i].quantity /\ Quantities[i] \in Nat
        /\ Ones[i] = 1
  <2> SUFFICES ASSUME NEW i \in 1..Len(events)
               PROVE  /\ events[i] \in Event
                      /\ Amounts[i] = events[i].amount /\ Amounts[i] \in Int
                      /\ Quantities[i] = events[i].quantity /\ Quantities[i] \in Nat
                      /\ Ones[i] = 1
    OBVIOUS
  <2>1. events[i] \in Event /\ i \in DOMAIN events
    BY <1>1
  <2>2. events[i].amount \in Int /\ events[i].quantity \in Nat
    BY <2>1 DEF Event
  <2> QED
    BY <2>1, <2>2 DEF Amounts, Quantities, Ones
<1>3. SumTo(Amounts, Len(events)) \in Int
  <2>1. Len(events) \in 0..Len(events) /\ \A i \in 1..Len(events) : Amounts[i] \in Int
    BY <1>1, <1>2
  <2> QED
    BY <1>1, <2>1, SumInt
<1> QED
  BY <1>1, <1>2, <1>3 DEF Total

LEMMA AppendEffect ==
  ASSUME LedgerInv, NEW key \in Keys, NEW type \in EventType, NEW quantity \in 0..MaxQuantity,
         AppendEvent(key, type, quantity)
  PROVE  /\ events' \in Seq(Event) /\ Len(events') = Len(events) + 1
         /\ \A i \in 1..Len(events) : events'[i] = events[i]
         /\ events'[Len(events) + 1].type = type
         /\ events'[Len(events) + 1].quantity = quantity
         /\ events'[Len(events) + 1].amount = EventAmount(list, type, quantity)
         /\ Total' = Total + EventAmount(list, type, quantity)
         /\ Total' <= Cap
<1> DEFINE amount == EventAmount(list, type, quantity)
           event == [key |-> key, type |-> type, quantity |-> quantity, amount |-> amount]
           n == Len(events)
<1>1. /\ events' = Append(events, event) /\ events \in Seq(Event)
      /\ Total + amount <= Cap /\ list \in Lists
      /\ Supported(list, type) /\ quantity \in Nat \ {0}
  BY QuantityAssumption DEF AppendEvent, LedgerInv, Priceable
<1>2. amount \in Int
  BY <1>1, EventAmountIsInt
<1>3. event \in Event
  BY <1>1, <1>2 DEF Event
<1>4. event.type = type /\ event.quantity = quantity /\ event.amount = amount
  OBVIOUS
<1> HIDE DEF event, amount
<1>5. /\ events' \in Seq(Event) /\ Len(events') = n + 1 /\ n \in Nat
      /\ \A i \in 1..n : events'[i] = events[i]
      /\ events'[n + 1] = event
      /\ DOMAIN events = 1..n /\ DOMAIN events' = 1..n + 1
  BY <1>1, <1>3
<1>6. \A i \in 1..n : Amounts[i] = Amounts'[i]
  BY <1>5 DEF Amounts
<1>7. Amounts'[n + 1] = amount
  BY <1>4, <1>5 DEF Amounts
<1>8. SumTo(Amounts', n + 1) = SumTo(Amounts, n) + Amounts'[n + 1]
  BY <1>5, <1>6, SumAppended
<1>9. Total' = Total + amount
  BY <1>5, <1>7, <1>8 DEF Total
<1> QED
  BY <1>1, <1>4, <1>5, <1>9 DEF amount

(* The ledger is empty before the start; its events are priced by one list *)
(* and their total is under the cap; the charge is what calculateFinal     *)
(* made of that total.                                                     *)
Before == phase \in {"offered", "authorized"}
After == phase \in {"finalized", "settled", "refused"}

PricedByList ==
  \A i \in DOMAIN events :
    /\ Supported(list, events[i].type)
    /\ events[i].amount = EventAmount(list, events[i].type, events[i].quantity)

ChargeInv ==
  /\ phase \in Phase
  /\ active = (phase = "active")
  /\ Before => events = <<>> /\ charge = 0
  /\ charge \in Int
  /\ PricedByList
  /\ Total <= Cap
  /\ After => charge = FinalCharge(Total, PriceLists[list].minimum)

BillInv == LedgerInv /\ ChargeInv

LEMMA NoEventsNoTotal == events = <<>> => Total = 0 /\ DOMAIN events = {}
<1> SUFFICES ASSUME events = <<>> PROVE Total = 0 /\ DOMAIN events = {}
  OBVIOUS
<1>1. Len(events) = 0 /\ DOMAIN events = {}
  OBVIOUS
<1> QED
  BY <1>1, SumStep DEF Total

LEMMA FinalChargeInt ==
  ASSUME NEW subtotal \in Int, NEW minimum \in Nat
  PROVE  FinalCharge(subtotal, minimum) \in Int
BY DEF FinalCharge

LEMMA ChargeInit == Init => ChargeInv
<1> SUFFICES ASSUME Init PROVE ChargeInv
  OBVIOUS
<1>1. phase = "offered" /\ active = FALSE /\ events = <<>> /\ charge = 0
  BY DEF Init, LedgerEmpty
<1>2. Total = 0 /\ DOMAIN events = {}
  BY <1>1, NoEventsNoTotal
<1>3. active = (phase = "active")
  BY <1>1
<1>4. Total <= Cap
  BY <1>2, ChargeAssumption
<1> QED
  BY <1>1, <1>2, <1>3, <1>4 DEF ChargeInv, Before, After, PricedByList, Phase

LEMMA ChargeStep == BillInv /\ [Next]_vars => ChargeInv'
<1> SUFFICES ASSUME BillInv, [Next]_vars PROVE ChargeInv'
  OBVIOUS
<1> USE DEF BillInv
<1>1. CASE Run
  <2>1. phase = "active" /\ Metering
    BY <1>1 DEF Run
  <2>2. CASE Finish
    <3>1. /\ UNCHANGED <<list, events, answered>> /\ active' = FALSE
          /\ charge' = FinalCharge(Total, PriceLists[list].minimum)
          /\ phase' = "finalized"
      BY <1>1, <2>2 DEF Finish, Run
    <3>2. Total \in Int /\ PriceLists[list].minimum \in Nat
      BY LedgerTerms, ChargeAssumption DEF LedgerInv
    <3>3. charge' \in Int
      BY <3>1, <3>2, FinalChargeInt
    <3>4. Total' = Total /\ PricedByList'
      BY <3>1 DEF Total, Amounts, ChargeInv, PricedByList
    <3> QED
      BY <3>1, <3>3, <3>4 DEF ChargeInv, Phase, Before, After
  <2>3. ASSUME NEW key \in Keys, Repeat(key) PROVE ChargeInv'
    <3>1. UNCHANGED <<list, events, charge, active>> /\ active' = TRUE /\ phase' = "active"
      BY <1>1, <2>3 DEF Repeat, Run, ChargeInv
    <3>2. Total' = Total /\ PricedByList'
      BY <3>1 DEF Total, Amounts, ChargeInv, PricedByList
    <3> QED
      BY <3>1, <3>2 DEF ChargeInv, Phase, Before, After
  <2>4. ASSUME NEW key \in Keys, NEW type \in EventType, NEW quantity \in 0..MaxQuantity,
               AppendEvent(key, type, quantity)
        PROVE  ChargeInv'
    <3>1. UNCHANGED <<list, charge, active>> /\ active' = TRUE /\ phase' = "active"
      BY <1>1, <2>4 DEF AppendEvent, Run, ChargeInv
    <3>2. /\ events' \in Seq(Event) /\ Len(events') = Len(events) + 1
          /\ \A i \in 1..Len(events) : events'[i] = events[i]
          /\ events'[Len(events) + 1].type = type
          /\ events'[Len(events) + 1].quantity = quantity
          /\ events'[Len(events) + 1].amount = EventAmount(list, type, quantity)
          /\ Total' <= Cap
      BY <2>4, AppendEffect
    <3>3. Len(events) \in Nat /\ DOMAIN events = 1..Len(events) /\ Supported(list, type)
      BY <2>4, LedgerTerms DEF LedgerInv, AppendEvent
    <3>4. ASSUME NEW i \in DOMAIN events'
          PROVE  /\ Supported(list, events'[i].type)
                 /\ events'[i].amount = EventAmount(list, events'[i].type, events'[i].quantity)
      <4>1. i \in 1..Len(events) + 1
        BY <3>2, <3>3
      <4>2. CASE i = Len(events) + 1
        BY <4>2, <3>2, <3>3
      <4>3. CASE i \in 1..Len(events)
        BY <4>3, <3>2, <3>3 DEF ChargeInv, PricedByList
      <4> QED
        BY <4>1, <4>2, <4>3, <3>3
    <3>5. PricedByList'
      BY <3>1, <3>4 DEF PricedByList, Supported, EventAmount, RatesOf
    <3> QED
      BY <3>1, <3>2, <3>5 DEF ChargeInv, Phase, Before, After
  <2> QED
    BY <2>1, <2>2, <2>3, <2>4 DEF Metering, Record
<1>2. CASE Start
  <2>1. /\ UNCHANGED <<events, answered, charge>> /\ active' = TRUE
        /\ phase = "authorized" /\ phase' = "active"
    BY <1>2 DEF Start
  <2>2. events = <<>> /\ charge = 0
    BY <2>1 DEF ChargeInv, Before
  <2>3. Total' = 0 /\ DOMAIN events' = {}
    <3>1. Len(events') = 0 /\ DOMAIN events' = {}
      BY <2>1, <2>2
    <3> QED
      BY <3>1, SumStep DEF Total
  <2>4. active' = (phase' = "active")
    BY <2>1
  <2>5. Total' <= Cap
    BY <2>3, ChargeAssumption
  <2> QED
    BY <2>1, <2>2, <2>3, <2>4, <2>5 DEF ChargeInv, Phase, Before, After, PricedByList
<1>3. CASE Authorize \/ Settle \/ Restart \/ UNCHANGED vars
  <2>1. /\ UNCHANGED <<list, active, events, charge>>
        /\ \/ phase = "offered" /\ phase' = "authorized"
           \/ phase = "finalized" /\ phase' \in {"settled", "refused"}
           \/ phase' = phase
    BY <1>3 DEF Authorize, Settle, Restart, vars, ledgerVars
  <2>2. Total' = Total /\ PricedByList'
    BY <2>1 DEF Total, Amounts, ChargeInv, PricedByList
  <2>3. active = (phase = "active") /\ active' = active
    BY <2>1 DEF ChargeInv
  <2>4. active' = (phase' = "active")
    BY <2>1, <2>3
  <2> QED
    BY <2>1, <2>2, <2>4 DEF ChargeInv, Phase, Before, After
<1> QED
  BY <1>1, <1>2, <1>3 DEF Next

LEMMA BillInvariant == Spec => []BillInv
<1>1. Init => BillInv
  BY LedgerInvInit, ChargeInit DEF BillInv
<1>2. BillInv /\ [Next]_vars => BillInv'
  BY LedgerStep, ChargeStep DEF BillInv
<1> QED
  BY <1>1, <1>2, PTL DEF Spec

(* The ledger keeps its types, whatever is recorded under which list.      *)
THEOREM LedgerTypeCorrect == Spec => []TypeOK
<1>1. BillInv => TypeOK
  BY DEF BillInv, LedgerInv, ChargeInv, TypeOK
<1> QED
  BY <1>1, BillInvariant, PTL

(* The charge is between the metered usage and the cap (or the minimum in  *)
(* force where that is more); free and credited sessions stay free.        *)
THEOREM ChargesCoverTheUsage == Spec => []ChargeCoversUsage
<1>1. BillInv => ChargeCoversUsage
  <2> SUFFICES ASSUME BillInv, ~active
               PROVE  /\ Total <= charge /\ charge <= AtLeast(PriceLists[list].minimum, Cap)
                      /\ Total > 0 => charge >= PriceLists[list].minimum
                      /\ Total <= 0 => charge = Total
    BY DEF ChargeCoversUsage
  <2>1. /\ Total \in Int /\ Total <= Cap /\ Cap \in Nat /\ PriceLists[list].minimum \in Nat
    BY LedgerTerms, ChargeAssumption DEF BillInv, LedgerInv, ChargeInv
  <2>2. CASE Before
    <3>1. Total = 0 /\ charge = 0
      BY <2>2, NoEventsNoTotal DEF BillInv, ChargeInv
    <3> QED
      BY <2>1, <3>1 DEF AtLeast
  <2>3. CASE After
    BY <2>1, <2>3, MinimumStaysUnderCap DEF BillInv, ChargeInv, FinalCharge
  <2>4. phase # "active" /\ phase \in Phase
    BY DEF BillInv, ChargeInv
  <2> QED
    BY <2>2, <2>3, <2>4 DEF Before, After, Phase
<1> QED
  BY <1>1, BillInvariant, PTL

(* A ledger is billed at its rates, however much of a type it holds: every *)
(* event within its bounds, the sums within the sums of the bounds.        *)
LEMMA PartBilledAtRate ==
  ASSUME BillInv, NEW type \in DOMAIN Rates
  PROVE  LET billed == Abs(OfType(type, Amounts)) * Rates[type].denominator
             exact  == OfType(type, Quantities) * Abs(Rates[type].numerator)
         IN  /\ exact <= billed
             /\ billed <= exact + OfType(type, Ones) * (Rates[type].denominator - 1)
<1> DEFINE n == Len(events)
           num == Rates[type].numerator
           den == Rates[type].denominator
           f == PartOf(type, Amounts)
           g == PartOf(type, Quantities)
           h == PartOf(type, Ones)
           c == [i \in 1..n |-> IF num < 0 THEN -f[i] ELSE f[i]]
<1>1. events \in Seq(Event) /\ n \in Nat /\ DOMAIN events = 1..n /\ list \in Lists
  BY LedgerTerms DEF BillInv, LedgerInv
<1>2. num \in Int /\ den \in Nat \ {0} /\ type # "BASE_FEE"
  BY <1>1, RateAssumption DEF Rates
<1>3. Abs(num) \in Nat /\ den - 1 \in Nat /\ den \in Nat
  BY <1>2 DEF Abs
<1>4. ASSUME NEW i \in 1..n
      PROVE  /\ f[i] \in Int /\ g[i] \in Nat /\ h[i] \in Nat
             /\ c[i] \in Nat /\ c[i] = IF num < 0 THEN -f[i] ELSE f[i]
             /\ g[i] * Abs(num) <= c[i] * den
             /\ c[i] * den <= g[i] * Abs(num) + h[i] * (den - 1)
  <2>1. /\ f[i] = IF events[i].type = type THEN events[i].amount ELSE 0
        /\ g[i] = IF events[i].type = type THEN events[i].quantity ELSE 0
        /\ h[i] = IF events[i].type = type THEN 1 ELSE 0
        /\ events[i].amount \in Int /\ events[i].quantity \in Nat
    BY <1>1, LedgerTerms DEF PartOf
  <2>2. c[i] = IF num < 0 THEN -f[i] ELSE f[i]
    OBVIOUS
  <2>3. CASE events[i].type # type
    BY <1>3, <2>1, <2>2, <2>3
  <2>4. CASE events[i].type = type
    <3> DEFINE q == events[i].quantity
               a == events[i].amount
    <3>1. a = RateAmount(q, num, den)
      BY <1>1, <1>2, <2>4 DEF BillInv, ChargeInv, PricedByList, EventAmount, Rates
    <3>2. /\ a \in Int
          /\ IF num < 0 THEN a <= 0 ELSE a >= 0
          /\ q * Abs(num) <= Abs(a) * den
          /\ Abs(a) * den <= q * Abs(num) + den - 1
      BY <1>2, <2>1, <3>1, EventsBilledAtRate
    <3>3. Abs(a) = c[i] /\ c[i] \in Nat
      BY <1>2, <2>1, <2>2, <2>4, <3>2 DEF Abs
    <3>4. f[i] = a /\ g[i] = q /\ h[i] = 1
      BY <2>1, <2>4
    <3> HIDE DEF f, g, h, c, num, den, q, a
    <3>5. h[i] * (den - 1) = den - 1 /\ q \in Nat /\ q * Abs(num) \in Int
      BY <1>3, <2>1, <3>4 DEF q
    <3>6. q * Abs(num) + den - 1 = q * Abs(num) + (den - 1)
      BY <1>3, <3>5
    <3> QED
      BY <2>2, <3>2, <3>3, <3>4, <3>5, <3>6
  <2> QED
    BY <2>3, <2>4
<1>5. /\ OfType(type, Amounts) = SumTo(f, n) /\ OfType(type, Quantities) = SumTo(g, n)
      /\ OfType(type, Ones) = SumTo(h, n)
  BY DEF OfType, PartOf
<1> HIDE DEF f, g, h, c, num, den, n
<1>6. /\ SumTo(g, n) * Abs(num) <= SumTo(c, n) * den
      /\ SumTo(c, n) * den <= SumTo(g, n) * Abs(num) + SumTo(h, n) * (den - 1)
  <2> DEFINE r == Abs(num)
             e == den - 1
  <2>1. r \in Nat /\ e \in Nat /\ den \in Nat /\ n \in Nat
    BY <1>1, <1>3
  <2>2. \A i \in 1..n : /\ c[i] \in Int /\ g[i] \in Int /\ h[i] \in Int
                       /\ g[i] * r <= c[i] * den /\ c[i] * den <= g[i] * r + h[i] * e
    BY <1>4
  <2> HIDE DEF r, e
  <2>3. /\ SumTo(g, n) * r <= SumTo(c, n) * den
        /\ SumTo(c, n) * den <= SumTo(g, n) * r + SumTo(h, n) * e
    BY <2>1, <2>2, SumBetween
  <2> QED
    BY <2>3 DEF r, e
<1>7. SumTo(c, n) \in Nat /\ SumTo(f, n) \in Int
  <2>1. n \in 0..n
    BY <1>1
  <2> QED
    BY <1>1, <1>4, <2>1, SumNat, SumInt
<1>8. Abs(SumTo(f, n)) = SumTo(c, n)
  <2>1. CASE num < 0
    <3>1. SumTo(c, n) = -SumTo(f, n)
      BY <1>1, <1>4, <2>1, SumOpposite
    <3> QED
      BY <1>7, <3>1 DEF Abs
  <2>2. CASE ~(num < 0)
    <3>1. SumTo(c, n) = SumTo(f, n)
      BY <1>1, <1>4, <2>2, SumSame
    <3> QED
      BY <1>7, <3>1 DEF Abs
  <2> QED
    BY <2>1, <2>2
<1> QED
  BY <1>5, <1>6, <1>8 DEF num, den

(* Upward rounding never costs a ledger more than one atomic unit an       *)
(* event, and nothing is sold below its rate, for any rates and usage.     *)
THEOREM LedgersAreBilledAtRate == Spec => []BilledAtRate
<1>1. BillInv => BilledAtRate
  BY PartBilledAtRate DEF BilledAtRate
<1> QED
  BY <1>1, BillInvariant, PTL

(***************************************************************************)
(* The receipt.                                                            *)
(***************************************************************************)

Kinds == [i \in DOMAIN events |-> events[i].type]

LEMMA KindsOfEvents ==
  ASSUME events \in Seq(Event)
  PROVE  /\ \A i \in 1..Len(events) : Kinds[i] = events[i].type
         /\ \A i \in 1..Len(events) : i \in Firsts <=> IsFirst(Kinds, i)
<1>1. DOMAIN events = 1..Len(events) /\ Len(events) \in Nat
  OBVIOUS
<1>2. \A i \in 1..Len(events) : Kinds[i] = events[i].type
  BY <1>1 DEF Kinds
<1>3. ASSUME NEW i \in 1..Len(events) PROVE i \in Firsts <=> IsFirst(Kinds, i)
  <2>1. \A j \in 1..i - 1 : j \in 1..Len(events)
    BY <1>1
  <2> QED
    BY <1>1, <1>2, <2>1 DEF Firsts, IsFirst
<1> QED
  BY <1>2, <1>3

LEMMA TypeSum ==
  ASSUME events \in Seq(Event), NEW terms, NEW t
  PROVE  OfType(t, terms) = OfKind(terms, Kinds, t, Len(events))
<1> DEFINE n == Len(events)
           f == [i \in DOMAIN events |-> IF events[i].type = t THEN terms[i] ELSE 0]
           g == [j \in 1..n |-> IF Kinds[j] = t THEN terms[j] ELSE 0]
<1>1. n \in Nat /\ DOMAIN events = 1..n
  BY LedgerTerms
<1>2. \A i \in 1..n : f[i] = g[i]
  BY <1>1, KindsOfEvents
<1> HIDE DEF f, g, n
<1>3. SumTo(f, n) = SumTo(g, n)
  BY <1>1, <1>2, SumSame
<1> QED
  BY <1>3 DEF f, g, n, OfType, OfKind

(* The lines of explain add up to what the events add up to, in amounts    *)
(* and in events.                                                          *)
LEMMA LinesAddUp ==
  ASSUME events \in Seq(Event)
  PROVE  /\ AmountOfLines(UsageLines, Len(events)) = Total
         /\ EventsOfLines(UsageLines, Len(events)) = Len(events)
<1> DEFINE n == Len(events)
<1>1. /\ n \in Nat /\ DOMAIN events = 1..n
      /\ \A i \in 1..n : Amounts[i] \in Int /\ Ones[i] = 1
  BY LedgerTerms
<1>2. DOMAIN UsageLines = Firsts /\ Firsts \subseteq 1..n
  BY <1>1 DEF UsageLines, Firsts
<1>3. \A i \in Firsts : /\ UsageLines[i].amount = OfType(events[i].type, Amounts)
                        /\ UsageLines[i].count = OfType(events[i].type, Ones)
  BY DEF UsageLines, LineOf
<1>4. AmountOfLines(UsageLines, n) = Grouped(Amounts, Kinds, n)
  <2> DEFINE f == [i \in 1..n |-> IF i \in DOMAIN UsageLines THEN UsageLines[i].amount ELSE 0]
             g == [i \in 1..n |->
                     IF IsFirst(Kinds, i) THEN OfKind(Amounts, Kinds, Kinds[i], n) ELSE 0]
  <2>1. ASSUME NEW i \in 1..n PROVE f[i] = g[i]
    <3>1. Kinds[i] = events[i].type /\ (i \in Firsts <=> IsFirst(Kinds, i))
      BY KindsOfEvents
    <3>2. OfType(events[i].type, Amounts) = OfKind(Amounts, Kinds, Kinds[i], n)
      BY <3>1, TypeSum
    <3> QED
      BY <1>2, <1>3, <3>1, <3>2
  <2> HIDE DEF f, g, n
  <2>2. SumTo(f, n) = SumTo(g, n)
    BY <1>1, <2>1, SumSame
  <2> QED
    BY <2>2 DEF f, g, AmountOfLines, Grouped
<1>5. EventsOfLines(UsageLines, n) = Grouped(Ones, Kinds, n)
  <2> DEFINE f == [i \in 1..n |-> IF i \in DOMAIN UsageLines THEN UsageLines[i].count ELSE 0]
             g == [i \in 1..n |->
                     IF IsFirst(Kinds, i) THEN OfKind(Ones, Kinds, Kinds[i], n) ELSE 0]
  <2>1. ASSUME NEW i \in 1..n PROVE f[i] = g[i]
    <3>1. Kinds[i] = events[i].type /\ (i \in Firsts <=> IsFirst(Kinds, i))
      BY KindsOfEvents
    <3>2. OfType(events[i].type, Ones) = OfKind(Ones, Kinds, Kinds[i], n)
      BY <3>1, TypeSum
    <3> QED
      BY <1>2, <1>3, <3>1, <3>2
  <2> HIDE DEF f, g, n
  <2>2. SumTo(f, n) = SumTo(g, n)
    BY <1>1, <2>1, SumSame
  <2> QED
    BY <2>2 DEF f, g, EventsOfLines, Grouped
<1> HIDE DEF n
<1>6. Grouped(Amounts, Kinds, n) = SumTo(Amounts, n)
  BY <1>1, GroupsAddUp
<1>7. Grouped(Ones, Kinds, n) = SumTo(Ones, n)
  <2>1. \A i \in 1..n : Ones[i] \in Int
    BY <1>1
  <2> QED
    BY <1>1, <2>1, GroupsAddUp
<1>8. SumTo(Ones, n) = n
  BY <1>1, SumOnes
<1> QED
  BY <1>4, <1>5, <1>6, <1>7, <1>8 DEF Total, n

(* The receipt tells the agreement and the ledger it was issued for. *)
ReceiptInv ==
  phase = "settled" =>
    /\ 0 <= charge /\ charge <= Cap
    /\ receipt.terms = offer.terms
    /\ receipt.actualCharge = charge /\ receipt.amountNotCharged = Cap - charge
    /\ receipt.usage = UsageLines /\ receipt.usageEventCount = Len(events)

LEMMA ReceiptStep == ReceiptInv /\ [Next]_vars => ReceiptInv'
<1> SUFFICES ASSUME ReceiptInv, [Next]_vars, phase' = "settled" PROVE ReceiptInv'
  BY DEF ReceiptInv
<1>1. CASE Settle
  <2>1. UNCHANGED <<charge, events, offer>>
    BY <1>1 DEF Settle, ledgerVars
  <2>2. SettlementAcceptable /\ receipt' = Receipt
    BY <1>1 DEF Settle
  <2>3. UsageLines' = UsageLines
    BY <2>1 DEF UsageLines, Firsts, LineOf, OfType, Amounts, Quantities, Ones
  <2> QED
    BY <2>1, <2>2, <2>3 DEF ReceiptInv, Receipt, SettlementAcceptable
<1>2. CASE Restart \/ UNCHANGED vars
  <2>1. UNCHANGED <<charge, events, offer, receipt, phase>>
    BY <1>2 DEF Restart, vars, ledgerVars
  <2>2. UsageLines' = UsageLines
    BY <2>1 DEF UsageLines, Firsts, LineOf, OfType, Amounts, Quantities, Ones
  <2> QED
    BY <2>1, <2>2 DEF ReceiptInv
<1>3. ~Authorize /\ ~Start /\ ~Run
  BY DEF Authorize, Start, Run
<1> QED
  BY <1>1, <1>2, <1>3 DEF Next

LEMMA ReceiptInvariant == Spec => []ReceiptInv
<1>1. Init => ReceiptInv
  BY DEF Init, ReceiptInv
<1> QED
  BY <1>1, ReceiptStep, PTL DEF Spec

(* The receipt of a settled session verifies for its user, and its lines   *)
(* account for every event and every unit metered.                         *)
THEOREM ReceiptsAgree == Spec => []ReceiptAgrees
<1>1. BillInv /\ ReceiptInv => ReceiptAgrees
  <2> SUFFICES ASSUME BillInv, ReceiptInv, phase = "settled"
               PROVE  /\ \/ ReceiptVerifies
                         \/ deployed.secrets["offerSigningSecret"] # receipt.signedWith
                      /\ AmountOfLines(receipt.usage, receipt.usageEventCount) = Total
                      /\ EventsOfLines(receipt.usage, receipt.usageEventCount)
                           = receipt.usageEventCount
                      /\ Total <= receipt.actualCharge
    BY DEF ReceiptAgrees
  <2>1. /\ charge \in Int /\ Cap \in Nat /\ Total \in Int /\ Total <= Cap
        /\ charge = FinalCharge(Total, PriceLists[list].minimum)
        /\ PriceLists[list].minimum \in Nat /\ events \in Seq(Event)
    BY LedgerTerms, ChargeAssumption DEF BillInv, LedgerInv, ChargeInv, After
  <2>2. Total <= charge
    BY <2>1, MinimumStaysUnderCap
  <2>3. receipt.actualCharge <= Cap /\ receipt.actualCharge + receipt.amountNotCharged = Cap
    BY <2>1 DEF ReceiptInv
  <2>4. receipt.signedWith = deployed.secrets["offerSigningSecret"] => ReceiptVerifies
    BY <2>3 DEF ReceiptInv, ReceiptVerifies
  <2> QED
    BY <2>1, <2>2, <2>4, LinesAddUp DEF ReceiptInv
<1> QED
  BY <1>1, BillInvariant, ReceiptInvariant, PTL

(***************************************************************************)
(* The types of the agreement.                                             *)
(***************************************************************************)

Signed == [terms : Terms, bound : BOOLEAN, signedWith : Value]

TermsInv ==
  /\ deployed \in Deployment /\ acceptedBy \in Deployment
  /\ offer \in [terms : Terms, signedWith : Value]
  /\ authorization = None \/ authorization \in Signed
  /\ receipt # None => receipt.amountNotCharged \in 0..Cap
  /\ restarts \in Nat

LEMMA TermsInit == Init => TermsInv
<1> SUFFICES ASSUME Init PROVE TermsInv
  OBVIOUS
<1>1. /\ deployed \in Deployment /\ acceptedBy = deployed
      /\ authorization = None /\ receipt = None /\ restarts = 0
      /\ offer = [terms |-> [personal |-> Fresh(Personal), settings |-> Fresh(Settings),
                             version |-> VersionOf[deployed.list]],
                  signedWith |-> "first"]
  BY DEF Init
<1>2. deployed.list \in Lists
  BY <1>1 DEF Deployment
<1>3. [personal |-> Fresh(Personal), settings |-> Fresh(Settings),
       version |-> VersionOf[deployed.list]] \in Terms
  BY <1>2 DEF Terms, Fresh, Value
<1> QED
  BY <1>1, <1>3 DEF TermsInv, Value

LEMMA TermsStep == LedgerInv /\ ChargeInv /\ TermsInv /\ [Next]_vars => TermsInv'
<1> SUFFICES ASSUME LedgerInv, ChargeInv, TermsInv, [Next]_vars PROVE TermsInv'
  OBVIOUS
<1>d. deployed' \in Deployment
  BY LedgerStep DEF LedgerInv
<1>1. CASE Authorize
  <2>1. PICK a \in SignedAuthorizations \cup {b \in {DemoAuthorization} : AgentAllows} :
          authorization' = a
    BY <1>1 DEF Authorize
  <2>2. deployed.secrets["demoRailSecret"] \in Value
    BY DEF TermsInv, Deployment, Secrets
  <2>3. offer.terms \in Terms
    BY DEF TermsInv
  <2>4. a \in Signed
    <3>1. CASE a \in SignedAuthorizations
      BY <2>2, <3>1 DEF SignedAuthorizations, Signed
    <3>2. CASE a = DemoAuthorization
      BY <2>2, <2>3, <3>2 DEF DemoAuthorization, Signed
    <3> QED
      BY <3>1, <3>2
  <2>5. acceptedBy' = deployed /\ UNCHANGED <<offer, receipt, restarts>>
    BY <1>1 DEF Authorize
  <2> QED
    BY <1>d, <2>1, <2>4, <2>5 DEF TermsInv
<1>2. CASE Start \/ Run \/ UNCHANGED vars
  <2>1. UNCHANGED <<acceptedBy, offer, authorization, receipt, restarts>>
    BY <1>2 DEF Start, Run, vars
  <2> QED
    BY <1>d, <2>1 DEF TermsInv
<1>3. CASE Settle
  <2>1. UNCHANGED <<acceptedBy, offer, authorization, restarts>>
    BY <1>3 DEF Settle
  <2>2. receipt' = receipt \/ (receipt' = Receipt /\ SettlementAcceptable)
    BY <1>3 DEF Settle
  <2>3. SettlementAcceptable => Receipt.amountNotCharged \in 0..Cap
    BY ChargeAssumption DEF SettlementAcceptable, Receipt, ChargeInv
  <2>4. receipt' # None => receipt'.amountNotCharged \in 0..Cap
    BY <2>2, <2>3 DEF TermsInv
  <2> QED
    BY <1>d, <2>1, <2>4 DEF TermsInv
<1>4. CASE Restart
  <2>1. UNCHANGED <<acceptedBy, offer, authorization, receipt>> /\ restarts' = restarts + 1
    BY <1>4 DEF Restart
  <2> QED
    BY <1>d, <2>1 DEF TermsInv
<1> QED
  BY <1>1, <1>2, <1>3, <1>4 DEF Next

(* The agreement keeps its types; what a receipt says was not charged is   *)
(* between nothing and the cap.                                            *)
THEOREM AgreementTypeCorrect == Spec => []AgreementTypeOK
<1>1. Spec => []TermsInv
  <2>1. BillInv /\ TermsInv /\ [Next]_vars => TermsInv'
    BY TermsStep DEF BillInv
  <2> QED
    BY TermsInit, <2>1, BillInvariant, PTL DEF Spec
<1>2. BillInv /\ TermsInv => AgreementTypeOK
  <2> SUFFICES ASSUME BillInv, TermsInv PROVE AgreementTypeOK
    OBVIOUS
  <2>1. phase \in Phase
    BY DEF BillInv, ChargeInv
  <2>2. active <=> phase = "active"
    BY DEF BillInv, ChargeInv
  <2> QED
    BY <2>1, <2>2 DEF TermsInv, AgreementTypeOK, Signed
<1> QED
  BY <1>1, <1>2, BillInvariant, PTL
=============================================================================
