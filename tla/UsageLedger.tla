---------------------------- MODULE UsageLedger ----------------------------
(***************************************************************************)
(* The usage ledger of one session (src/services/usage-ledger.js) with the *)
(* events PaymentSession reduces to their sum: idempotency keys, typed     *)
(* quantities and their prices.  Callers may repeat a record call, with    *)
(* the same arguments or not, before and after its event is stored.        *)
(***************************************************************************)
EXTENDS Pricing, Sums, Sequences

CONSTANTS
  Keys,         \* idempotency keys of the callers
  PriceLists,   \* [Lists -> pricing of the service: baseFee, minimum and
                \* rates of the event types; BASE_FEE has none]
  Cap,          \* maximumChargeAtomic of the session
  MaxQuantity   \* bound: quantities are requested in 0..MaxQuantity

Lists == DOMAIN PriceLists

RatesOf(l) == PriceLists[l].rates

ASSUME RateAssumption ==
  \A l \in Lists :
    /\ "BASE_FEE" \notin DOMAIN RatesOf(l)
    /\ \A type \in DOMAIN RatesOf(l) :
         /\ RatesOf(l)[type].numerator \in Int
         /\ RatesOf(l)[type].denominator \in Nat \ {0}
ASSUME ChargeAssumption ==
  /\ Cap \in Nat
  /\ \A l \in Lists : PriceLists[l].baseFee \in Nat /\ PriceLists[l].minimum \in Nat
ASSUME QuantityAssumption == MaxQuantity \in Nat

VARIABLES
  list,      \* the price list of the process that runs the session
  active,    \* the session is ACTIVE
  events,    \* usageEvents of the session; the eventId is the position
  answered,  \* [Keys -> Nat]: event last returned to the callers of a key
  charge     \* what calculateFinal returned when the session left ACTIVE

ledgerVars == <<list, active, events, answered, charge>>

Rates == RatesOf(list)

EventType == (UNION {DOMAIN RatesOf(l) : l \in Lists}) \cup {"BASE_FEE"}

(* calculateEvent throws UNSUPPORTED_USAGE_TYPE otherwise. *)
Supported(l, type) == type \in DOMAIN RatesOf(l) \cup {"BASE_FEE"}

Event == [key : Keys, type : EventType, quantity : Nat \ {0}, amount : Int]

(* Faulty variant: an empty quantity is priced like any other. *)
PriceableZero(quantity) == quantity >= 0

(* calculateEvent throws INVALID_USAGE_QUANTITY otherwise. *)
Priceable(quantity) == quantity > 0

(* calculateEvent with the price list l. *)
EventAmount(l, type, quantity) ==
  IF type = "BASE_FEE" THEN PriceLists[l].baseFee * quantity
  ELSE RateAmount(quantity, RatesOf(l)[type].numerator, RatesOf(l)[type].denominator)

Amounts == [i \in DOMAIN events |-> events[i].amount]
Quantities == [i \in DOMAIN events |-> events[i].quantity]
Ones == [i \in DOMAIN events |-> 1]

Total == SumTo(Amounts, Len(events))

(* What the events of a type add up to. *)
OfType(type, terms) ==
  SumTo([i \in DOMAIN events |-> IF events[i].type = type THEN terms[i] ELSE 0], Len(events))

(* Faulty variant: no key is found in usageIdempotency. *)
RecordedNever(key) == {}

(* usageIdempotency: the event already stored for a key. *)
Recorded(key) == {i \in DOMAIN events : events[i].key = key}

LedgerEmpty == events = <<>> /\ answered = [k \in Keys |-> 0] /\ charge = 0

LedgerInit == list \in Lists /\ active = TRUE /\ LedgerEmpty

(* A key whose event is stored is answered with that event. *)
Repeat(key) ==
  /\ active
  /\ \E i \in Recorded(key) : answered' = [answered EXCEPT ![key] = i]
  /\ UNCHANGED <<list, active, events, charge>>

(* A new key is priced and appended when the cap allows; at the cap        *)
(* nothing is stored and the caller sees LimitReachedError.                *)
AppendEvent(key, type, quantity) ==
  /\ active
  /\ Recorded(key) = {}
  /\ Supported(list, type) /\ Priceable(quantity)
  /\ LET amount == EventAmount(list, type, quantity)
     IN  /\ Total + amount <= Cap
         /\ events' = Append(events, [key |-> key, type |-> type,
                                      quantity |-> quantity, amount |-> amount])
  /\ answered' = [answered EXCEPT ![key] = Len(events) + 1]
  /\ UNCHANGED <<list, active, charge>>

(* The session leaves ACTIVE and its ledger is priced (calculateFinal). *)
Finish ==
  /\ active
  /\ active' = FALSE
  /\ charge' = FinalCharge(Total, PriceLists[list].minimum)
  /\ UNCHANGED <<list, events, answered>>

Record(key) ==
  \/ Repeat(key)
  \/ \E type \in EventType, quantity \in 0..MaxQuantity : AppendEvent(key, type, quantity)

Metering == Finish \/ \E key \in Keys : Record(key)

LedgerSpec == LedgerInit /\ [][Metering]_ledgerVars
-----------------------------------------------------------------------------
TypeOK ==
  /\ list \in Lists
  /\ active \in BOOLEAN
  /\ events \in Seq(Event)
  /\ answered \in [Keys -> Nat]
  /\ charge \in Int

(* A key is billed once, and its callers are always answered with the      *)
(* event it was billed for (usageIdempotency).                             *)
KeyBilledOnce ==
  /\ \A i, j \in DOMAIN events : events[i].key = events[j].key => i = j
  /\ \A key \in Keys : answered[key] # 0 => events[answered[key]].key = key

AtLeast(n, least) == IF n < least THEN least ELSE n

Abs(n) == IF n < 0 THEN -n ELSE n

(* Upward rounding costs less than one atomic unit an event, however usage *)
(* is split into events, and nothing is sold below its exact rate; a       *)
(* credit is rounded up for the payer.                                     *)
BilledAtRate ==
  \A type \in DOMAIN Rates :
    LET billed == Abs(OfType(type, Amounts)) * Rates[type].denominator
        exact  == OfType(type, Quantities) * Abs(Rates[type].numerator)
    IN  /\ exact <= billed
        /\ billed <= exact + OfType(type, Ones) * (Rates[type].denominator - 1)

(* The charge is at least the metered usage, and exceeds the authorized    *)
(* maximum only where a minimum charge above it was put in force meanwhile *)
(* (no such charge is settled); free or credited sessions stay free.       *)
ChargeCoversUsage ==
  ~active =>
    /\ Total <= charge /\ charge <= AtLeast(PriceLists[list].minimum, Cap)
    /\ Total > 0 => charge >= PriceLists[list].minimum
    /\ Total <= 0 => charge = Total
=============================================================================
