# PayPilot in TLA+

PayPilot runs paid AI sessions: a user authorizes a maximum once, a service
meters its work against that cap, the deterministic charge is settled through a
payment rail, and only then is the result released. This directory models the
server of `src/src/` and the page that watches it, checks the models with TLC and
proves the core of them with TLAPS.

## The system

| Component | State | Operations | Hard about it |
|---|---|---|---|
| Session state machine (`domain/state-machine.js`) | none | `canTransition`, `transitionSession` | every status change goes through one table |
| Session service (`services/session-service.js`, `offer-service.js`) | `sessions` in the store | create, authorize, transition, updateExecution, setResult, cancel | reads before an await, transaction after it |
| Service orchestrator (`agents/service-orchestrator.js`) | `running`, the locals of each run | `run`, `#execute` with `step`, `meter`, `generateStructured` | a long chain of awaits that requests, failures and restarts interleave with |
| User payment agent (`agents/user-payment-agent.js`) | none | evaluateOffer, authorizeMaximum, verifyReceipt | decides on balances that change |
| Policy engine (`services/payment-policy-engine.js`) | none | validateAuthorization, validateSettlement | check here, use in a later transaction |
| Usage ledger (`services/usage-ledger.js`) | `usageEvents`, `usageIdempotency` | record, list, total | repeated calls, the cap |
| Pricing engine (`services/pricing-engine.js`, `domain/money.js`) | none | calculateEvent, calculateFinal, explain; parse and format | rounding, credits, minimum charge |
| Merchant billing agent (`agents/merchant-billing-agent.js`) | `settlements`, `settlementIdempotency`, `usedAuthorizationNonces` | settleAuthorizedUsage | money moves between two transactions |
| Payment rail (`payments/demo-payment-rail.js`, `payment-rail.js`) | demo: none of its own; injected: the provider's | getBalance, getDailySpend, createAuthorization, verifyAuthorization, settle | balance read and debit apart; ambiguous answers |
| JSON store (`storage/json-store.js`) | data in memory, one file, a promise chain | init, read, transaction | failing writes, deaths in mid-write |
| HTTP API (`api/http-app.js`, `server.js`, `app-context.js`, `config.js`) | configuration | one handler per route, the event stream | concurrent requests |
| Business registry (`businesses/registry.js`) | services and prices | plan, execute, registerBusinessPlugin | prices, quantities and suggested maximums that must fit each other; prices that change at a restart |
| AI provider (`ai/provider.js`) | none | generateStructured | timeouts, late answers, usage counts |
| Event hub (`services/event-hub.js`) | listeners | publish, subscribe | snapshot and events from different moments |
| Dashboard (`public/app.js`) | the page | submit, refresh, poll, stream | overlapping refreshes |
| Razorpay checks, canonical JSON, ids, errors | none | pure functions | - |

Requests reach the session service and the orchestrator through the API; both
change the store by transactions only. A run of the orchestrator calls the
business's `execute`, which calls back `step` and `meter`, which append to the
ledger; the billing agent prices the ledger, asks the policy engine, calls the
rail and records the outcome. Everything runs in one process; concurrency is
the interleaving of handlers at their awaits.

What makes each part correct:

- sessions: one charge at most, within the signed cap and equal to the price of
  the ledger; no release without a charge; no charge of a cancelled session;
  money that moved is never presented as not moved; a nonce pays once;
- runs: they end, whatever fails, and a settled session releases its result;
- ledger and prices: a key is billed once; rounding is upward and costs less
  than one atomic unit an event; the minimum never lifts the charge above the cap;
- the work of a run: the ledger tells what was done, each piece once and in order;
  what is done without being billed is bounded; the suggested maximum suffices;
- offer, authorization, settlement, receipt: the same terms throughout, also when
  the configuration changes at a restart;
- store: a transaction is atomic, durable once answered, in call order, and a
  failed one leaves no trace and does not block the next;
- user agent and rail: limits and balances hold over all sessions of a payer;
- event stream, dashboard: a subscriber misses no change; the page stops watching
  only a session that is over, and shows the last state of the one it watches.

## Modules

| Module | Models | How |
|---|---|---|
| `SessionStates` | the state machine | the whole table, and `CanTransition` |
| `Pricing` | ceilDiv, the price of an event, calculateFinal | pure operators |
| `Sums` | sumAtomic | a recursive function on how many are added |
| `UsdcText` | parseUsdc, formatUsdc | pure operators over a sign, the whole and the digits behind the point |
| `PaymentSession` | session service, orchestrator, policy, billing, rail | `run[s]` names the next await of a run, see below |
| `CappedCharge` | what a session promises | abstract specification of `PaymentSession` |
| `Services` | the three services | prices, plans, and the metered steps of each `execute` |
| `ServiceRun` | the work of a run: step, meter, generateStructured, the AI provider | the try block of `#execute`, implements the service steps of `PaymentSession` |
| `UsageLedger` | the ledger of one session | `Append`ed events, keys, cap, final charge; a price list of several |
| `Agreement` | offer service, the agent's and the policy's comparisons, receipt, restarts with other settings | extends `UsageLedger` |
| `JsonStore` | the store | `stage` names the next await of the running transaction |
| `AtomicStore` | what `store.transaction` promises | abstract specification of `JsonStore` |
| `EventStream` | event hub, streamSession, EventSource | a session is the number of its changes |
| `Dashboard` | submit handler, stream messages, poll timer, refreshes | extends `EventStream` |
| `PaymentSession_proofs`, `PaymentSession_refinement`, `JsonStore_proofs`, `Agreement_proofs`, `Dashboard_proofs`, `ServiceRun_proofs`, `ServiceRun_bill` | | theorems |
| `Sums_proofs` | | what sums obey, for the proofs about ledgers and bills |
| `MCPaymentSession`, `MCServiceRun`, `MCAgreement`, `MCJsonStore`, `MCDashboard` | | small instances |

**`PaymentSession`** is built on the promise of `AtomicStore`: each
`store.transaction` is one step that happens or fails as a whole, and a status
change in it is allowed by the table of `SessionStates`. What a handler reads
before an await and uses after it is a separate step: `RequestAuthorization` and
`CommitAuthorization`, `ValidateSettlement` and `Submit`, `DemoSettle` and
`RecordPayment`. The await of a run is followed by the one of `OnSuccess`, or,
when it throws, by the one of `OnError`: the two tables are the control flow of
`#execute` and `settleAuthorizedUsage` with their catch blocks.

| Variable | In the code |
|---|---|
| `status`, `cap`, `authorization`, `progress`, `result` | fields of a stored session; `progress` counts `execution.completedSteps`, `authorization` is the nonce |
| `total` | sum of the session's `usageEvents` (`UsageLedger` has the events) |
| `settlements`, `usedNonces` | the store's maps; the idempotency key of a settlement is a hash of session and amount, so a record in a set is stored once per key |
| `run`, `amount` | a run in memory: its next await and its local `amount` |
| `calls` | authorize requests between validation and transaction |
| `expired`, `emergencyStop` | clock and configuration |
| `transfers` | history: sessions whose money an injected rail moved |

The run's steps map to the code in order: `claim`, `activate`, `baseFee` (lines
37-49 of the orchestrator), `work`/`step` (a service's `execute` and the steps it
calls), `setResult`, `finalize` (101-102), `limit`, `limitResult`, `limitFinal`
(105-114), `caught`, `failCancel` (116-119), `settle`, `submit`, `rail`,
`record`, `payFailed`/`payUncertain` (the billing agent), `deliver` (126).
A metered event costs any of `Prices`. Left out here: the terms of an
authorization (in `Agreement`), the receipt (there too), published events (in
`EventStream`), and the date: one day is modelled, so the daily spend of a payer
is what the payer spent.

**`ServiceRun`** replaces "any price" by what the services meter. Its `run` has
the names of `PaymentSession`'s awaits, from the base fee to the exits
`setResult`, `limit` and `caught`. `steps` and `work` are what is left of the
service's `execute`; `activeStep` and `sequence` are the locals of the orchestrator
that make the idempotency keys; a `ModelCall` in the work is generateStructured,
which asks the provider and meters the two token counts when they are known. A
timed-out call stays `late` until its answer is thrown away. Amounts are the real
ones, in atomic units.

**`Agreement`** follows the terms of one session. A term has the value it had
when the session was created or another one, and a signature is the value it was
made from; what each comparison of `evaluateOffer`, `validateAuthorization`,
`validateSettlement` and `verifyReceipt` compares with what is taken from the
code field by field (`validateAuthorization` compares the deployment's settings,
`validateSettlement` the session's, except for the token). `Restart` starts the
process with one setting, secret or price list changed. A run does not survive a
restart, so restarts happen between its phases only. The session's ledger is
`UsageLedger`, which also allows what the orchestrator never does, a repeated
key with other arguments, because `record` accepts it.

**`JsonStore`** treats a database as the sequence of transactions that made it,
which makes lost, duplicated and reordered updates visible whatever the mutators do.

**`EventStream` and `Dashboard`**: a transaction and the publish after it are one
step, since nothing else can read the store between them; what each change is does
not matter to the page, which refreshes on every message, so a session is the
number of its changes and `overAt`, the change that made it terminal for the page.
A refresh is three steps (sent, answered, applied) and several of them overlap.
`newest`, `polled`, `replaced` and `lost` are history, for the properties.

Operators whose comment starts with *Faulty variant* are no part of the model:
each states a plausible mistake in the definition that follows it, and replacing
the one by the other breaks the property named for it in `PROJECT.json`, and, unless the
property is one of liveness, a step of its proof.

## Runs

| Run | Question | Instance | States |
|---|---|---|---|
| `session_faults` | Do charges match the ledger, once, for paid work only; is the promise kept; do runs end? | 1 session, 2 nonces, injected rail, prices 1, 2 and a credit of 1, cap 2..4 with minimum 2, 2 restarts, 2 failed writes | 124,674 |
| `shared_wallet` | Are nonces consumed by exactly the settlements they authorized, when sessions interleave? | 2 sessions, 1 demo wallet, 1 restart | 680,074 |
| `service_run` | Does the ledger tell the work; is what goes unbilled bounded; do the amounts told read back; do the services fit `PaymentSession`? | 3 services, 3 priorities, 1, 4, 5 and 100 pages, every cap that matters, demo and remote provider, 1 failed write | 9,120 |
| `usage_ledger` | Are keys billed once, at their rate, within the cap, on the terms that were agreed? | 3 keys, 3 price lists, quantities 0..4, cap 5, 2 restarts | 487,221 |
| `store_faults` | Is the store atomic, durable, ordered, and live? | 3 transactions, 2 deaths, 2 failing operations | 14,581 |
| `dashboard` | Does the page miss a change, or stop too early? | 2 submissions of 2 and 3 changes, 2 refreshes in flight, 1 fault | 340,523 |
| `daily_limit`, `wallet_overdraft`, `nonce_reuse` | Do limits, balances and nonces hold across sessions? They do not | 2 sessions of one wallet, no faults | |
| `moved_money_denied` | Is money that moved ever denied, after a failed write? It is | 1 session, 1 failed write | |
| `restart_withholds_result` | Is a settled session delivered, after a restart? No | 1 session, 1 restart | |
| `price_change` | Is every event priced as offered, after a restart? No | 2 keys, 3 price lists, 2 restarts | |

The bounds are enough for the cases they are about.

- Sessions interact through the payer's settlements and the nonces only, so two
  sessions of one wallet show every interference. One session needs two nonces for
  two authorize requests to race. A cap of 2..4 against a minimum of 2 and prices
  of 1 and 2 gives a subtotal below the minimum, one at the cap and one that
  crosses it; the credit gives subtotals of zero and below. `MaxCredit` keeps a
  ledger from falling for ever; it is a guard of `RecordUsage` that never restricts
  the other branches. A second fault can hit what runs after the first.
- `service_run` takes each service's real prices. A cap matters where it decides
  whether an event still fits, so the caps are every price the ledger passes
  through and one unit below each, and the suggested maximum. 1 and 4 pages are
  below the least compute time and at it, 5 rounds up, 100 is the limit of
  `validateInput`. The remote model reports nothing on either side, counts that
  fit, and counts too large on either side.
- `usage_ledger`: a divisible rate, one that rounds, a fractional credit, a base
  fee, a minimum at 3 and above the cap of 5. Two restarts can change a term and
  change it back, or change two terms.
- `store_faults`: two transactions show the order of a queue and a third is behind
  one that fails; a second death hits the recovery from the first.
- `dashboard`: the second submission is what an answer for the first can disturb;
  two refreshes are enough to overtake each other; the second session changes once
  more than the submit handler changes it.

`CHECK_DEADLOCK FALSE` is set throughout: when every session is over, every
key is used or nobody submits, the system rests.

**Fairness.** `FairSpec` of `PaymentSession` is weak fairness of each run: the
event loop resumes a settled await, timers end pauses and model calls, and the
store answers (checked in `store_faults`: `EveryCallAnswered`). Weak
fairness of `EndStep` says that a step meters a fixed number of events, which
`ServiceRun` shows for the three services. No request, clock tick, fault or
restart is fair. `FairSpec` of `ServiceRun` is fairness of the run itself, of the
demo provider, which answers at once, and of the timer of a remote request; a
remote model need not answer. (It assumes that the authentication client of the
Cloud Run provider answers: `getIdTokenClient`, `ai/provider.js:75`, is awaited
before the request and has no timeout of its own.) `FairSpec` of `JsonStore` lets
file operations end and an operator restart the process. `FairSpec` of `Dashboard`
lets requests be answered, timers fire, EventSource reconnect and messages be
handled; nothing makes the user submit or a session change.

## Where code and documents disagree

1. **Daily limit** (`daily_limit`): two sessions are authorized before either is
   settled; `evaluateOffer` counts settled payments only, and the day's spend
   exceeds the limit both were checked against.
2. **Demo wallet** (`wallet_overdraft`): both settlements read the balance
   before either is recorded.
3. **Denied payment** (`moved_money_denied`): the rail confirms, the write of
   the settlement throws, and the catch marks the session `PAYMENT_FAILED`; an
   outcome nobody knows should be `PAYMENT_UNCERTAIN`. Nothing but a failed
   write does this: `OnlyFailedWritesDenyMoney`, checked and proved.
4. **Nonce** (`nonce_reuse`): checked at validation, consumed in a later
   transaction without a second look. Needs externally signed authorizations
   that share a nonce; the demo rail never repeats one, and is safe for that
   reason alone (`DemoNoncesAreUsedOnce`). The production guide asks for a unique
   index.
5. **Result withheld** (`restart_withholds_result`): a restart after `SETTLED`
   and before `DELIVERED` strands a paid session; nothing resumes it. After the
   last fault every settling run delivers (`SettlingRunDelivers`).
6. **Prices** (`price_change`): `docs/ARCHITECTURE.md:35` has the settlement
   recalculate "every event from the session's original pricing version"; the
   code has one price list at a time and recalculates with that of the running
   process. After a restart with other prices between authorization and start,
   the session is metered and settled at the new prices under the old version.

Two more observations have no run of their own. A model call is made before it is
metered, so at the cap its work is done and not billed, where `README.md:5` says
that work that would cross the cap is blocked and the partial result says that the
agent stopped before it; `UnbilledIsOneCall` bounds it. And the answers of
overlapping refreshes can overtake each other on the page: an older answer may
replace the final one after the watch has ended, and the late answer for an
earlier session may end the watch of a new one. The properties of `Dashboard`
except exactly these (`Overtaken`, `replaced`).

## What is proved

For every set of sessions, nonces and payers, every prices, limits and bounds
that satisfy the named assumptions of `PaymentSession` (amounts are naturals,
prices integers, a payer for each session):

- `PaymentSession_proofs`: `SessionInvariant`, `Spec => []SessionInv`, and from
  it `TypeCorrect`, `ChargesMatchLedgers`, `NoSecondCharge`, `DeliveryIsPaid`,
  `NoncesMatchSettlements`, `OutcomesAreRecordable`; `MovedMoneyStands`: until a
  write fails, money that moved is not denied; and `DemoNoncesAreUsedOnce`, where
  the demo rail signs. The last two need one fact more each: once the rail moved
  money the run can only record that (`TransferInv`; a failed write breaks it,
  which is divergence 3), and the nonces of stored and of pending authorizations
  differ (`NonceInv`; external wallets break it, which is divergence 4).
- `PaymentSession_refinement`: `SessionsKeepPromise`, `Spec => KeepsPromise`:
  each step of the sessions is a step of `CappedCharge` or leaves its variables.

For every set of transactions, with `NoFile` and `Torn` distinct from every
database:

- `JsonStore_proofs`: `StoreInvariant`, `Spec => []StoreInv`, and from it
  `StoreTypeCorrect`, `SuccessIsDurable`, `FailureLeavesNoTrace`, `ReadersAreDurable`,
  `EffectsInCallOrder` and `StoreIsAtomic`, the refinement of `AtomicStore` that
  `PaymentSession` rests on.

For every set of keys and price lists, every cap, ledger length and number of
restarts:

- `Agreement_proofs`: `SettlementsAreAgreed`, `AcceptedTermsAreSettled`,
  `KeysAreBilledOnce`; `LedgersAreBilledAtRate` and `ChargesCoverTheUsage`, about the
  sums of whole ledgers; `ReceiptsAgree`, about the lines of a receipt; the types of
  both modules, `LedgerTypeCorrect` and `AgreementTypeCorrect`; and of `Pricing` what
  one event and a final charge are bounded by: `EventsBilledAtRate`,
  `MinimumStaysUnderCap`.

For every number of submissions, changes, overlapping refreshes and faults:

- `Dashboard_proofs`: `PageInvariant`, `Spec => []PageInv`, and from it
  `PageTypeCorrect`, `PageStopsWhenOver` and `StreamsTellLastChanges`.

For every job the registry validates, every cap it accepts, every token count and
number of failed writes:

- `ServiceRun_proofs`: `WorkTypeCorrect`, and `UsageIsOnTheLedger`: usage that
  lets the run go on is a new event of the ledger, never taken for a repetition.
  `AmountsReadBack`: what formatUsdc writes of any amount that is not negative
  parseUsdc reads as that amount; `ZerosAtTheEnd`: zeros at the end change nothing.
- `ServiceRun_bill`: `LedgersTellTheWork`, `OneCallIsUnbilled`, `BudgetsReadBack`,
  `SuggestedMaximumCoversTheBill` (a bound on the whole bill, for every number of
  pages) and from it `SuggestedMaximumIsEnough`; and `ServicesAreInstances`,
  `Spec => ImplementsSession`: what `PaymentSession` proves of any service holds of
  the three of the registry.

Hardly any of the properties is inductive.

*Sessions.* That a settlement equals the price of the
ledger, for instance, needs that nobody meters between pricing and recording,
which needs that the status is then past `ACTIVE`, which needs that nobody but
the run moves the session on. `SessionInv` says this: `RunInv` (the statuses
possible at each await), `LedgerInv` (totals under the cap), `AmountInv` (the
local amount is the price while a payment is under way), `SettlementInv`
(settlements, nonces and statuses agree) and `ResultInv` (where a result exists,
and when it is whole). The proof has a theorem per part and a step per action;
lemmas about the two control tables (`NextAwaits`, `StatusAtBlocks`) and about
groups of actions with the same effect (`MoveEffect`, `DurableSteps`) keep the
cases small. `session_faults` checks `SessionInv` as an invariant.

*Store.* Durability needs to know where a draft is at each await
(`FileInv`), that the queue holds each unanswered call once (`ChainInv`), and
that the file holds only transactions that were announced, orphaned by a death,
or are being published (`AnswerInv`). The order of the calls needs that everything
in the data was asked for before everything in the queue (`OrderInv`). A
transaction takes effect in the abstract store when its draft is published, or at
the death of a process that renamed the file and did not come to publish.
`store_faults` checks `StoreInv`.

*Terms.* The settlement compares the authorization with the session, the
acceptance compared it with the deployment of that moment; `AcceptedInv` remembers
that deployment. *Ledger.* A key has an answer exactly when an event has it, and
the answer is that event (`LedgerInv` of `Agreement_proofs`). A receipt is of the
terms and the ledger it was built from, and its lines are grouped before they are
added: that the groups of a ledger add up to the ledger is `GroupsAddUp` of
`Sums_proofs`.

*Sums.* A sum is a function defined by recursion on how many numbers are added. The
library's induction rule takes an operator and cannot be used, so `Sums_proofs`
proves that a set of naturals with 0 and with the successor of each of its members
is `Nat` (a least counterexample, `SetInduction`), and each fact about sums by the
set of the lengths at which it holds: a sum is an integer, it grows by what is
appended (`SumAppended`), it lies between bounds that hold term by term
(`SumBetween`).

*Work.* The keys on the ledger are older than the counter, and a step has an id of
its own, so the next key is new (`KeysInv`); a model call is the work at hand of the
step that waits for it (`AskedInv`). That the work is well typed is read off the
scripts of the three services (`ExecutionType`).

*Bill.* The bill of a run is the base fee and what each of its three steps meters,
the model's answer included as far as it is known. `PlaceInv` says where in it a run
is: the steps ahead are the end of the script, what is left of the current step is
the end of that step's work. `BilledInv` says that the ledger is the bill up to that
place: each event moves both on, and an answer extends the bill only at its end,
because the model is asked when all before it is billed. `CompletedInv` counts the
completed steps against the plan, `BudgetInv` keeps the total between zero and the
cap, and `SourceInv` says that what is still to be metered has a price
`PaymentSession` knows. With the bill known, the suggested maximum is arithmetic: a
bound on each service's bill in the number of pages. The six add up to `RunInv`;
`service_run` checks the properties that follow from it.

*Page.* Between the change of a session and the page stand a message, a refresh
that will read the store and an answer that has read it: while a stream is open,
a change that was not shown is on one of them (`ToldInv`). That needs that no
answer is newer than the store (`AnswersInv`), that the stream belongs to the
session created last (`LatestInv`), and for the end of the watch that only a
terminal answer closes the stream (`ClosedInv`).

**Model-checked only.** Liveness (`RunEnds`, `SettlingRunDelivers`,
`EveryCallAnswered`, `WorkEnds`, `PolledPageCatchesUp`), which is out of the
prover's reach. Every invariant and every step property that a run finds to hold is
proved; the six properties that are violated have counterexamples.

## Not modelled

Hashes, signatures, ids and canonical JSON are taken to be faithful (`Agreement`
compares the values they are computed from); the Razorpay checks are pure functions
over signatures that no other module calls. Amounts are atomic units throughout,
except where `UsdcText` reads and writes them. Routing, static files, parsing,
heartbeats, authentication, prompts and the texts of results carry no state.
`registerBusinessPlugin` only runs at start-up. Of the page, what only renders is
left out, and the list of usage events that a refresh fetches in a second request:
the two answers may be from different moments, which a hazard of `PROJECT.json`
records.

## Plan

1. The second request of a refresh: session and events from different moments on
   the page, and when they agree again; its properties proved from `PageInv`.
2. What the violated properties would take, stated and proved as conditions: the
   daily limit and the wallet for sessions that do not overlap.
