# Home Chef: a formal model of the order, its money and the apps around it

Home Chef is a marketplace for home-cooked meals: a Go API (`src/apps/api`) with PostgreSQL,
NATS, Temporal and a payment gateway, a session gateway (`auth-bff`), web front ends and four
mobile apps over one shared package. This directory holds TLA+ modules of the parts where
concurrency, partial failure and waiting users meet: the refund of an order, its payment from the
customer's screens to the crons, the chef's order board, the baskets, the session of a mobile app
and the support chat. TLC checks the modules on small instances; TLAPS proves their safety for every
instance.

Contents: 1 Inventory, 2 Modules and code, 3 Abstractions, 4 Runs, 5 Findings, 6 Proofs, 7 What
is only checked, and what is not modelled, 8 Plan.

To run: `tlc -config MC_mixed_paths.cfg MCOrderRefund`, `tlapm RefundMoney_proofs.tla`.


## 1. Inventory

`PROJECT.json` lists all 40 components with their sources. Grouped:

| Component | State it keeps | Operations | Hard behaviour | What makes it correct |
|---|---|---|---|---|
| Refund reservation (`services/refundreserve`, `refundable.go`) | `orders.payment_status`, `refund_amount`, `refunded_at` | reserve, release partial/full, remaining | every refund path races for it | one claim at a time; booked before sent; never more than paid |
| Refund coordinator (`services/orderrefund`) | `refund_transactions` | `Refund`: replay, claim + row, gateway, finalize, release, mark failed | crash between any two transactions; lost answers; retries of a scope | the claim excludes and ends; `succeeded` is true; implements the refund promise |
| Callers of the coordinator (`cancellation_order_refund.go`, customer cancel, chef reject, two crons) | `orders.status` | cancel then refund; refund then cancel | status written on a row read earlier; errors turned into nil | an ended order is refunded; an unanswered one ends |
| Legacy refund handlers (`handlers/payment.go`, `chef_order_cancel.go`, `temporal_order.go`) | same order row, `processed_events` claims | admin refund, store credit, goodwill, chef cancel, line cancel, saga compensation | each orders reserve, pay and persist differently | one claim across all paths; books balance at rest |
| Deferred refunds (`deferred_cancel_refund.go`, `temporal_refund.go`) | the `deferred` sentinel in `refund_id` | cron retry, workflow retry | three retriers, one without the lock | paid in the end, once; sentinel never lost |
| Order issues | `order_issues` | report, resolve, reject | races line cancels | a line is refunded once |
| Cancellation requests | `cancellation_requests` | request, decide, time out, dispute, rule, execute, sweep | decision and execution on stale rows; gateway call inside a transaction | owed money is carried out, capped by what is left |
| Refund reconcilers | order row | finish stuck rows, follow the gateway | cannot see how far the dead request came | every stuck row is finished, rightly |
| Payment gateway, wallet | keys seen, money sent | refund, credit | duplicated, refused, lost calls | a key moves money once |
| Payment capture and settlement (`payment_cashfree.go`, `order_payment_settle.go`, two crons) | order row, the gateway's sessions | create, verify, two webhooks, reconcile, stale-order cancel | four settlers of one order; webhooks out of order; a create request that looks, mints and stamps while the last session is captured | completed means captured; completed stays; charged once |
| Customer checkout screens (`app/payment/*`, `checkout.tsx`, `lib/payment.ts`) | the hold's latch, the open sheet, the basket | place, hold, cancel, pay, result, retry, Pay now | countdown, tap and cancel race; kills and lost answers on the sheet | basket kept until paid; a cancelled order costs nothing |
| Vendor order board (`useVendorOrders.ts`, dashboard, detail, card; `chefs.go` status handler) | query caches, decided ids, undo timers | accept, reject, advance, photograph, poll, live event | optimistic writes over polled caches; a screen closed under its timer; the customer's cancel | a hidden card is being decided; photos first; final is final; lists converge |
| Baskets (web and app `cart-store.ts`) and the web checkout | lines, kitchen, promo preview, reorder | add, replace, remove, reorder, pay | a late answer over a basket changed meanwhile, or after the page was left | one kitchen; emptied only by an order that was paid for |
| Mobile session (`mobile-shared/src/auth`, `api/client.ts`) | store, Keychain, durable identity | sign in, request, refresh and retry, log out, restart, reinstall | one refresh for many requests; three stores written in turn | nobody waits for ever; expiry signs nobody out; log-out is final |
| Support chat, outbox (`support/outbox.ts`, `useSupportChat.ts`) | outbox in memory and storage | send, drain, adopt, leave, reopen, switch thread | saves nobody awaits; a post without an answer; a screen that drains after it was left | a message is lost or repeated only by what is named; none goes to another thread |
| Support chat, live link (`useSupportChat.ts`, `sse.ts`) | refs, flags, timer | connect, reconnect, foreground, poll, tear down | teardown between awaits; dead peers nobody notices | connected is opened; what was missed arrives while the chat knows it is not connected |
| Payout holds, release, reversal; easy split | hold rows | place, release, reverse, claw back | release races refund | the chef is not paid for what was returned |
| Payout disbursement (`payouts/`) | batches, approvals, keys | propose, approve, send, poll | maker-checker, retries of transfers | a hold is disbursed once |
| Ledger, wallet | double entries, balances | post, spend, grant | shadow writes | entries balance, no negative balance |
| Outbox, NATS, consumers | outbox rows, dedup rows | enqueue, relay, consume, dead-letter | duplicates, order, poison messages | every committed event arrives; effects happen once |
| Meal plans, group orders, subscriptions | days, escrow, invoices | skip, refund, resolve, bill | per-day refunds against a plan cancel | escrow conserved |
| Delivery and retries | deliveries, attempts | assign, fail, retry | late courier callbacks | one outcome per order |
| Loyalty, promotions, referrals | points, redemptions | earn, redeem, reverse | double earn or reversal | points conserved |
| Kitchen capacity | slot counters | take, give back | last seat; cancel twice | never oversold, never negative |
| Accounts, identity, admin, auth-bff | users, challenges, sessions, queues | lifecycle, OTP, MFA, approvals | purge against open money; attempt limits | small protocols |
| Notifications, statements, the other screens, deployment | none shared | output | best effort | no money or order state |

How the refund parts interact. No two of them call each other across processes: they share rows.
The customer, the chef, an admin, two crons, a Temporal activity and a cancellation executor
each load the order, and all meet at one conditional write, the flip of `payment_status` from
`completed` to `refunded` under the row lock (`refundreserve.ReserveInTx`). `refund_amount`
grows in the same write, *before* the gateway is called outside the transaction, so that the
next reservation is capped by what is already committed to. A later transaction finalizes or
releases. What keeps a retry from paying twice is the idempotency key of the gateway call:
derived from the scope (coordinator, full refunds), from the `refund_amount` before it (partial
refunds), or from the line. Reconcilers pick up the rows that dead processes leave.

How the app parts interact. The checkout screens and the API share only the order row and the
gateway's sessions: create, verify, webhooks and crons all read the row, ask the gateway and write
conditionally, and the screens learn the outcome by asking again. The vendor's screens share one
query cache and one API row, which the customer's cancel also writes. Every request of every
mobile app goes through the session's interceptors. The chat's outbox and its link are two halves
of one hook: the first owns what is sent, the second what is received; they share the thread on
screen and nothing else. A cancel the payment or board model ends with is where the refund
modules start.

The hazards of `PROJECT.json` name the lines where this can go wrong; those without properties
carry the reason (proved without a run, outside the model, or not kept by the code). Sections 5 and 7 name more.


## 2. Modules and code

| Module | Models | State |
|---|---|---|
| `RefundReserve` | `refundreserve/reserve.go`, `refundable.go`, the row rewrites of the reconcilers and of line cancels | none: operators on an order row |
| `OrderMoney` | the tables one order's refunds share; gateway and wallet as the code uses them; acceptance and delivery | `order`, `lines`, `ledger`, `paid` |
| `RefundPromise` | abstract specification: book, send, give back, abandon, or book and send in one transaction | `booked`, `sent`, `held` |
| `RefundCoordinator` | `orderrefund/coordinator.go`, `orderrefund_gateway.go`, `cancellation_order_refund.go` and its four callers | `cmd` |
| `RefundHandlers` | refund handlers of `payment.go` and `chef_order_cancel.go`, saga compensation, issues, deferred retry | `req`, `claims`, `issue`, `flow` |
| `CancellationRefund` | cancellation requests and `cancellation_execute.go` | `cr`, `job` |
| `OrderRefund` | all of them on the same rows, plus the reconcilers | the union |
| `CheckoutPayment` | the app's checkout, hold, sheet, result and Pay now; `payment.go`, `payment_cashfree.go`, `order_payment_settle.go`, the reconcile and stale-order crons | `screen`, `settled`, `cancelCall`, `create` per request, `order`, `session`, `hooks`, `loaded`, ... |
| `VendorBoard` | `useVendorOrders.ts`, `useVendorDashboard.ts`, `useOrderDetail.ts`, `ActiveOrderCard.tsx`, the order's screen; the status handler of `chefs.go`, the cancels of `orders.go` | `server`, `photo`, `cancels`, caches, `fetch`, `hidden`, `timers`, `puts` |
| `WebBasket` | the web `cart-store.ts`, `CartPage`, `ChefDetailPage`, `OrderDetailPage` (reorder), `CheckoutPage` (order, payment, sheet, verify) | `items`, `chefId`, `promo`, `reorder`, `page`, `orders`, `here` |
| `PhoneBasket` | the app's `cart-store.ts`, its dialogs and reorder | `items`, `chefId`, `dialog`, `reorder` |
| `SessionClient` | `provider.tsx`, `bff-session.ts`, `zitadel.ts`, `storage.ts`, `install-guard.ts`, `useAuth.ts`, `client.ts` | stores, `grant`, `minted`, `live`, the flows `req`, `refresh`, `signIn`, `out` |
| `SupportOutbox` | the outbox half of `useSupportChat.ts`, `outbox.ts` | per screen `hook`, `store` (asked for) and `disk` (landed), `inbox`, `open` |
| `SupportLink` | the connection half of `useSupportChat.ts`, `sse.ts` | `conn` per connect call, refs, flags, `timer`, `stale`, `shown` |
| `RefundClaims_proofs`, `RefundMoney_proofs` | theorems about the coordinator and all refund paths: who holds the claim; what happens to the money | none |
| `SupportLink_proofs`, `SupportOutbox_proofs` | theorems about each half of the chat | none |
| `CheckoutPayment_proofs` | theorems about paying, and about both baskets | none |
| the other `*_proofs` | theorems about the module of that name | none |
| `MCRefundCoordinator`, `MCOrderRefund`, `MCSupportOutbox` | instances for TLC | none |

Every step of a process is one database transaction or one call that leaves the process; the
phase (`pc`) of a command, request or job says which comes next, and the record holds the locals
that survive (the amount reserved, the amount before it, the payment status read). The row lock
makes each reservation one step.

*Order row.* `pay` is `payment_status`; `refundAmt` `refund_amount`; `perLine` the sum of
cancelled lines, which moved both `total` and `refundAmt`; `refundID` tells no id, the deferred
sentinel and a real id apart; `owed` is `cancelled_refund_owed`, what the sentinel stands for.
`Remaining` is `RemainingRefundable`.

*Coordinator.* `Load`, `CancelFirst` are the callers (handlers load, cancel, then refund; crons
load, refund, then `VoidOrder`). `ReplayCheck` is the unlocked look at the scope's ledger row;
`Reserve` the transaction of claim and ledger insert with its five outcomes and its rollbacks
(over-ask, unique key); `Classify` the second look that tells a finished refund from one in
flight; `CallGateway`, `Finalize`, `ReleaseClaim`, `MarkFailed`, `StampRefundID` follow.
`Answer` turns the three errors `RefundOrderForCancellation` swallows into nil.

*Handlers.* `Accepts` is each handler's own pre-check; `Submit` claims the client key;
`ReserveOrder`/`ReserveLine`, `PersistCancel`, `Pay`, `SwapSentinel`, `Persist`,
`ReleaseOrder`/`ReleaseLine`, `Unclaim` follow the order in which each path runs them (the
chef's cancel persists *before* it pays, the others after). `ResolveIssue` is one transaction
that looks at neither `payment_status` nor the claim. `RetryDeferred` is the cron under the
lock, `FlowPay`/`FlowPersist` the workflow without it.

*Cancellation.* `VendorDecide`/`VendorSave` split the read from the whole-row save; `Execute` is
one transaction with the gateway call inside it: lost claim, nothing to move, paid, or rolled
back with the gateway's effect kept.

*Payment.* `Place` posts the order with the chosen credit. A create-payment request reads the row
(`CreateRead`) and works on what it read: credit for the whole order is refused or taken
(`CreditRefused`, `CreditTaken`) and the row then marked paid, or not (`CreditSettles`); otherwise
the gateway is asked about the session the row named (`CreateFindsPaid`, `CreateReuses`,
`CreateReprices`, `CreateKeepsId`), an order is created there (`CreateMints`), and the row is stamped by id
(`CreateStamps`). The requests are numbered: `Mine` is the one the app waits for, the others are
those it gave up (`Leaves`), which the API goes on with. On the hold, `Proceed` (countdown or tap)
and `CancelTap` compete for `settled`; `CancelRead` and `CancelWrites` are the API's two halves of
a cancel, `Cancelled` and `CancelFailed` its answers. `Capture`, `Decline` and `Expire` are the gateway's;
each outcome leaves a webhook in `hooks`, a set, so they arrive in any order or not (`WebhookLost`).
`Webhook`, `SheetPoll` and `Finish` (verify, while the sheet is open and as it closes) and
`Reconcile` settle the row with the guards of `order_payment_settle.go`; `SettleLoads` and
`SettleWrites` are a verify or sweep that is slow to hear from the gateway. `StaleProbe` and
`StaleCancel` split the stale-order cron at its gateway call. `overtaken` remembers that a write
decided on an older row hit a paid one.

*Vendor board.* A React Query key has a cache and at most one fetch under way (`asked` or `read`,
with the data the server answered); `Poll` asks, `FetchAnswer` installs, `FetchFails` drops, and
a mutation's cancelQueries resets it. `Decide` hides the card, writes the caches and arms a timer;
`Fire` sends it, whatever became of the screen. `Put` reads the row, writes it conditionally,
answers; `PutLost` loses the answer; a failed decision brings its card back, a failed advance
restores what `undo` recorded. `CustomerCancels` reads the row, `CancelWrites` cancels it by id.
`CardAdvance`, `DetailPreparing`, `DetailPhoto` act on the status of *their own* cache.

*Baskets.* Each mutation of the store is an action; what a page or a closure captured before an
await (`reorder`, `asking`) is state. Each order of the web checkout carries how far the handler
that asked for it has got (`step`); the page may be left at any time, the handler goes on, and
`here` tells whether the page on screen is the one that started it. `Ends` is the gateway deciding
an attempt at any time.

*Session.* A flow advances from await to await: `req[r]` through sent, refused, waiting for the
shared refresh, retried, or the teardown of a request that cannot be refreshed; `refresh` through
identity, issuer, write-back, token mint, Keychain, store; `signIn` and `out` likewise. `grant` is
the stored refresh token's standing at the issuer: `RefreshRotate` spends it there, `RefreshWrite`
stores the new one, and `KillCut` is the app killed in between. Tokens are numbers
into `minted`; `live` is what the server accepts. `Kill` ends every flow and reloads the store
from the Keychain; `Reinstall` runs the fresh-install guard.

*Chat.* A hook's drain is `DrainDue`, `Record` (the service stores the post), then one of
`Confirm`, `PostUnanswered`, `PostRefused`; adopting a thread is split at the read of the saved
outbox (`OpenConversation`/`Resume`, `FinishLoad`). A save changes `store`, which later reads return,
at once and `disk`, which a kill leaves, when it lands (`Land`). `Unmount` stops the retry timer and
leaves a post, a read and the drain after connecting under way. `caught` and `raced` remember what
the hook does not stand up to (section 5). In the link each connect call is a slot moving through token, stream, ticket and socket;
`OnOpen`, `Drop`, `PeerDies`, `NoticeDead`, `Unauthorized`, `SseUnavailable` are the transport's
callbacks, `WsCloses` the late one of a socket the hook closed, and the shared references are
overwritten as in the code.

Definitions whose comment starts with "Mutant:" are deliberate wrong variants of the definition
that follows them. Nothing uses them; each stands for a bug the property named in `PROJECT.json`
must catch.


## 3. Abstractions

* One order. No refund path reads another order's refund state.
* Amounts are integers (paise). Rupee floats and their rounding, tax shares, and the split of
  one refund between gateway and wallet are left out: one refund moves one amount on one rail.
* Order statuses are folded to those refunds tell apart: `accepted` also stands for preparing,
  ready and out for delivery, so the stuck-order cron may lose its guarded write although the
  folded status still matches. Payment `failed` is folded into `pending`: neither can be
  refunded.
* The payment is captured at the start.
* Typed escrow orders (meal plan, catering, group) are skipped by these paths and here.
* The gateway answers a key it has seen with the first result and turns down what exceeds the
  capture. Both are the provider's behaviour that the code relies on.
* A fault is a constant set: `refused` (call turned down), `lost` (paid, answer lost), `crash`
  (the process dies between two steps), `persist` (a write after the money fails). A restarted
  cron is the same command loading again; a client's retry is another request.
* The fifteen minutes of the stuck sweep exceed the life of a request, so it acts only when no
  live process holds the claim.
* Duplicate requests are told by the client's `Idempotency-Key`; the time-windowed fallback key
  is not modelled. The check for an open issue and the insert are one step. The fault policy
  that grants issues is the constant `Grant`.
* Payment: one Cashfree order of one customer. Credit is none, part or all of the price. What a
  verify or sweep hears at once is one step; the slow one is two. A killed app comes back on the
  order's page. The gateway answers a create call by its key (order and price), else by its id, as
  `CreateOrder` and its 409 rely on. Two debits of one full-credit order are one, which their
  idempotency makes them; wallet debits after a capture and what completion triggers are left out.
  Bounds of the model: one slow settlement and one cancel at a time.
* Vendor board: pickup orders only (no courier). Uploading a photo and the status call it leads to
  are one tap; the order page's query is answered in one step. A fault is a failed fetch or call,
  a lost answer, or a customer who cancels or asks to: one budget for all.
* Baskets: a dish stands for a dish with its add-ons; the phone store has been hydrated; checkout
  is not begun while a reorder is under way. The web line's id is what the code makes it: the
  millisecond and the rounded price.
* Session: the Keychain never fails. The hosted login's browser is one step that ends well or not.
  An issuer that rotates returns a new token, one that does not returns none or the same; nothing is
  written then.
* Chat: messages and threads are numbered in the order they are made; storage carries out its calls
  in the order they were made and does not fail, but a save lands after the hook has gone on;
  backoff is untimed. The service has no key to recognise a repeated post, as in the code. A stream
  whose peer is gone may be noticed (an error, the end of the request) or not: nothing in the code
  watches for the heartbeat.


## 4. Runs

Bounds: a captured amount of 100; commands, requests, issues and workers are named in each cfg
and each runs once, except crons and sweeps, which repeat. Amounts are chosen so that two never
fit the order together (40 and 70, 70 and 50), or are equal (40 and 40) where a key could be
shared; there are two lines, of 60 and 40. Most races here need two competitors and a third
process that meets what they left, so three to five actors reach them; the coordinator's
theorems lift the bound altogether. Nothing else is capped: the state spaces are finite.
`CHECK_DEADLOCK FALSE` everywhere: when all requests have been answered the system may rest.

| Run | Question | Size |
|---|---|---|
| `coordinator_claim` | Two partial refunds that do not fit together and a cron, with refusals, crashes, failed writes: does the claim exclude (`SoleClaimHolder`), are succeeded rows true (`SucceededMeansPaid`), does it implement `RefundPromise` (`PromiseKept`), so that money is booked before it is sent? | 130 k states |
| `coordinator_ends` | Customer, chef and both crons end the order; answers get lost. Do claims and pending rows end (`ClaimsEnd`), is an ended order fully refunded (`EndedIsRefunded`), does the unanswered order end (`PaidOrderIsAnswered`)? | 42 k |
| `mixed_paths` | Customer cancel, admin refund, chef cancel, goodwill, saga, with refusals: one claim across paths (`OneClaimAcrossPaths`), `BooksBalanceAtRest`, `RefundedMeansPaid`, every answered refund moved its own money (`RefundMovesMoney`), `SentinelKept`, and together the paths implement `RefundPromise` (`PathsKeepPromise`) | 69 k |
| `lines_and_issues` | Two line cancels, store credit, an issue on each line, all of refused/crash/persist: a line is refunded once (`LineRefundedOnce`), and money is booked before it is sent (`PaidIsRecorded`) | 85 k |
| `recovery` | Crashes of an admin refund, a chef cancel, a cancellation request; reconcilers and sweeps run: `DeferredIsPaid`, `StuckIsFinished`, `CancellationIsExecuted` (executed means received, up to what a dead sibling had booked), and no retry pays too much (`NeverOverRefund`) | 12 k |
| `cancellation_rulings` | Chef, admin, sweep decide and execute, disputes, refusals, crashes, next to an admin refund: `BookedWithinTotal` | 50 k |
| `checkout_payment` | One order with any two of a decline, a kill and a lost call, webhook or write, a request the app gave up, any credit, both crons: is the basket kept until paid (`BasketKeptUntilPaid`), is completed captured (`PaidIsCaptured`), charged once (`ChargedOnce`), final (`CompletedIsFinal`); does a cancel on the hold cost nothing (`CancelledIsUncharged`); is a capture confirmed in the end (`CapturedIsConfirmed`)? | 934 k, 75 s |
| `vendor_board` | One order, one opening of its screen, one fault: `HiddenIsDeciding`, `PhotoComesFirst`, `BoardSettles`, and an order that is over is left alone but by a cancel that had read it (`FinalStays`) | 1.5 M, 2.5 min |
| `session_client` | One user, two requests, at most three events among log-out, guest request, expiry, failure, kill (also one that cuts the token's rotation), reinstall: `WaitersHaveRefresh`, `LoggedOutStaysOut`, `StaysSignedIn`, `RequestsEnd` | 1.1 M, 90 s |
| `support_link` | Three connect calls, two messages, four faults, event stream served or not: `ConnectedIsOpened`, `MissedIsRecovered` | 545 k, 40 s |
| `support_outbox` | Two messages, two threads, one fault, a thread closed, screen left and reopened while it drains, saves landing late: `NothingVanishes`, `RepeatsFollowFaults`, `DeliveredWhereWritten`, `NothingStalls` | 1.0 M, 45 s |
| `sweep_cancels_unrefunded` | expects a violation: finding 1 | |

Bounds of the app runs. `checkout_payment`: `MaxSessions = 2` leaves nothing out, since
`CheckoutTypeCorrect` proves that no third session is ever minted; two faults in all (`FaultBudget`) let
a settler fail with the app gone, and an earlier attempt race a later one; one request the app gave up
(`MaxLeft`) is what overtaking needs, and the theorems hold for any number. `vendor_board`: orders do not share
more than lists and the decided set, which are per order; one fault is what separates each
optimistic write from its undo, and the theorems hold for any number. `session_client`: two
requests are what sharing a refresh needs; three events make an expiry, a kill and a failure
meet in one behaviour. `support_link`: three slots are a first connect, its reconnect and the
foreground's. `support_outbox`: two messages are needed for order and for overwriting, two threads
for the box that moves. It has one screen, opened again only once what it awaited has ended; two
screens that overlap are in the theorems, which hold for any number, and TLC passed them with one
message. What has landed is read by a kill only, so `MCSupportOutbox`'s view leaves it out of a
state that has no fault left.

Scope of the passing runs. `coordinator_ends` has lost answers and no crashes: a crash between
claim and finish leaves a pending ledger row nothing sweeps (section 5), so `ClaimsEnd` is a
property of processes that live. `BooksBalanceAtRest` and `PathsKeepPromise` are checked without
lines and crashes, `BookedWithinTotal` and `NeverOverRefund` without lines; `NeverOverRefund` in `recovery` has no
disputes. The theorems' hypotheses (section 6) say which of these limits matter and
why. `PaidIsRecorded` is checked where answers are not lost: after a lost answer the claim is
released although the money went, and only the shared key makes the retry safe, which
`EndedIsRefunded` checks instead; `coordinator_ends` has no failed writes. `session_client` is the
admin app, whose log-out calls the provider's signOut. `ChargedOnce` speaks of sessions of one price,
`CapturedIsConfirmed` of orders without an earlier decline. Where the code does not keep what its
comments say, the property names the exception as narrowly as the model can tell it: `overtaken` in
`CheckoutPayment`, `cancels` in `FinalStays`, the count of `cut` kills in `StaysSignedIn`, `caught`
and `raced` in the outbox, `stale` and a dead stream in `MissedIsRecovered`, `Stranded` in
`CancellationIsExecuted`. Without its exception TLC finds each of them violated in its run, but
`RepeatsFollowFaults`, for which it takes a second screen. Section 5 says what happens there.

**Fairness.** Weak fairness on every step of a running command and request (a goroutine that
runs keeps running; a crash disables its steps); weak fairness on the crons' `Load`, on
`RetryDeferred`, `SweepOwed` and `FinalizeStuckRefund` (tickers of the API process, restarted
with it), and on the saves that follow a decision. Strong fairness on `Execute(w)`: a crash
takes the executor back to idle, and liveness needs that of infinitely many attempts one gets
through; the sweep repeats for ever, and a process that crashes at the same point of every tick
for ever is not what its operators would leave running. No fairness on requests, decisions,
disputes or the gateway's goodwill: `recovery` has no `refused` fault, which is the assumption
that the gateway eventually takes a valid call.

In the apps: weak fairness on `Reconcile` (a ticker of the API), on the lists' polls and their
answers (an interval of the query client while the app is in front), on a refresh and a request in
flight (an await of a running process that is answered or times out: by axios's timeout for the
client's own calls; `bff-session.ts:97` and `zitadel.ts:113` set none and lean on the platform's), and
on the chat's refresh, which ends one way or the other, and its poll, of which one of many is
answered. None on users, on `Capture`, on verify, on webhooks, on live events, on connecting, or on
noticing that a stream's peer is gone: these may never come.


## 5. Findings

The run that exhibits one:

1. `sweep_cancels_unrefunded`: the unaccepted-order cron cancels "only if the money actually
   moved", but reads nil, which is also the answer for a refund still in flight. If that one is
   refused, the order is cancelled and nobody refunds it (`cancellation_order_refund.go:82`).

Other disagreements between code and comments met while modelling. The modules show each when the
constant named is changed or the property named is stated; no run of the project repeats them, and
the checked properties are stated so that they do not claim what fails here.

Refunds:

* An admin's ruling on a disputed cancellation treats the chef's decision as refunded and credits
  the difference outside `refund_amount` (`admin_cancellation.go:91`, against "cumulative ≤
  Total"). `NeverOverRefund` fails in `MCOrderRefund` with disputes.
* The stuck-refund sweep finishes any row left mid-refund; one whose request died *before* the
  gateway call looks the same (`stuck_refund_reconcile.go:104`).
* Partial refunds are keyed by the `refund_amount` before them, documented as only advancing; a
  released line cancel takes it back, and a later refund is answered from an earlier key
  (`chef_order_cancel.go:1003`, `gateway_idempotency.go:60`). `RefundMovesMoney`, with lines.
* A process that dies between the coordinator's claim and its finish leaves a pending ledger row;
  "a sweep reconciles stranded rows" (`coordinator.go:264-265`) and none does. `PendingRowsEnd`,
  with crashes.
* A line cancel books the whole line without capping it by what remains (`chef_order_cancel.go:889`).
* A cancellation that lost the claim is marked executed once `refund_amount` reaches what it owes,
  on the ground that it "is stamped only after a sibling's gateway SUCCESS"
  (`cancellation_execute.go:45-50`). The reservation grows it before the gateway is called
  (`reserve.go:248`). A sibling that then dies leaves the customer unpaid and the request closed, and
  one that is refused gives the amount back after the mark. So `CancellationIsExecuted` counts what
  dead requests had booked (`Stranded`).

Payment:

* A retry posts `{useWallet: false, useLoyalty: false}` as a body, which the API takes for a new
  choice: it prices the order again and mints a second session (`lib/payment.ts:181`,
  `payment.go:97`), although reuse is to keep "exactly one live session per order"
  (`payment_cashfree.go:94`). So `ChargedOnce` is about sessions of one price.
* The session is read, replaced and stamped in three steps, the last by the order's id alone
  (`payment_cashfree.go:96`, `:122`, `:179`). A capture of the old session in between leaves the row
  naming a session nobody paid: completed if its webhook came first, and never confirmed if not,
  since webhook, verify and sweep all look for the new one. `overtaken` marks this in
  `PaidIsCaptured` and `CapturedIsConfirmed`.
* When the old session cannot be read, or a request the app gave up is still under way, the gateway
  answers with a session of another price (the 409 of `cashfree.go:469`), which is stamped with this
  request's credit. A smaller capture is then completed by the webhook, which does not compare
  amounts (`payment_cashfree.go:495`), and refused by verify and sweep.
* A full-credit order whose mark-paid transaction failed is answered `paid: true`
  (`payment.go:185-203`). Both clients empty the basket; the order stays unpaid with the credit
  taken, and Pay now charges the gateway as well. So `BasketKeptUntilPaid` speaks of credit taken.
* A session that expired keeps its id (only a payable one is replaced, `payment_cashfree.go:111`), so
  create goes on answering 500, or with a session, replayed by its key, that nobody can pay, although
  `bumpCashfreeOrderID` is for a session that is "dead, or priced for a different amount" (`:340-341`).
* Any error of the hold's cancel undoes the latch, also a lost answer to a cancel that landed
  (`hold.tsx:118`), and an app killed while it cancels comes back where it can pay. The API's cancel
  checks on one read and writes by id (`orders.go:1021`, `:1041`). So `CancelledIsUncharged` has every
  call answered and none cut.
* The stale-order cancel writes by id alone after its gateway call (`stale_order_cron.go:274`). So
  `CompletedIsFinal` excepts it.
* The result screen takes `failed` for final while a new attempt of the same session is pending
  (`result.tsx:116`).
* The reconcile sweep selects `pending` only, so a capture after a declined attempt, with webhook
  and verify lost, is never confirmed (`order_payment_reconcile_cron.go:108`).

Vendor board:

* Leaving and reopening the order's screen within the three seconds gives a fresh guard and lets a
  second decision be armed (`useVendorOrders.ts:300`).
* An accepted order's optimistic entry is overwritten by a poll that is not cancelled
  (`useVendorOrders.ts:329`).
* The freeze for a cancellation request is read outside the write it guards (`chefs.go:1700`).
* The customer's cancel checks the status of a row read earlier and writes `cancelled` by id alone
  (`orders.go:1021`, `:1041`): it overwrites a rejection or a handover that came in between. So
  `FinalStays` excepts a cancel that had read the order.

Baskets: line ids of a reorder collide for two dishes of one price (web `cart-store.ts:138`); a
promo's answer is stored over a basket changed meanwhile (`CartPage.tsx:70`); a reorder compares
the kitchen its page rendered, not the store's (`OrderDetailPage.tsx:196`); removing the last line
in the app leaves the kitchen behind and a reorder elsewhere adds nothing (`cart-store.ts:137`); the
web checkout's handler goes on after its page was left and clears whatever the basket holds by then
(`CheckoutPage.tsx:545`, `:623`).

Session: logging out of the customer app keeps the durable identity, and the next 401 signs the
user in again (`useAuth.ts:118`; `ProviderSignOut = FALSE`); the fresh-install list misses it too
(`install-guard.ts:39`); the teardown of a guest's refused request undoes a sign-in that completed
meanwhile (`client.ts:168`); a refresh begun for one user writes its token under the next
(`provider.tsx:119`); an app killed between the issuer's rotation of the refresh token and the
write-back (`zitadel.ts:211`, `:217`) keeps a spent token, and the next refused request gets
`invalid_grant`, which clears the identity (`:221`) and signs the user out. So `StaysSignedIn` excepts
that kill.

Chat, outbox. `outbox.ts:1-8` has a message saved "the instant the user hits send" and a lost one
"impossible", and retries after network errors and 5xx only.

* Nobody awaits a save (`useSupportChat.ts:119`): an app killed before the first one lands loses the
  message (`caught`), and one killed before a confirmed item's removal lands posts it again (`cut`).
* A screen left while it drains saves its outbox over that of the one opened again, and adopting
  queues an item again whose post is under way (`:311`), so that reopening the chat while it drains
  duplicates a message without any fault. A message sent while the saved outbox is being read is
  lost by that read (`:309`). Both are `raced`.
* A closed thread leaves a queued item waiting for ever (`:316`).

Chat, link. The header promises that a missed live frame is "never permanent" (`:6-7`, `:424-425`).

* A stream whose peer is gone without an error or an end keeps `connected` true: `sse.ts` ignores the
  heartbeat (`:27-28`) and has no timer, and polling stays off (`:430`).
* A failed refresh of an opened stream is not repeated (`:298`). `MissedIsRecovered` excepts these two.
* The late onclose of a web socket the hook shut clears the reference of a newer one and may connect
  again (`:282-287`); a refused event stream never reaches the socket it is said to fall back to
  (`:248`).


## 6. Proofs

All theorems hold for every value of the constants under the modules' named assumptions, which TLC
evaluates in every run (the baskets' are hypotheses of their theorems).

| Module | Theorem | Statement |
|---|---|---|
| `RefundPromise` | `PromiseIsSafe` | `sent <= booked <= Capture` in every behaviour |
| `RefundClaims_proofs` | `CoordinatorTypeCorrect` | `[]CommandTypeOK` |
| | `CoordinatorExcludes` | `[]SoleClaimHolder` |
| | `CoordinatorKeepsPromise` | refinement of `RefundPromise`, if `"lost" \notin Faults` |
| | `CoordinatorRecordsPaid`, `CoordinatorNeverOverRefunds` | `[]PaidIsRecorded`, `[]NeverOverRefund`, same |
| | `CoordinatorRepliesTrue` | `[]SucceededMeansPaid`, lost answers included |
| | `CoordinatorRefundsEnded` | `[]EndedIsRefunded`, if `AllInFull` |
| | `PathsExclude` | `[]OneClaimAcrossPaths` over every refund path |
| `RefundMoney_proofs` | `OrderTypeCorrect` | `[]TypeOK` of all paths together |
| | `SentinelStays` | the action property `SentinelKept`, under every fault |
| | `BookedWithin` | `[]BookedWithinTotal`, if `NoLineCancels` |
| | `PathsPromise` | `PathsKeepPromise`: all paths refine `RefundPromise`, if `Honest` |
| | `PathsNeverOverRefund` | `[]NeverOverRefund`, if `Honest` |
| | `PathsRecordPaid` | `[]PaidIsRecorded`, line cancels and issues included, if `PaysAsBooked` |
| | `LinesRefundedOnce` | `[]LineRefundedOnce`, if `"lost" \notin Faults` |
| | `RefundsMoveMoney` | the action property `RefundMovesMoney`, if `Honest` |
| | `BooksBalance` | `[]BooksBalanceAtRest`, if `Exacting` |
| | `RefundedWerePaid` | `[]RefundedMeansPaid`, if `Exacting`, without issues and cancellation requests |
| `CheckoutPayment_proofs` | `CheckoutTypeCorrect` | `[]TypeOK`, and at most two sessions |
| | `PaymentIsCaptured`, `BasketWaitsForPayment`, `CustomerIsChargedOnce`, `CancelCostsNothing` | the four invariants of `checkout_payment` |
| | `PaymentIsFinal` | the action property `CompletedIsFinal` |
| | `WebBasketIsOneKitchens`, `CheckoutEmptiesPaid` | the web basket's `[]OneKitchen`, and `EmptiedMeansPaid` |
| | `BasketIsOneKitchens` | the phone basket's `[]OneKitchen` |
| `VendorBoard_proofs` | `BoardTypeCorrect`, `HiddenCardsComeBack`, `PhotosComeFirst` | invariants |
| | `DecisionsAreSent`, `FinalIsFinal` | action properties `DecisionIsSent`, `FinalStays` |
| `SessionClient_proofs` | `SessionTypeCorrect`, `NoWaiterIsForgotten`, `LogoutIsFinal` | invariants |
| | `ExpirySignsNobodyOut` | the action property `StaysSignedIn` |
| `SupportOutbox_proofs` | `OutboxTypeCorrect`, `DeliveredToItsThread`, `OutboxNeverStalls` | `[]TypeOK`, `[]DeliveredWhereWritten`, `[]NothingStalls`, screens overlapping or not |
| | `MessagesAreKept`, `RepeatsAreRetries` | `[]NothingVanishes`, `[]RepeatsFollowFaults`, until screens race |
| `SupportLink_proofs` | `LinkTypeCorrect`, `ConnectedWasOpened` | `[]TypeOK`, `[]ConnectedIsOpened` |

The hypotheses are properties of an instance's constants. Each excludes behaviour in which the
code does not do what the property says (sections 2, 4 and 5), and a run that checks the property
satisfies it:

* `AllInFull`: every caller asks for the whole order, calls are not refused and no process dies.
  A refused refund of a customer's cancel leaves the order cancelled and unpaid until the customer
  asks again. Lost answers and failed writes are included.
* `NoLineCancels`: a line's cancel books the whole line without looking at what remains.
* `PaysAsBooked`: `"lost" \notin Faults`, because an unanswered payment is given back although it
  was sent; and `CreditsOnly`: cancellations are carried out to store credit and no admin rules on
  a dispute, because a refund to the original method is called inside a transaction that may be
  rolled back after the money went, and the admin's adjustment is outside `refund_amount`. Crashes,
  refusals and failed writes stay, and so do line cancels.
* `Honest`: `PaysAsBooked` and `NoLineCancels`.
* `Exacting`: `Honest`, and no fault but a refused call, and coordinator commands for the whole
  order. A crash or a failed write leaves an amount booked that nobody sends, and two partial
  refunds under one scope can share the ledger row of a failed one: the books are then not what
  was sent. `RefundedWerePaid` also leaves out issues and cancellation requests: an issue's credit
  that reaches the total stamps `refunded_at` whatever `refund_amount` stands for, and a
  cancellation that keeps everything stamps it too.

*Coordinator.* The typed state plus `SoleClaimHolder` is inductive: a claim is won only from
`completed`, and only the holder's `Finalize` or `ReleaseClaim` leaves `refunded`. Exclusion alone
does not bound the money, because a holder could hold any amount and a release could give back
more than was booked. `Inv` therefore adds `Funded`: the order's total stays the captured amount,
no line was cancelled by the coordinator, each holder's amount is positive. With it each concrete
step maps to a step of `RefundPromise` or a stutter: `Reserve` to `Book`, `CallGateway` to `Send`
when the key was unused and to a stutter or `Abandon` otherwise, `ReleaseClaim` to `GiveBack`, a
crash while holding to `Abandon`. Under the mapping `held` is the sole holder's amount, which is
why exclusion is proved first. The assumption on `"lost"` is needed: after a lost answer the
coordinator releases money it has sent, so `TotalPaid <= order.refundAmt` fails for a while; TLC
covers that case (`coordinator_ends`). `SucceededMeansPaid` needs no such assumption: `Backed` adds
that whoever is about to write "succeeded" has paid under its key, and keys only accumulate.
`EndedIsRefunded` rests on `Repaid`: under the shared key of the full refund either the capture was
sent (`Settled`), or nothing was (`Unsent`) and then somebody is at the gateway, or the row is
untouched and whoever cancelled the order is still on the way there. A lost answer leads from the
second to the first, and no second call under the key moves anything.

*All paths.* `ExclusionInv` says who holds the claim (`Exclusive`: at most one command or request,
none of both, and the row reads refunded), and that what is held is an amount (`HeldIsAmount`):
without it the chef's cancel, which goes on without a claim when it lost, could not be told from
one that holds. Every step is shown to take a free claim, to let its own go, or to leave the claim
alone (`Takes`, `Leaves`, `Passes`), and `Exclusion` is proved once from the three. The sweep that
finishes stuck rows would give a claim back for somebody else; its guard is that no live process
holds one.

*The money of all paths.* `RefundMoney_proofs` first types the whole state (`TypeOK`, on top of
`ExclusionInv`) and then tells what every step writes, column by column, once: `Effects` reduces
`Next` to some twenty kinds of effect of a command, a request or anything else. Each invariant
after it is proved against these kinds, not against the actions.

* `SentinelKept`: `SentinelInv` says that a sentinel stands on a row that is closed to everybody
  (`Sealed`) until its refund is paid, and that whoever is about to drop it has paid, or finds
  none there (`Earned`). The chef's own request, the cron, the workflow and the coordinator's last
  write drop it, and two reconcilers rewrite the column.
* `BookedWithinTotal`: `Plain` (without line cancels the total is the capture and what is booked is
  within it) with `AmountsHeld`.
* `PathsKeepPromise`: `held` is mapped to `Pledged`, the amount of whoever may still send or give
  back: a command, a request, or, once a chef's cancel has written it, the sentinel (`Owing`). The
  chef's request, the cron and the workflow then pay one pledge under one key. `PledgeInv` says
  that the sentinel is there with its amount when one of them pays, and that wallet keys are fresh.
  An issue's or a cancellation's credit is `BookAndSend`.
* `RefundMovesMoney`: `Firm`, what is booked less what somebody may still give back, never falls,
  every key derived from `refund_amount` was used below it (`UsedBelow`), so the next is new
  (`KeyedFresh`). This is the argument of the comment at `gateway_idempotency.go:60` for one path;
  it needs the promise of all of them.
* `LineRefundedOnce`: `LinesHeld` (a line whose cancel is being paid is cancelled, by one request,
  and a paid line is never given back) and `CreditsCount` (what an issue was credited leaves out
  the lines it names that are gone). Values of sets of lines are folds over finite sets; that they
  add up is proved by looking at a smallest set for which they would not.
* `PaidIsRecorded` needs more than the promise: line cancels book beside the claim, several at a
  time, and take from the total what a refund may have booked already, so the paths do not refine
  `RefundPromise` with them. `BookedFirst` is what remains: sent, plus pledged, plus the value of
  the lines booked and not yet sent or given back (`LinesDue`), is within `refund_amount`. One
  line is due to one request only (`LinesHeld`), which makes that value a sum over a set of lines.
  TLC checked it over the mixes of all paths before it was proved.
* `BooksBalanceAtRest`: `Exact`, sent plus pledged is booked. Its steps need that an answered key
  was new: `KeyedFresh` and, for the full refund and the saga's, `FullInv` (once either is paid the
  row is closed).
* `RefundedMeansPaid`: `StampsInFull`, a stamped row has everything booked and no partial refund
  that might still be given back.

*Payment.* `CheckoutInv` has one part per thing several actors write. `Prices`: the gateway has at
most two orders, one per price, and the second was made after the first. `RowNames`: a row, in place
or read by whoever is about to write it, names an order the gateway has; a webhook of success is
true; a row that all credit pays was debited. `Requested`: what each create request, waited for or
given up, has done, step by step (`PaidFor` is the answer of one that says paid). `Ordered`: past the
checkout there is a row. `PaidIsCaptured` adds `Steady`: until an app is killed or an answer lost
there is one create request (`Alone`), and the row's session has the row's price (`AtItsPrice`).
`CancelledIsUncharged` adds `Hold` (until the hold is over nobody tried to pay, and a cancel is under
way only behind the latch) and `Uncharged` (a cancelled order leaves no way to the gateway), until an
answer is lost or a cancel cut. Faults are only ever counted up (`FaultsGrow`), so that a state which
has had none came from one.

*Board.* `CallsAreFine` says that a call for a photographed status has its photo and that one which
read the row does not move it out of a final status, a cancel of the customer's excepted; `Queries` that a fetch's data are a list; the footer's flag that one instance decides one thing at
a time (`OneAtATime`). Timers and calls carry the number of the instance that made them, so that
one whose screen was closed is told apart from the one opened again.

*Session.* `SessionInv` types the stores and flows and adds that a log-out which counts had the app
to itself (`LoggingOutAlone`) and what it leaves (`LoggedOut`). `CalmInv` carries
`StaysSignedIn`: with at most one session ended (`OneEnded`), the identity is kept from the first
sign-in on (`IdentityKept`), whoever is signed in has a token in the store and in the Keychain
(`TokenKept`), the stored refresh token is unspent but while its successor is being written
(`NotSpent`), and a retry carries a token the server accepts (`RetriesAreFresh`); so no request
reaches the teardown (`NobodyLeaves`). All of it holds until an app is killed while the token is
spent (`Calm`).

*Baskets.* Web: `LinesAreKitchens` is the property line by line; `OrderIsBasket` says that while
the page that placed an order is on screen (`here`) the basket is what that order holds, from which
`CheckoutEmptiesPaid` follows for the handler that is still on its page. Phone: `DialogIsAlike`, a pending dialog's
dishes are of one kitchen. The basket modules have no run of their own; TLC checked the properties
on small menus before they were proved.

*Chat outbox.* `OutboxOK` types the hooks and says that an id is in an outbox once, which is what
makes removing a confirmed item by its id right. `Belong` carries `DeliveredWhereWritten`: every
copy of a message, in memory, in storage, in a read under way or in a post, names the thread it
was written in. `Steady` carries `NothingStalls`, hook by hook: what is marked sending is the post,
and on an open thread a queued item has a post or a drain ahead. These hold whatever overlaps. The
other two hold until screens race, and `raced` never goes back. Until then one hook acts at a time
(`Alone`), and the actions are told by what they leave of box, read and post (`StepKinds`). `Saved`:
while the user has one thread, every message of it that support has not recorded, but those caught
before their first save landed, is in its saved outbox, and in the box of a hook past its read, so
that saving the box over it loses nothing. `RecordedOnce`: a recorded message none of whose posts
ended badly, and whose removal no kill overtook, was recorded once, and while its thread is open
either its post is about to be answered or no copy is left that could be posted. `OpenHere`: what is
kept for an open thread, saved or about to be, is kept under that thread only, so that the answer
removes the last copy.

*Chat connection.* `ConnectedIsOpened` is inductive as it stands: whatever ends a connection also
takes the chat for disconnected, the other ones still open or not.


## 7. What is only checked, and what is not modelled

Liveness (`ClaimsEnd`, `PaidOrderIsAnswered`, `DeferredIsPaid`, `StuckIsFinished`,
`CancellationIsExecuted`, `CapturedIsConfirmed`, `BoardSettles`, `RequestsEnd`,
`MissedIsRecovered`) stays with TLC: fairness and `ENABLED` are out of the prover's reach. Every
safety property a run checks is proved, `NeverOverRefund` and the like under the hypotheses of
section 6, which the runs satisfy too. Induction over data is not available as a rule; where a sum
over a finite set or a position in a sequence needs it, the proof takes a smallest counterexample.

Hazards seen and not pursued: a status call not sent because the app was put away within its
three seconds; an undo bar that listens to another instance of the hook; one open issue report per order enforced by an
unlocked count; a chef's cancel that crashes between its reservation and its sentinel; threads
merged on screen when the chat switches; a ticket that fails after the screen was left.

Not modelled, with the reasons in `PROJECT.json`. In the API: payouts and splits, ledger, outbox,
meal plans, groups and subscriptions, delivery, loyalty, capacity, accounts and identity, admin
queues; the plan takes them up as far as they have concurrent state. Within the modelled parts:
refund webhooks, the chef's retained share, the saga's waits and signals, automatic issue refunds,
the payout cross-guard; Stripe's sheet, plan charges, tips, slots and quotes; couriers and line
cancels on the board; the legacy identity provider.

In the TypeScript, most lines are screens: forms over one call, lists, styles and copy. They keep
no state between two steps that another actor can change, and a model of them would restate the
markup. What is modelled is where a screen or a hook holds a latch, a timer, a cache or an outbox
across an await. So the share of lines covered stays low: a large screen such as the vendor's
order page has a handful of handlers and two thousand lines of layout, and the map names the
handlers. The delivery app is decommissioned (`apps/mobile-delivery/SUNSET.md`). Candidates left, with state of their own:
the drafts of the registration and onboarding forms, the group order's shared basket.


## 8. Plan

Done, in this order: the refund modules and the coordinator's proofs; the support chat, the mobile
session, payment, the vendor board, the baskets, with their proofs; exclusion across all refund
paths; the money of all refund paths and the chat's outbox proved.

Next:

1. `PayoutHold` (place, release, reverse) composed with `OrderRefund`'s row. Abstract: money given
   to the chef plus money returned never exceeds the capture. Run: release racing refund, reversal
   after release.
2. `OutboxRelay`: enqueue in the transaction, relay with retries, consumers that deduplicate.
   Abstract: exactly-once effect. Liveness: every committed event is applied or dead-lettered.
3. `CheckoutPayment` composed with the coordinator: a late capture of an order already cancelled.
4. `PayoutBatch` (`payouts/`): maker-checker, transfer keys, status polls.
5. `MealPlanEscrow`: per-day skip, deliver, refund, plan cancel; escrow conserved.
6. `DeliveryAttempt`, `Capacity`, `Wallet`/`Loyalty`, `AccountLifecycle`,
   `OtpChallenge`.
7. Pure algorithms as functions, against reference definitions: refund split across rails,
   tax-share rounding, line value apportioning.

Proofs to add with them: the refinements of `PayoutHold` and `OutboxRelay`.
