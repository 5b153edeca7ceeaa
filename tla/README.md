# TLA+ models of mark8ly

mark8ly is a multi-tenant marketplace: merchants run stores, shoppers fill
carts, pay, get parcels and refunds.  The commerce core is one Go service,
`src/services/marketplace-api`, that runs as several replicas over one Postgres
database.  It has no in-process coordinator: everything that can go wrong goes
wrong between SQL statements of different requests, crons and webhooks, and
between the database and providers (payment, carrier) that do not take part in
its transactions.  That is what these modules are about.  Paths below leave out
`src/services/marketplace-api/` unless they start with `src/`.

Contents: [inventory](#inventory), [modules](#modules), [runs](#runs),
[findings](#findings), [proofs](#proofs), [limits](#what-is-not-covered),
[plan](#plan).

## Inventory

| Component | State it keeps | Operations | Hard because | Correct when |
|---|---|---|---|---|
| Stock holds and checkout stock (`internal/stockhold`, `handlers/storefront/{checkout_stock,cart_holds}.go`) | `variant_stock`, `stock_holds` | Place, Release, Extend, commitStock, Sweep, the merchant's save | row locks of four kinds, a plan made from an unlocked snapshot, expiry while waiting | no unit is sold twice, promised twice or lost; requests end |
| Refunds (`internal/orderrefund`) | `refund_transactions`, `orders.refunded_amount`, gift-card ledger | Refund (tx, provider, tx), ResumePending | crash and lost answer around a provider call, overlapping sweeps, stale balances | money moves once, is booked once, never exceeds the capture; store credit follows |
| Order lifecycle (`internal/order`, `handlers/{admin,storefront}`) | three status axes, `payment_transactions`, `webhook_events` | Confirm, MarkFulfilled, Mark(Partially)Fulfilled, Cancel, payment webhooks | load-check-update without a lock, duplicated and late events | cancelled and paid in time means refunded; statuses follow their table |
| Shipments (`handlers/admin/shipments.go`, `internal/{shipping,shipmentcancel}`) | `shipments`, `order_allocations.shipment_id` | label purchase per warehouse; webhook, poll and refresh of the tracking; cancel, return, reverse pickup | carrier call between statements, late and repeated scans, partial failure | parcels, marks and labels agree; what is recorded as cancelled is |
| Allocation (`internal/allocation`) | none; `order_allocations` | Plan, recordAllocations | arithmetic over lines, warehouses and policies | the breakdown sums to the order |
| Outbox (`internal/outbox`) | `outbox_events`, cursors | enqueue in tx, batch publish, dead-letter, requeue | poison rows, requeue against publish | each event published, in order per tenant |
| Outbound webhooks (`internal/webhook`) | subscriptions, deliveries, two cursors | fan-out, claim, send, record, replay, prune | created_at order is not commit order; leases | every event of a subscription is delivered at least once |
| Gift cards, coupons, loyalty | balances, usage counts, point ledgers | debit, credit, apply, earn, expire | checks outside the transaction that acts on them | ledgers sum to balances; limits hold |
| Personalisation uploads, customer erasure (`internal/{personalisationupload,customererasure}`) | `personalisation_uploads`, order snapshots, `customer_erasure_requests`, objects in a bucket | upload, confirm, crop, claim, sweep; claim, erase, reap | rows and objects do not commit together; claims by id | an order keeps its pictures; a customer is erased once |
| Campaigns, CSV import | job rows, recipients, checkpoints | claim, send or import, pause, cancel, recover | workers without claims, crash in mid-batch | no double send or import; cancel is final |
| Subscriptions and billing | subscription status, periods, dunning | provider webhooks, crons, plan change, reconciliation | many writers under an advisory lock | the status follows its table and the provider |
| Idempotency keys | `idempotency_keys` | reserve, complete, release, sweep | crash between reserve and complete | one effect per key |
| Platform API (`src/services/platform-api`) | tenants, stores, its own outbox | onboarding, invitations, drain | visibility timeout, late outcome | every event handled |
| Auth BFF, Otto chat, web and mobile apps, infrastructure | sessions, conversations | - | - | outside this project |

How they meet: a **checkout** is one transaction that inserts the order, takes
the stock (plan, locks, decrement), records allocations, spends coupon and gift
card, and enqueues an outbox event.  A **payment webhook** later confirms the
order; a **cancel** starts a **refund**, which takes the order's row lock twice
around a provider call; a **fulfilment** request buys one label per warehouse of
the allocation.  Crons sweep expired holds and pending refunds.  No cancel or
refund puts stock back on the shelf, so stock and refunds meet only through the
order row, and are modelled apart.

`PROJECT.json` lists every component, with the reason for each one left out, and
the hazards of this code line by line.

## Modules

```
Inventory   <--refined by--  StockHold       <-- MCStockHold, StockHold_proofs
OrderStatus <-- RefundSplit, RefundSaga      <-- MCRefundSaga, RefundSaga_proofs
MCStockHold, MCRefundSaga <-- MCSales        (with a second instance of StockHold)
            <-- OrderLifecycle               <-- MCOrderLifecycle, OrderLifecycle_proofs
Functions   <-- Sums         <-- StockHold_proofs, RefundSaga_proofs, Jobs_proofs

Outbox <-- WebhookDispatch <-- MCMessages  (with WebhookWorker, PlatformOutbox)
Outbox, WebhookDispatch <-- WebhookDispatch_proofs;  WebhookWorker, PlatformOutbox <-- WebhookWorker_proofs
Requests <-- Coupon, GiftCard, Loyalty, Artwork <-- Checkout <-- Erasure <-- MCStore
             (with MCOrderLifecycle, Parcels, Allocation and three instances of RefundSaga)
CsvImport, Campaign, Trial, Subscription, RefundSaga <-- MCJobs
             (with an instance of StockHold)
CsvImport, Campaign, Trial, Subscription <-- Jobs_proofs;  Erasure, Parcels <-- Store_proofs
```

### StockHold

One *session* is one database transaction.  `quantity`, `holds`, `ordered` are
committed tables; `cart`, `todo`, `totals`, `begun`, `locked`, `taken`,
`written` are what an open transaction has: the rows still to visit, the plan,
`now()` at its start, the rows locked, and decrements and hold rows not yet
committed.  One SQL statement is one action, so statements of different
sessions interleave:

| Action | Code |
|---|---|
| `PlaceBegin`, `PlaceHold`, `PlaceInsufficient`, `PlaceCommit` | `CartHoldsHandler.Place`, one `Repository.Hold` per item, in request order |
| `CheckoutBegin` | availability snapshot and `allocation.Plan`, no lock |
| `CheckoutPastZero` | `UPDATE ... GREATEST(quantity - ?, 0)` for lines of policy `continue` |
| `CheckoutReleaseExcept`, `CheckoutHold`, `CheckoutRefused` | `ReleaseExcept`, then `Hold` in (variant, location) order, refusal on the re-check |
| `CheckoutDecrement`, `CheckoutCommit` | the two statements of `Repository.Commit`, then the commit of the order |
| `Rollback` | any error, lost connection, or deadlock victim |
| `Release`, `Extend`, `Sweep`, `Recount`, `Tick` | single statements, the merchant's overwrite, the clock |

Three kinds of locks are there because each decides something: `variant_stock`
rows (`FOR UPDATE` in `Hold`), `stock_holds` rows (any write), and
`product_variants` rows, which a decrement locks in the trigger of migration
000119 and a hold's insert share-locks through its foreign key.  READ COMMITTED
is modelled by reading the committed tables overlaid with the session's own
writes.

Abstractions: the locks of one statement are taken together; `Hold`'s lock, sum
and upsert are one step, because only the owner of the row lock can add a hold
to the row; a sweep's batch is larger than the instance.  `Extend` is in the
repository but has no production caller; it is kept because the code offers it.

`Inventory` is the abstract shelf: one step sells units that are there, one
recounts a row.  `ShelfSpec` is `Inventory` with `Rows` the gated stock rows.

### RefundSplit, RefundSaga

`RefundSplit` is the arithmetic of `split.go`: five sums to a provider slice and
a card slice.  `RefundSaga` is the protocol around it.  A *saga* is a call of
`Coordinator.Refund`: `SagaReserve` (tx 1) or `SagaReplay`/`SagaRefused`, then
the provider (`SagaGatewayAccepts`, `...Refuses`, `...Lost`), then `SagaSettle`
(tx 2) or `SagaMarkFailed`, then `SagaCancelShipments`; `SagaCrash` may follow
any step.  A *sweep* is a run of `ResumePending`: `SweepClaim` takes a batch
whose locks end at once, then each row is loaded, its cards read, its slice
derived again, the provider asked and the row settled under the guard
`status = 'pending'`.  tx 1 and tx 2 are one step each because both run under
the order's row lock, which every writer of these tables takes; the reads
between them take none and are steps of their own.

Environment: the provider moves money once per idempotency key and never more
than it captured; it may refuse (`MayRefuse`), lose an answer, and report the
refund by event (`RefundEvent`, `EventsNameOrder`).  `Age` is the passing of the
sweeper's five-minute cutoff; without `LateSettle` the saga that drives the row
is over by then, which the 30 s timeout of the HTTP client gives.
`MaxInFlight` bounds how many refunds are reserved at once and is a bound of the
instance, not of the code.  `reserved`, `booked`, `settled` are history, and so is
`raced`: whether two actors have answered for one refund (an event marked a row no
transaction had settled, a saga outlived the cutoff, or of two runs that share a row
one heard a refusal when the other moved money or had the row still to do).

### OrderStatus, OrderLifecycle

`OrderStatus` holds the three transition tables of `order/status.go`.
`OrderLifecycle` is one order and the requests about it.  Each method of
`order.Service` is `LoadOrder` (no row lock, see findings) followed by the
update that decides on what was loaded: `Confirm`, `MarkFulfilled`, `Cancel`,
`Mark`, or `Refused`.  A webhook is `Receive` (inbox), `PaymentSucceeded` or
`PaymentFailed`, then `Confirm`.  A customer's cancel is `CustomerReads`,
`CustomerGuard` (no shipments yet, or their COUNT failed), `Cancel`,
`DecideRefund`; a merchant's starts at the load.  A label request is `ShipStart` and then, per warehouse,
`BuyLabel`, `Persist`, `Stamp`, `Recount`, `LoadOrder`, `Mark`.  `Crash` ends a
request anywhere.  `RefundSettles` stands for RefundSaga's settlement.

`Together` says which requests of an instance are made at all; `late` and
`byHand` are history: money recorded after a cancel had looked, and the
merchant's own mark.  Nothing bounds the label requests under way, as nothing in the
code does; `crossed` remembers those that ran beside another.

### Outbox, WebhookDispatch

`Outbox` is `outbox_events`: a business transaction inserts a row
(`EnqueueInTx`), which becomes visible when it commits (`BusinessEnds`), so rows
appear in another order than their `created_at`.  A publisher polls a batch with
`FOR UPDATE SKIP LOCKED` (`Poll`), raises one watermark per store and axis and
stamps the rows in the same transaction (`PublishBatch`), or fails
(`PublishAborts`).  An operator requeues or dead-letters a row
(`OperatorBegins`, `RequeueOne`, `DeadLetterOne`, `OperatorRefused`).

`WebhookDispatch` extends it with the dispatcher replicas that read the same
rows: a *tick* reads a cursor (`ReadCursor`), up to a batch of rows behind it
(`ReadRows`), inserts their deliveries chunk by chunk (`FanOutChunk`) and moves
the cursor forward with GREATEST (`AdvanceCursor`), first for the prompt cursor,
then for the swept one that trails by the lookback; `TickFails` ends a tick
anywhere.  Time is absolute here because both cursors compare stamps.

### WebhookWorker

Deliveries, their subscription's counters, and the workers that send them.
`ClaimDue` leases a batch, then each delivery of it is retired, if its subscription
is disabled (`Retire`), or sent (`StartSend`, outside any transaction) and recorded
in two statements, the delivery first and the subscription's counters after
(`RecordDelivered`, `RecordSuccess`, `RecordRefused`, `RecordFailure`).
`StatementFails` is any of these going wrong: the worker logs it and goes on, and a
delivery whose outcome was not recorded is sent again when its lease ends.
`WorkerCrash` loses the batch; its leases run out.  `Replay` and the two halves
of an admin's edit (`PatchReads`, `PatchWrites`) interleave with all of that.
`wait` and `budget` are relative times, so one tick is one `WorkerTick`.

### PlatformOutbox

platform-api's outbox: `Enqueue`, `Claim` (a batch goes in flight in one
statement), `HandlerRuns`, then `MarkCompleted`, `MarkRetry` or `MarkDead`, none
of them guarded by the row's state; `MarkFails` leaves the row in flight.  A claim
also takes rows in flight longer than `Visibility`; `late` remembers the events
that were still in a drainer's hands when their window ended.

`MCMessages` puts the four on one instance: `component` says which one is at
work, the others rest.

### Requests, Coupon, GiftCard, Loyalty, Artwork, Checkout

`Requests` is the set of checkouts the others share.  `Coupon`, `GiftCard`
and `Loyalty` each hold their rows, the statements a checkout runs on them
(`CountCustomerUsage`, `IncrementUsage`; `Debit`; `RedeemPoints`; and what a
commit or a rollback does to each), and what else moves them: the merchant's
whole-row `PatchCoupon` / `SaveCoupon` and `SoftDisable`; a card's purchase, its
provider's running totals of refunds, activation, disabling, and the credit of
an order refund (`CardEvents`); enrolment, awards read outside and written inside
a transaction, adjustments and the expiry worker (`LoyaltyEvents`).  A row an
UPDATE touched is locked by its *holder* until the checkout ends.

`Artwork` has the pictures of one cart.  `upload` is the row (its state, the
number of its last crop, the age of its lease), `bucket` what is at the
original's key, `doomed` the keys of deleted rows whose objects are still to be
destroyed, `destroyed` those that were.  The buyer creates an upload, puts an
object (external), confirms it (`MarkVerified`, or `RefuseObject` for a bad
one), crops, looks, and deletes in two statements (`LoadForDelete`,
`DeleteLoaded`); `Age` ends first the URL and then the lease; `Sweep` takes the
rows and `Destroy` the objects, or fails to.  A checkout reads the rows
(`ReadUploads`) and later claims them by id (`ClaimUploads`), which waits for
whoever has them; commit writes the claim and the order's snapshot of the keys.

`Checkout` is the request around them: `Price` (reads, no lock), `Lookup` (by
idempotency key), `InsertOrder` (waits on and loses to the unique index),
`AttachArtwork`, `ApplyCoupon`, `IncrementCoupon`, `DebitCard`, `RedeemPointsTx`, `Commit`, and
`Rollback` from any of them.  The stock step of the same transaction is
StockHold's, the payment that follows OrderLifecycle's.

### Erasure

A customer's request to be erased, taken by a worker or the console
(`ClaimErasure`, which commits on its own) or refused (`Reject`).  The
transaction goes statement by statement, each seeing what is committed when it
starts: `CollectBlobURLs`, `EraseUploads`, `EraseSnapshots`, `AnonymiseOrders`,
`CommitErasure` with the receipt; then `ReapBlob` per object and
`AmendReceipt`.  `ErasureFails` unwinds and `MarkFailed` writes so in a
statement of its own; `EraserDies` leaves everything as it is.

### Allocation

`lines` is the cart, `avail` the snapshot of what is free, `drawn` the order in
which the database gives the items back.  `StockPlan` folds `Visit` over every
line at every warehouse, as `allocation.Plan` does, and `Recorded` folds
`Attribute` over the assignments, as `recordAllocations` does to find each one's
line again.  The properties are the reference: what a shopper would call short,
and what a merchant would call "from the first warehouse down".  One step is
one cart (`CannotFill`, `RecordAllocations`); both run inside the checkout's
transaction, whose locks are StockHold's.

### Parcels

One warehouse's share of an order: `row` is `shipments`, `stamp` the
`shipment_id` of its allocations, `courier` and `pickups` what the carrier has
done (external).  A *desk* is a label request (`AskLabel`, `BuyParcelLabel`,
`PersistShipment`, `StampAllocations`, or `LabelDies` in between); desks work side
by side, since nothing in the code keeps them apart.  OrderLifecycle has the
warehouses of an order.  A
*tracker* is a webhook delivery (`Scan`, `ReceiveScan`), or a poll or refresh
(`LookUp`, `GetTracking`), and ends in `Advance`, which compares with the status
it read and writes by id.  A *canceller* is one shipment's turn in
`shipmentcancel.Executor`: `ReadShipment` (with `ResolveAction` and the early
returns), the carrier (`CarrierDoes`, `CarrierRefuses`, `Unsupported`,
`AnswerLost`), `RecordOutcome`, `ReleaseAllocations`; every one of these may be
the last (`CancelDies`).  `UpdateStatus` and `DeleteShipment` are the merchant's.
`abandoned`, `contended`, `overtaken` and `disturbed` are history: the labels of
which the properties do not speak, because a process died, two requests bought at
once, two wrote over each other, or the merchant deleted the row.

### CsvImport

A *pod* is a replica's loop: `FindQueuedJobs`, `NextJob`, `ClaimJob`,
`StoreUnresolved` or `RunStart`, `Open`, then per product `ImportProduct` (its
own transaction), the two writes of a checkpoint (`UpdateProgress`,
`Checkpoint`), `CheckCancelled`, and `FinalCheckpoint`, `Complete`.  Merchants
`Submit`, and `Ask` / `Answer` to resume and cancel: read, then write.  Every
statement may fail (`StatementFails`), and the worker goes on as the code does: a
checkpoint that is not written leaves the row as it was with the worker's own count
moved, a cancel check that is not answered counts as "not cancelled", and a job may
be completed without its final checkpoint (`unsaved`).  A read of the file that
fails counts an error and no row (`ReadFails`, `unread`); heartbeats may fail while
the worker lives (`HeartbeatsFail`).  A `Crash` loses the pod's place; `Boot` finds
orphans that went stale and `PauseOrphan`s them.

### Campaign

A row, its recipients, the month's budget, the merchant's requests (each read
and save is a step, `CampaignRequest`, `CountRecipients`, `CreateRecipients`,
`SaveCampaign`) and the send workers of all replicas: `FindReady`, `Activate`,
`FindSendable`, `Beat`, `FetchBatch` (no claim), `ReserveBudget`, `SendEmail`,
`Refresh`, `Finish`, with `SenderCrash`, `SenderBoot`, `PauseStuck`.

### Trial

Operators extend a trial under an idempotency key: `ReserveKey` / `LookupKey`,
`LoadTrial` (row lock), `CheckStripe`, `UpdateTrialEnd` (Stripe), `WriteTrialEnd`,
`CompleteKey` or `ReleaseKey`; `ExtensionDies` and `SweepExpired` are the crash
and the key's expiry.  The merchant subscribes (`LoadJoin`,
`CreateSubscription`, `PersistJoin`), the nightly cron lists and then expires
(`ListEnded`, `ExpireTrial`), days pass (`Midnight`).

### Subscription

Stripe (external) sends events (`PeriodPasses`, `StripeActs`); the endpoint
`Receive`s them into an inbox and dispatches under the customer's advisory lock
(`DispatchLocked`), or counts a failure in a read and a write of the whole row
(`ReadRetries`, `SaveRetries`); the cron takes what is left
unprocessed, in the order it was received (`RunOnce`).  The merchant cancels or accepts a save offer (`AskCancel`,
`CallStripe`, `PersistSchedule`, `MoveStatus`), crons walk the ladder
(`Ladder`), list and move rows (`FindRow`, `MoveRow`) and delete at last
(`HardDelete`).

## Runs

| Run | Instance | Shows |
|---|---|---|
| `sales` | scene `warehouses`: 1 variant, 2 warehouses, 2 carts, 2 sessions, clock to 3, TTL and grace 1; scene `policies`: a gated variant and one sold past zero, two-item carts, one cart in two requests, one recount; scene `refunds`: 3 refunds of 3 units, provider events between all steps, lost answers, refusals, crashes, 2 sagas, 2 sweeps | a cart's holds move from the default warehouse to the plan's without a unit decremented, promised or swept twice; plans take their rows without circles; StockHold implements Inventory; decrements stay under their lock, no oversell; refunds are settled once, fit the capture, are booked exactly, success is final |
| `stock_variant_row` (violation) | 1 variant, 2 warehouses, 3 carts | a cycle through `product_variants` |
| `refund_event` (violation) | 2 refunds, provider event | an event can hide an unbooked refund from the sweep |
| `order_status` (violation) | five order stories, 2 warehouses, 4 webhook deliveries, crashes | two requests on one old row break the status table |
| `messages` | each of outbox, dispatcher, worker, drainer at work | rows are published once and dispatched to every subscription, deliveries have one worker and end, drainers share nothing whose window has not ended; all of it arrives |
| `outbox_window` (violation) | the same | a batch is reclaimed while its first event is handled: two healthy drainers hold one event |
| `store` | fifteen scenes, below | orders, discounts, pictures, allocations, refunds, payments and parcels agree |
| `loyalty_expiry` (violation) | the same, scene `points` | an expired earn is debited again |
| `parcel_release` (violation) | the same, scenes `labels` and `cancelling` | a cancelled label keeps its allocations |
| `parcel_delivered` (violation) | the same, scene `tracking` | a delivered shipment goes back |
| `jobs` | six parts, below | imports, campaigns, trials, subscriptions are safe; whatever was begun ends |
| `subscription_paid` (violation) | the same, part `billing` | a payment that fails and then succeeds leaves the store to the ladder |

A run that holds several *scenes* (`sales`, `store`), *components* (`messages`, `jobs`)
chooses one in its initial state and keeps it; the variables of the others do
not change.  So the instance is a sum of small instances, not their product, and
each invariant is about the scene its name or its guard says.

The scenes of `store`: `twice` (one checkout sent twice and a rival for the
card), `coupon` (three checkouts, two of one customer, while the merchant saves
the coupon), `card` (two checkouts while the card is bought, paid, refunded,
disabled and credited), `points` (a checkout while points are awarded twice,
adjusted and expired), `artwork` (an order of two pictures while the buyer
uploads, crops, replaces and deletes one of them and the sweeper comes),
`erasure` (two orders of the same pictures, one of them claimed by both, while
their customer is erased by two processes, twice at most), `shared` (orders of two
customers with pictures of the same cart, one of whom is erased), `plan` (every cart of
up to three lines of two variants, one sold past zero, over two warehouses with
-1, 1 or 2 of each), `oneByOne` (part store credit, refusals, one refund at a time,
1 sweep), `twoCards` (three refunds at once, two cards of one unit, one of
which may become void), `lateCards` (the same with two refunds whose sagas may
outlive the cutoff), `order` (five stories of payments, cancels and parcels),
`labels` (two requests side by side, up to three labels, one mishap, one edit or
delete, a cancel), `tracking`
(two trackers against the road and one edit) and `cancelling` (two cancels, a
tracker, one mishap, at most two reverse pickups).

The parts of `jobs`: `stock` (two checkouts of two variants in opposite line
order), `refunds` (two refunds of two units, crashes, lost answers, two overlapping sweeps), `import` (two files that
share a product, two pods), `campaign` (three recipients, one refused, two
senders, a budget of 4), `trial` (two extensions under one key, two subscribe
requests for different plans, two days) and `billing` (two events, a period
end, two merchant requests).

**Bounds and why they are enough.**  Two of everything that races, except where
a third takes part in the story.  Two sessions and two carts are the smallest
in which one request overtakes another, and the row is the unit of conflict; the
third cart of `stock_variant_row` places the holds that make two plans
disjoint.  Counts are 1 or 2, so the last unit is always contended.  The clock
runs to 3 with TTL and grace 1: a hold can live, expire, outlive the grace, and
be placed again.  `NoRowCycle` is checked where the two
carts contend for the same two rows, and the unsorted plan breaks it; `NoLockCycle`,
which counts every lock, is violated by the layout of `stock_variant_row`.
That checkouts of several variants end is part of `JobsEnd`.  Three refunds are the smallest in which two settle around a
third; amounts 1, 2 and "all" reach partial, exact and excess.  `MaxInFlight` is
3 (no bound) except where the property is about one at a time.  Batches are
smaller than what there is to do (1 of 3 rows in `messages`, 2 of 3 recipients
and products in `jobs`), so every batch boundary is crossed.  Attempts are
capped at 2 and thresholds set to 2, so both the first and the last attempt
occur.  Lookback 2 is one tick longer than the longest transaction, and a lease one
tick longer than a batch takes, as in the code.  The visibility window is longer than
one handler and shorter than a batch of two, as the code's defaults allow: 3 ticks
against two handlers of 2.  Mishaps (crashes, failed calls, lost
answers) are counted and bounded by 1 per behaviour in `messages`, `jobs` and the
parcel scenes,
because a second one meets the rows as a first one does; in refunds and orders
crashes are free.  `DispatchBound`, `WorkerBound`, `DrainBound`, `ImportBound`,
`CampaignBound`, `BillingBound` say which of these combine; they are conjuncts of
the instance's next-state relation, not of the module's.  LIMIT 200 of the
refund sweep and LIMIT 500 of the expiry worker are not reached.  `Captured`
equals `GrandTotal`.  In the order stories each request is made once; redelivery
is two requests with one event.

**Symmetry** is used for sessions, sagas and sweeps, which no definition tells
apart, and never in a run with a liveness property.

**Deadlock** is checked in `stock_variant_row`, where somebody can always begin or
roll back.  The other instances really stop (every request made and over, every
job ended), so their cfgs switch it off; `JobsEnd` and `EverythingArrives` are
what excludes something stuck.

**Fairness** is part of `messages` and `jobs` only.  Postgres queues those who
wait for a row and a connection runs its next statement, so a stock statement
enabled again and again runs (SF per session).  A run of the refund sweep may be
cut off, but not for ever at the same phase, and the provider answers some day
(SF per phase); refunds in progress end, rows age and Cloud Scheduler starts the
sweep every five minutes (WF).  The publishers, dispatchers, workers, drainers,
pods and senders are loops of live replicas, with a ticker, that go on after
every error (WF per replica); time passes, business transactions end, crons come
round, a request already begun runs on (WF).  Nobody owes a request, a
purchase, a click, an answer to an email, or a delivery by Stripe; crashes,
refusals and failures have no fairness either.  In `jobs`, `Persists(i)` joins the condition of a
stock session with that of a sweep phase, which are never at work together, and
so keeps the number of fairness conditions TLC has to combine small.

Every property of a passing run has a mutant, a definition with a plausible bug
placed before the one it replaces, under which the run finds it violated.  A
property with several parts has a mutant for each part.

## Findings

* `stock_variant_row`: `checkout_stock.go:226-229` says a fixed lock order rules
  deadlock out.  Two checkouts of one variant at different warehouses insert a
  hold (share lock on `product_variants` by the foreign key) and then decrement
  (exclusive lock on the same row, by trigger).  Each waits for the other;
  Postgres ends one and that shopper's checkout fails.
* `refund_event`: `handleRefundSucceeded` (`webhooks.go:789`) marks *every* row of
  the order succeeded, because `provider_refund_id` is `''` and never NULL.  If
  the saga crashes after the provider's answer, the row is succeeded, booked
  nowhere, and no sweep will look at it; the sweep cron promises "never lost".
* `order_status`: `loadForUpdate` (`order/service.go:560`) asks for a row lock with
  a setting gorm v2 does not read.  Two requests decide on the same row: a
  cancelled order becomes confirmed.
* `loyalty_expiry`: `SelectExpiredTransactions` (`loyalty/repository.go:256`) leaves
  out earns that "haven't already been expired", by a description the worker
  never writes.  The next cycle debits the same points again.
* `parcel_release`: `ReleaseAllocationsForShipment` (`shipping/repository.go:289-301`)
  sets `updated_at` of `order_allocations`, a column the table does not have
  (migration 000118, and none after it).  The statement fails, the executor logs
  it, and a label cancelled before it left can never be replaced: Create answers
  409, the dead end `shipmentcancel/executor.go:177-184` says is gone.
* `outbox_window`: `inFlightVisibility` (`platform-api/internal/outbox/outbox.go:42-47`)
  is 5 minutes, "above the longest expected handler runtime so healthy drainers never
  race their own rows", but a batch is stamped once and worked off in turn
  (`outbox.go:271-285`).  With the default batch of 50 and handlers of up to 10 s
  (`marketplaceapi/vendor_client.go:48`) another drainer claims and runs what the first
  has still to dispatch, and a late mark, which looks at no status, may undo what it
  settled.  `DrainSafe` and `NothingUndone` say that nothing else suffers.
* `parcel_delivered`: "delivered is terminal" (`handlers/admin/shipments.go:2474`), but
  an exception has no place in `statusOrder` (2475), so it overwrites `delivered` and
  is itself overwritten by `in_transit`; and of two trackers that overlap the later one
  writes by id what it compared with an older status.
* `subscription_paid`: the ladder (`subscription/dunning/ladder.go`) expires a
  store whose payment failed once and succeeded on Stripe's retry: nothing moves
  `past_due` back to `active` when the invoice is paid.

**Seen while modelling**, from reading the code against the model, not kept as
runs.

*Stock and refunds.*

* A `Place` of the same cart that commits between checkout's `ReleaseExcept` and
  `Commit` leaves a hold that is decremented for no order line
  (`stockhold/repository.go:155-172`); `StockConserved` therefore speaks of carts
  with one request at a time.
* Two partial refunds in flight that add up to the total both derive
  `partially_refunded` (`coordinator.go:237`); nothing corrects it.
* A saga's own settlement is not guarded by the row's status (`coordinator.go:352`),
  so one that outlives the cutoff settles a second time.
* With two refunds in flight and store credit, a sweep may ask the provider for
  another slice than tx 1 reserved under the same key (`coordinator.go:423-438`),
  and the reserved sum may pass the balance (`coordinator.go:187`): the numeric
  invariants of concurrent refunds are checked for orders paid through the
  provider alone.
* Card credit is bounded by the provider's total first (`split.go:100-104`): a
  refund the provider refused for good can leave the cards owed less than the
  remaining balance allows.
* A refund that failed is replayed as a conflict, so its scope is blocked
  (`coordinator.go:280-286`).  A sweep that completes a full refund does not cancel
  the shipment, the saga does (`coordinator.go:572`).  A sweep omits the order id
  order-scoped gateways need (`coordinator.go:549-552`).  A sweep the provider
  refused marks failed a row an overlapping sweep is settling
  (`coordinator.go:560`).

*Orders and parcels.*

* A merchant's confirm without payment makes the later payment webhook a
  duplicate: the payment status stays pending (`webhooks.go:641`).  A payment
  captured after the cancel looked is not refunded (`order_detail.go:859`).  A late
  `payment.failed` overwrites a captured transaction, which then cannot be
  refunded (`webhooks.go:776`, `resolver.go:109`).  A webhook whose process dies after
  the inbox insert is never applied (`webhooks.go:416`).  `MarkPaymentFailed` looks
  at no status.
* A label can be bought for an order being cancelled; overlapping label requests
  buy two labels for a parcel (`shipments.go:555-558`, `616`), and so does a retry
  after a crash between label and stamp (`shipments.go:1516`).

* Delhivery cancels and returns through one call, so a cancel that read a stale
  `pending` succeeds for a parcel that left, and is recorded as cancelled before it
  left: with the column in place its allocations would be freed for goods that
  move (against `shipping/repository.go:282-285`).  A cancel that lands between a
  label's row and its stamp leaves the stamp of a cancelled label.
* Two cancels that overlap both reach the carrier (against
  `shipmentcancel/executor.go:120-122`): two couriers fetch one return, or a
  refusal overwrites the recorded success.

*Messages.*

* An admin's edit of a webhook writes `enabled` and `consecutive_failures` back as
  it read them (`handlers/admin/webhooks.go:371-416`), so a subscription disabled in
  between comes on again.  Ten replays of one bad delivery can disable a
  subscription.  The notifier for that is nil (`cmd/marketplace-api/main.go:2232`).
* An outbox row that commits late is published without moving a watermark that is
  already past its stamp.
* In platform-api's outbox a handler that takes the process down is reclaimed without an attempt counted.

*Value.*

* `Patch` of a coupon saves the whole row, `usage_count` included.  A customer's
  overlapping checkouts pass the per-customer limit.  A checkout that is retried
  after it succeeded is refused by `Validate` or `CheckBalance` before `Create`
  finds the order by its key.
* A partial refund of a gift card's purchase that arrives before the activation is
  counted, and the card is funded in full.  A card disabled, drained and enabled
  reads active at zero.  An order refund credited after a purchase refund took
  less than it should restores value that was returned.
* Two deliveries of a payment that overlap both award points
  (`loyalty/service.go:346`); the tier is decided from the lifetime points read
  before.  `SelectExpiredTransactions` has no store filter, and a full page of 500
  rows it cannot exclude is read for ever.

*Pictures and erasure.*

* `DeleteForCart` looks for `state <> claimed` in its read and deletes by id alone
  (`personalisationupload/repository.go:143-158`): a delete that read the row before
  an order claimed it destroys the picture of a paid order, against "A claimed
  upload is NOT deletable".  `Confirm` does not look at the state
  (`service.go:228-238`): a second, oversized PUT within the URL's fifteen minutes
  destroys a claimed original.  `OrderKeepsArtwork` leaves out uploads the buyer
  withdrew in one of these ways.
* The claim is by id without a guard on the state
  (`checkout_personalisation_write.go:88-90`): two overlapping orders claim one
  upload, and erasing the customer of one destroys the other's picture; so does any
  erasure of one of two customers who ordered with pictures of one cart, which has a
  token and no customer.  `TakenAlong` names those orders, and `OrderKeepsArtwork` and
  `RowsBeforeObjects` leave them out.  An order that names one upload twice
  never matches its count of rows and can never be placed.
* A crop made after checkout read the row, and every crop before the last, leaves a
  preview no row names; so does a PUT after a delete or a sweep.
* An erasure deletes the cart's unclaimed uploads without collecting their keys
  (`customererasure/blobs.go:86-128` against `plan.go:138-158`), so those objects stay
  for ever.  An order that commits between its statements is anonymised with its
  snapshot in place, or has its snapshot deleted with its objects in place.
* A process that dies leaves a request in `processing`, which nobody takes up
  again, or, after the commit, objects whose keys are nowhere.

*CSV import.*

* For a job whose store cannot be resolved the dispatcher sets `error_message`
  (`dispatcher.go:128-131`), a column `csv_import_jobs` does not have, so the job
  stays running.
* Two `Resume`s that overlap give a job two workers.  The worker's unconditional
  `running` and `completed` overwrite a cancel (`models.go:38` calls it final).
* Recovery pauses orphans rather than queueing them, and a quick restart leaves
  them running until a later boot.  Heartbeats that fail for a minute give a job a
  second worker when another replica boots.  A completed job whose final checkpoint
  failed shows fewer rows than it dealt with (`worker.go:261`, `280-284`).  The error file is written anew on resume;
  malformed lines are counted again; a product whose creation failed after its
  commit is reported as an error.

*Campaigns.*

* A campaign for all customers panics at `service.go:346` after it has created its
  recipients, and each retry adds them again; overlapping sends and schedules
  duplicate them too.
* Two replicas both dispatch the same recipients.  A batch without progress
  "halts" the loop while the status stays `sending`.  A boot can pause a campaign
  just started.  Whole-row saves overwrite the worker's status.  Nothing sets
  `cancelled`.

*Trials and subscriptions.*

* An extension that timed out at Stripe after being applied diverges
  from the local date, though `extend.go:80-84` names another case as the one
  divergence.
* Subscribe takes an advisory lock and extend a row lock: they race, and the
  subscription is billed on the old date (against `subscribe.go:165`).
  `subscribeInTx` does not look at an existing `stripe_subscription_id`: another
  plan makes a second Stripe subscription.
* `IncrementRetry` saves a row it read without a lock and can take back
  `processed_at` or the review flag (against `stripe.go:212-214`).  The endpoint and
  the cron can dispatch one event twice; a refunded charge is then audited twice
  (against `handlers.go:730-731`).
* A crash between `CancelAtPeriodEnd` and the transition leaves the status active,
  and the later `subscription.deleted` is a no-op from there (against
  `handlers.go:204-206`).  An accepted save offer cut short, or overlapping with a
  cancel, can expire the store locally while Stripe bills (against
  `cancel/service.go:160-165`).
* An older `updated` event overwrites the period end, and finalize cuts the access
  at once.  A row that `FinalizeCron` has read and that is taken back by an accepted
  offer and cancelled again, for a later date, before its turn comes is expired at
  once too: `finalizeOne` compares the status alone (`lifecycle/finalize.go:114-122`).
  It takes three requests of one merchant between a read and a move, more than the
  instance has; the attempt to prove `BillingSafe` for any number showed it, and
  `misdated` leaves it out.  A late `failed` event after the retry was paid moves an active store to
  past due; `payment_failed` from trialing is a no-op, so a converted trial that
  never paid keeps its access.

## Proofs

TLC checks the instances above; the theorems hold for every value of the
constants that satisfies the modules' assumptions.

| Theorem | Module | Argument |
|---|---|---|
| `TypeCorrect`, `DecrementsUnderLock` | StockHold_proofs | `LockInv`: types, locks exclusive, an uncommitted decrement is of a locked row and fits its count |
| `UnitsConserved` (if `~SharedCart`) | StockHold_proofs | `ConservationInv`: adds one request per cart and `PlanKept`, what each step of a checkout still owes its plan: every planned row is in `todo` or already held with the planned quantity, and no other row is visibly held, so the decrement takes exactly the plan |
| `ImplementsShelf` (if `~SharedCart`) | StockHold_proofs | from `ConservationInv`: commits map to `Sell`, recounts to `Recount`, the rest stutters |
| `LiveHoldsSafe` (if `HoldTTL > 0`) | StockHold_proofs | per action, from `LockInv` |
| `HoldsCovered` (if `~SharedCart`, no `Recount`) | StockHold_proofs | `CoverInv`: live holds of others and what an open transaction has promised (holds written, plan still to hold, units taken) fit the row together; `Hold` keeps the room it measured because it owns the row's lock |
| `PlansNeverCircle` (if `Sessions` is finite) | StockHold_proofs | `OrderInv`: a checkout that still takes rows of its plan has locked no row that comes after one it has still to lock; of those that wait, the one whose next row comes last would have to wait for one whose next row comes later still |
| `GrantedRefundIsExact`, `RealMoneyComesFirst`, `FlightTakesWhatItSettles`, `CreditConverges` | RefundSaga_proofs | linear arithmetic over the clamped sums, for all ledger states |
| `RefundsSettleOnce` (if `~LateSettle`) | RefundSaga_proofs | a row a saga drives is unsettled, not aged and driven by it alone; sweeps hold aged rows and settle under the guard |
| `SuccessIsFinal` | RefundSaga_proofs | every write of a ledger row leaves a succeeded one succeeded, late or not |
| `PromisedWithinCapture`, `MoneyBookedOnce` (if `ProviderAlone`) | RefundSaga_proofs | as long as nobody has `raced`, `MoneyInv`: the books are the sum of the succeeded rows, pending and succeeded rows together fit the capture, a key moved nothing or its row's amount, and whoever drives a row asks for exactly that amount; so each open row has its room left at the provider |
| `TypeCorrect`, `FulfilledIsShipped` | OrderLifecycle_proofs | a mark "fulfilled" in a request's hands was chosen when all groups were stamped, and stamps are never taken back |
| `LabelsBoughtOnce` | OrderLifecycle_proofs | what a request that never ran beside another still owes is disjoint from what is stamped |
| `NothingOversold` | StockHold_proofs | `OversellInv`: with carts shared, the plan of a checkout may be eaten by another request, but what a commit allocates it has taken itself, under the row's lock |
| `CancelledIsRefunded` | OrderLifecycle_proofs | `RefundInv`: only webhooks apply money, a customer's cancel under way knows of a payment that was not late, and a cancelled paid order without a refund has a request about to start one, or one that died before it could |
| `ShippedIsFulfilled` | OrderLifecycle_proofs | `ShippedInv`, as long as no two requests crossed: a "partial" in a request's hands means a parcel is missing, and when none is, the order is marked or the one request is on its way to mark it |
| `OutboxIsSafe` | WebhookDispatch_proofs | `OutboxInv`: no stamp is in the future or before the row's last requeue, and what a publisher holds is committed, unsettled, its alone, and stamped as it read it |
| `SweepIsComplete`, `CursorsOnlyAdvance` | WebhookDispatch_proofs | `DispatchInv`: a replica's reading of the cursor is never ahead of it, the sweep and what it holds stay behind the look-back, rows still to commit are stamped after that (`MaxTransaction < Lookback`), and what lies between a replica's reading and the last row it read is dispatched or in its hands |
| `ClaimsAreSafe` | WebhookWorker_proofs | `WorkerInv`: the lease on each claimed row outlasts the turns before it (`SendBatch * RequestTimeout < LeaseWindow`), batches are distinct and disjoint, and sends are attempts plus mishaps |
| `DrainersAreSafe`, `SettledStays` | WebhookWorker_proofs | `DrainInv`: an event in hand that is not `late` is in flight and younger than its window, so nobody else may claim it; runs and attempts differ by a mark still owed, a last success and the mishaps |
| `CampaignIsSafe` | Jobs_proofs | `CampaignInv`: the recipients whose mail is paid for and not yet sent, counted as a finite set of pairs, fit what has left the budget; the mails an address can still get, counted likewise, fit replicas and mishaps; a batch still held was fetched before the pause |
| `TrialIsSafe`, `ChargesNeverSooner` | Jobs_proofs | `TrialInv`: whoever works under a key owns it, whoever holds the row lock has read the row as it is, and Stripe's end is not behind it |
| `CancellationIsKept` | Jobs_proofs | `BillingInv`: requests that never crossed are alone, a cancel under way has told Stripe before it moves the row, and the row, the request and the finalize cron's list have no date before the one promised |
| `ImportIsSafe` | Jobs_proofs | `ImportInv`: whatever states a job's progress (its row, a row a replica fetched, a worker) stands between two products, counts each row before it once, and beyond them only reads that failed, and claims as made no more than the job made; a worker stands at the product it imports next, within a checkpoint interval of its last write, and a running job has one worker unless it is `shared` |
| `ParcelsAreSafe` | Store_proofs | `ParcelInv`: what a desk, a cancel and a tracker hold agrees with the row and with the carrier as long as nobody disturbed them; a label that is sold, not abandoned and bought by a request that was alone is the one in that desk's hands or on the allocations |
| `CheckoutsAreAtomic`, `DiscountsAreSafe` | Store_proofs | `DiscountInv`: a row's lock is held by exactly the requests that have come that far, the one that has it found room, balance or points enough, uses and debits are those of the orders, and the ledgers' sums explain the balances |
| `ErasureHappensOnce` | Store_proofs | `ErasureInv`: one process at most is past its claim, and the request's status shows how far it is |
| `ArtworkIsKept` | Store_proofs | `ArtInv`: a key that is destroyed, doomed or about to be reaped is withdrawn or lost for good (row gone, no snapshot names it); what an erasure has read so far is all there is of its subject, since the rows it holds cannot be claimed; nobody deletes a row a checkout has locked |

Each inductive invariant is needed because the property alone says nothing of
the transactions in flight: `StockConserved`, for instance, is broken by a
commit from a state in which it holds, unless the open transaction's decrements
are known to be its plan.

`Sums` has what the proofs need of sums over finite sets (units on hold, money on a
ledger, rows of an import): a sum is the same whichever element is taken out, grows with its summands
and is a number.  The library's induction theorems take an operator, so each lemma
argues from a smallest counterexample (`Smallest`), which the strict subsets of a
finite set have.  `CampaignIsSafe` and `DiscountsAreSafe` count with cardinalities of
sets of units (`Total` of `Requests`), where adding, taking and replacing one
summand are lemmas about sets.

The two theorems on the money of a refund are about orders no gift card paid for
(`ProviderAlone`), and hold until two actors have answered for one refund (`raced`).
Events that name the order, sagas that outlive the cutoff and any number of sweeps are
all in the specification: what the code does once an event has settled a row no
transaction booked is the finding of `refund_event`.

`PlansNeverCircle` is about the rows the sort is for.  Transactions do lock rows in
different orders through `product_variants` (the run `stock_variant_row`), through
lines sold past zero and through the items of a `Place`; no property denies it.

The constants' assumptions are those the modules name; two carry weight: the sweep's
lookback is longer than any transaction (`webhook/dispatcher.go` states it as the
reason for the sweep) and a lease outlasts a batch (`webhook/sender.go:22-33`).

Only model-checked, because they are out of the prover's reach: liveness
(`JobsEnd`, `EverythingArrives`).  What folds a sequence of cards or of cart lines
stays with TLC too (`ReturnedInFull`, `CardsRestored`, `AllocationSafe`).
The type invariants of `messages`, `store` and `jobs` are only model-checked as they
stand; the proofs carry types of their own, without the bounds of the instance.

## What is not covered

* Multi-item `Place` against a sorted checkout, and lines past zero in line order,
  do take locks in different orders; the `stock` part of `jobs` has one-item
  carts and one warehouse, the case the code's comment speaks of.
* What follows once two actors have answered for one refund (`raced`), a provider
  that refuses a key for one sweep and accepts it for another among them.
* The single-shipment path of orders without allocations, pickups, quotes, and the row
  of a return's own leg.
* CSV import: the cap on rows (`MaxImportRows`), the parsing of a row, a stream that
  breaks in the middle of a line (a read that fails loses no row here), and one that
  is broken for good, which the loop reads for ever.  The reader takes any number of
  fields and stray quotes, so that a line it refuses is not one of the cases.
* Stock is not restored on cancel in the code; the model has no such step.
* Awarding points twice at once (`Overlapping` is FALSE in the runs), because the
  code does it (see findings).
* Pictures: the cap of 60 uploads per cart.  Erasure: the other tables of its plan
  (addresses, reviews, tickets and so on, deleted or rewritten the same way); tenant
  purge, whose objects are checked for surviving references.
* Gift cards: the email that carries the code.  Checkout: shipping, tax and the
  payment intent it opens.  Trials: cohorts and reminders.  Subscriptions: the
  audit rows, emails and plan changes.
* All components listed in `PROJECT.json` as not modelled, each with its reason.

## Plan

1. Proofs: the parts of `ReturnedInFull` and `CardsRestored` that are not sums over
   a sequence of cards.
2. Plan changes and comps against the subscription's status machine.
