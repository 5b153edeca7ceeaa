------------------------------ MODULE RefundSaga ------------------------------
(***************************************************************************)
(* Refunds of one paid order (internal/orderrefund).  A saga is one call   *)
(* of Coordinator.Refund: reserve a ledger row (tx #1), ask the provider,  *)
(* settle (tx #2).  A sweep is one run of ResumePending, which re-drives   *)
(* rows left pending.  tx #1 and tx #2 run under the order's row lock and  *)
(* are one step each; everything between them is unlocked and interleaves. *)
(*                                                                         *)
(* The provider is external: it moves money once per idempotency key, and  *)
(* never more than it captured.                                            *)
(***************************************************************************)
EXTENDS RefundSplit, OrderStatus, SequencesExt

CONSTANTS
  Scopes,        \* ScopeIDs: "cancel", a return's id, an admin's request id
  NoScope,
  Sagas,         \* calls of Coordinator.Refund
  Sweeps,        \* refund-sweep-cron runs that may overlap
  Wanted,        \* the amount a scope asks for, or All
  All,           \* no amount given: everything that is left
  GrandTotal,    \* orders.grand_total, the gateway-charged total
  Captured,      \* what the provider captured
  CardOrder,     \* the order's gift cards, oldest redemption first
  Applied,       \* what each card paid
  Voidable,      \* cards whose own purchase may be refunded meanwhile
  MaxInFlight,   \* bound on the order's refunds pending at once
  MayRefuse,     \* may the provider refuse a refund it could make?
  LateSettle,    \* may a saga outlive the sweeper's five-minute cutoff?
  EventsNameOrder \* do the provider's refund events carry the order's id?

Cards == {CardOrder[i] : i \in 1 .. Len(CardOrder)}

ASSUME RefundAssumption ==
  /\ NoScope \notin Scopes /\ All \notin Nat
  /\ Wanted \in [Scopes -> Nat \union {All}]
  /\ GrandTotal \in Nat /\ Captured \in Nat
  /\ Applied \in [Cards -> Nat]
  /\ Voidable \subseteq Cards /\ MaxInFlight \in Nat
  /\ {MayRefuse, LateSettle, EventsNameOrder} \subseteq BOOLEAN

VARIABLES
  order,     \* orders: refunded_amount and payment_status
  ledger,    \* refund_transactions, by ScopeID (the idempotency key); 'at'
             \* is the row's place in created_at order
  aged,      \* rows older than the sweeper's cutoff
  credited,  \* gift_card_transactions of type 'refund', by card
  voided,    \* cards in status 'refunded'
  shipment,  \* was the shipment canceller called?
  moved,     \* what the provider returned to the customer, by key
  told,      \* keys whose refund event was delivered
  saga, sweep,
  reserved,  \* history: the gateway slice tx #1 decided on, by scope
  booked,    \* history: what RecordRefund added for the scope
  settled,   \* history: how many transactions settled the row
  raced      \* history: was one refund answered for twice?

refundTables == <<order, ledger, credited, voided, booked, settled>>
outside == <<aged, shipment, moved, told, reserved, raced>>
refundVars == <<refundTables, outside, saga, sweep>>

LedgerStatuses == {"none", "pending", "succeeded", "failed"}

Call(pc, scope, gateway, target) ==
  [pc |-> pc, scope |-> scope, gateway |-> gateway, target |-> target]
NoSaga == Call("idle", NoScope, 0, "paid")
Run(pc, batch, seen, cards, gateway, target) ==
  [pc |-> pc, batch |-> batch, seen |-> seen, cards |-> cards,
   gateway |-> gateway, target |-> target]
NoSweep == Run("idle", {}, 0, 0, 0, "paid")

RefundInit ==
  /\ order = [refunded |-> 0, status |-> "paid"]
  /\ ledger = [k \in Scopes |-> [status |-> "none", amount |-> 0, at |-> 0]]
  /\ aged = {} /\ voided = {} /\ told = {}
  /\ credited = [c \in Cards |-> 0]
  /\ shipment = FALSE
  /\ moved = [k \in Scopes |-> 0]
  /\ saga = [g \in Sagas |-> NoSaga]
  /\ sweep = [w \in Sweeps |-> NoSweep]
  /\ reserved = [k \in Scopes |-> 0]
  /\ booked = [k \in Scopes |-> 0]
  /\ settled = [k \in Scopes |-> 0]
  /\ raced = FALSE

-----------------------------------------------------------------------------
(* The sums the ledgers are read as.                                       *)

RowsIn(status) == {k \in Scopes : ledger[k].status = status}
AmountOf(rows) == SumFunctionOnSet([k \in Scopes |-> ledger[k].amount], rows)

\* Mutant: tx #1 does not count refunds that reserved but have not settled.
NothingPending == 0

SumPending == AmountOf(RowsIn("pending"))
TotalApplied == SumFunction(Applied)
TotalCredited == SumFunction(credited)
TotalMoved == SumFunction(moved)

\* Mutant: what is pending counts as refunded already.
DeriveWithPending(refunded, amount) ==
  IF refunded + SumPending + amount >= GrandTotal THEN "refunded" ELSE "partially_refunded"

DeriveStatus(refunded, amount) ==
  IF refunded + amount >= GrandTotal THEN "refunded" ELSE "partially_refunded"

-----------------------------------------------------------------------------
(* The provider (external).                                                *)

\* A repeated key replays the first answer; a new one needs money to be left.
Accepts(k, amount) == moved[k] > 0 \/ amount <= Captured - TotalMoved
MovedBy(k, amount) == IF moved[k] > 0 THEN moved ELSE [moved EXCEPT ![k] = amount]

\* A permanent (4xx) answer: no money left, the same key with another amount,
\* or a refusal the provider does not explain.
Refuses(k, amount) ==
  IF moved[k] > 0 THEN amount # moved[k] ELSE MayRefuse \/ amount > Captured - TotalMoved

-----------------------------------------------------------------------------
(* Settling: the ledger row, the order's books and the gift cards.         *)

\* order.Service.RecordRefund succeeds: the transition is legal and the
\* guarded UPDATE finds room under grand_total.
Bookable(gateway, target) ==
  gateway > 0 =>
    /\ target \in PaymentTransitions[order.status]
    /\ order.refunded + gateway <= GrandTotal

RecordRefund(k, gateway, target) ==
  IF gateway > 0
  THEN /\ order' = [refunded |-> order.refunded + gateway, status |-> target]
       /\ booked' = [booked EXCEPT ![k] = @ + gateway]
  ELSE UNCHANGED <<order, booked>>

\* Mutant: the credit is this refund's card slice, whatever was settled before.
OwedByThisRefund(k) == Lesser(ledger[k].amount, TotalApplied)

\* Mutant: the credit is computed before the row is finalized.
OwedBeforeFinalize(k) ==
  CreditTarget(AmountOf(RowsIn("succeeded") \ {k}), GrandTotal, TotalApplied, TotalCredited)

\* What the cards are owed once k has succeeded too.
CardsOwed(k) ==
  CreditTarget(AmountOf(RowsIn("succeeded") \union {k}), GrandTotal,
               TotalApplied, TotalCredited)

\* Mutant: the first card that cannot be credited ends the loop.
StopAtVoidCard(k) ==
  LET Credit(done, c) ==
        LET amount == Lesser(done.left, Applied[c] - credited[c])
        IN IF c \in voided \/ done.left = 0
           THEN [left |-> 0, to |-> done.to]
           ELSE [left |-> done.left - amount, to |-> [done.to EXCEPT ![c] = @ + amount]]
  IN FoldLeft(Credit, [left |-> CardsOwed(k), to |-> credited], CardOrder).to

\* creditGiftCards: oldest redemption first, each card up to what it paid; a
\* card that cannot be credited is skipped and the rest goes to the next one.
CreditedAfter(k) ==
  LET Credit(done, c) ==
        LET amount == Lesser(done.left, ClampZero(Applied[c] - credited[c]))
        IN IF c \in voided
           THEN done
           ELSE [left |-> done.left - amount, to |-> [done.to EXCEPT ![c] = @ + amount]]
  IN FoldLeft(Credit, [left |-> CardsOwed(k), to |-> credited], CardOrder).to

Settle(k, gateway, target) ==
  /\ ledger' = [ledger EXCEPT ![k].status = "succeeded"]
  /\ RecordRefund(k, gateway, target)
  /\ settled' = [settled EXCEPT ![k] = @ + 1]
  /\ credited' = CreditedAfter(k)
  /\ UNCHANGED voided

\* Mutant: the UPDATE is not guarded.
MarkFailedUnguarded(k) ==
  /\ ledger' = [ledger EXCEPT ![k].status = "failed"]
  /\ UNCHANGED <<order, credited, voided, booked, settled>>

\* MarkRefundFailed: one UPDATE guarded by status = 'pending'.
MarkFailed(k) ==
  /\ ledger' = IF ledger[k].status = "pending"
               THEN [ledger EXCEPT ![k].status = "failed"] ELSE ledger
  /\ UNCHANGED <<order, credited, voided, booked, settled>>

-----------------------------------------------------------------------------
(* Coordinator.Refund.                                                     *)

Go(g, to) == saga' = [saga EXCEPT ![g].pc = to]

\* tx #1 finds a row for the ScopeID.
SagaReplay(g, k) ==
  /\ saga[g].pc = "idle" /\ ledger[k].status # "none"
  /\ saga' = [saga EXCEPT ![g] = Call(IF ledger[k].status = "succeeded" THEN "done" ELSE "conflict", k, 0, "paid")]
  /\ UNCHANGED <<refundTables, outside, sweep>>

StateAtReserve ==
  [charged |-> Lesser(GrandTotal, Captured), returned |-> order.refunded,
   applied |-> TotalApplied, cardReturned |-> TotalCredited, inFlight |-> SumPending]

AmountFor(k) == IF Wanted[k] = All THEN Remaining(StateAtReserve) ELSE Wanted[k]

\* tx #1 rejects the amount.
SagaRefused(g, k) ==
  /\ saga[g].pc = "idle" /\ ledger[k].status = "none"
  /\ ~Covers(StateAtReserve, AmountFor(k))
  /\ saga' = [saga EXCEPT ![g] = Call("done", k, 0, "paid")]
  /\ UNCHANGED <<refundTables, outside, sweep>>

\* tx #1 reserves the row; a refund without a gateway slice skips the provider.
SagaReserve(g, k) ==
  /\ saga[g].pc = "idle" /\ ledger[k].status = "none"
  /\ Covers(StateAtReserve, AmountFor(k))
  /\ Cardinality(RowsIn("pending")) < MaxInFlight
  /\ LET gateway == Split(StateAtReserve, AmountFor(k)).gateway
     IN /\ saga' = [saga EXCEPT ![g] =
                      Call(IF gateway > 0 THEN "gateway" ELSE "settle", k, gateway,
                           DeriveStatus(order.refunded, gateway))]
        /\ reserved' = [reserved EXCEPT ![k] = gateway]
  /\ ledger' = [ledger EXCEPT ![k] =
       [status |-> "pending", amount |-> AmountFor(k),
        at |-> Cardinality(Scopes \ RowsIn("none")) + 1]]
  /\ UNCHANGED <<order, credited, voided, booked, settled, aged, shipment, moved, told, raced, sweep>>

SagaGatewayAccepts(g) ==
  /\ saga[g].pc = "gateway" /\ Accepts(saga[g].scope, saga[g].gateway)
  /\ moved' = MovedBy(saga[g].scope, saga[g].gateway)
  /\ Go(g, "settle")
  /\ UNCHANGED <<refundTables, aged, shipment, told, reserved, raced, sweep>>

SagaGatewayRefuses(g) ==
  /\ saga[g].pc = "gateway" /\ Refuses(saga[g].scope, saga[g].gateway)
  /\ Go(g, "fail")
  /\ UNCHANGED <<refundTables, outside, sweep>>

\* Mutant: an error without an answer is taken for a refusal.
LostAnswerIsRefusal(g) ==
  /\ saga[g].pc = "gateway"
  /\ \/ UNCHANGED moved
     \/ /\ Accepts(saga[g].scope, saga[g].gateway)
        /\ moved' = MovedBy(saga[g].scope, saga[g].gateway)
  /\ Go(g, "fail")
  /\ UNCHANGED <<refundTables, aged, shipment, told, reserved, raced, sweep>>

\* A transient error: the answer is lost, before or after the money moved.
SagaGatewayLost(g) ==
  /\ saga[g].pc = "gateway"
  /\ \/ UNCHANGED moved
     \/ /\ Accepts(saga[g].scope, saga[g].gateway)
        /\ moved' = MovedBy(saga[g].scope, saga[g].gateway)
  /\ Go(g, "done")
  /\ UNCHANGED <<refundTables, aged, shipment, told, reserved, raced, sweep>>

SagaMarkFailed(g) ==
  /\ saga[g].pc = "fail"
  /\ MarkFailed(saga[g].scope)
  /\ Go(g, "done")
  /\ UNCHANGED <<outside, sweep>>

\* tx #2.  FinalizeRefund is not guarded by the row's status.
SagaSettle(g) ==
  LET s == saga[g] IN
  /\ s.pc = "settle" /\ Bookable(s.gateway, s.target)
  /\ Settle(s.scope, s.gateway, s.target)
  /\ Go(g, IF s.target = "refunded" THEN "cancel" ELSE "done")
  /\ UNCHANGED <<outside, sweep>>

\* tx #2 rolls back, because the books refuse the refund (it is not Bookable)
\* or the database fails: the row stays as it was.
SagaSettleFails(g) ==
  /\ saga[g].pc = "settle"
  /\ Go(g, "done")
  /\ UNCHANGED <<refundTables, outside, sweep>>

SagaCancelShipments(g) ==
  /\ saga[g].pc = "cancel"
  /\ shipment' = TRUE
  /\ Go(g, "done")
  /\ UNCHANGED <<refundTables, aged, moved, told, reserved, raced, sweep>>

\* The process dies, or the database fails, between two steps.
SagaCrash(g) ==
  /\ saga[g].pc \in {"gateway", "fail", "settle", "cancel"}
  /\ Go(g, "done")
  /\ UNCHANGED <<refundTables, outside, sweep>>

-----------------------------------------------------------------------------
(* Coordinator.ResumePending.                                              *)

\* Rows are taken in created_at order.
Turn(w, k) ==
  k \in sweep[w].batch /\ \A j \in sweep[w].batch : ledger[k].at <= ledger[j].at

GoTo(w, to) == sweep' = [sweep EXCEPT ![w].pc = to]

\* On to the next row of the batch; the run ends with its last row.
NextRow(w, k) ==
  LET rest == sweep[w].batch \ {k}
  IN sweep' = [sweep EXCEPT ![w] =
       IF rest = {} THEN NoSweep ELSE Run("load", rest, 0, 0, 0, "paid")]

Resumable == {k \in aged : ledger[k].status = "pending"}

\* The claim's lock is gone when the run goes on, so runs may share rows.
SweepClaim(w) ==
  /\ sweep[w].pc = "idle" /\ Resumable # {}
  /\ sweep' = [sweep EXCEPT ![w] = Run("load", Resumable, 0, 0, 0, "paid")]
  /\ UNCHANGED <<refundTables, outside, saga>>

\* What a run holds of the row whose turn it is.
Resuming(w, to, seen, cards) == Run(to, sweep[w].batch, seen, cards, 0, "paid")

\* Another run is about to write down a refusal it got for the row.
RefusedBefore(w, k) == \E v \in Sweeps \ {w} : Turn(v, k) /\ sweep[v].pc = "fail"

\* Another run has the row in its batch.
SharedWith(w, k) == \E v \in Sweeps \ {w} : k \in sweep[v].batch

\* The order is read without a lock; its balance may be stale when used.
SweepLoadOrder(w, k) ==
  /\ Turn(w, k) /\ sweep[w].pc = "load"
  /\ sweep' = [sweep EXCEPT ![w] = Resuming(w, "cards", order.refunded, 0)]
  /\ UNCHANGED <<refundTables, outside, saga>>

SweepReadCards(w, k) ==
  /\ Turn(w, k) /\ sweep[w].pc = "cards"
  /\ sweep' = [sweep EXCEPT ![w] = Resuming(w, "split", sweep[w].seen, TotalCredited)]
  /\ UNCHANGED <<refundTables, outside, saga>>

\* Mutant: the row being resumed competes with itself for the capacity.
CountsItself(w, k) ==
  [charged |-> GrandTotal, returned |-> sweep[w].seen, applied |-> TotalApplied,
   cardReturned |-> sweep[w].cards, inFlight |-> SumPending]

\* resumeSplit: the row itself is taken out of the pending sum.
StateAtResume(w, k) ==
  [charged |-> GrandTotal, returned |-> sweep[w].seen, applied |-> TotalApplied,
   cardReturned |-> sweep[w].cards,
   inFlight |-> ClampZero(SumPending - ledger[k].amount)]

SweepSplit(w, k) ==
  LET s == StateAtResume(w, k)  amount == ledger[k].amount
      gateway == Split(s, amount).gateway
  IN /\ Turn(w, k) /\ sweep[w].pc = "split" /\ Covers(s, amount)
     /\ sweep' = [sweep EXCEPT ![w] =
          Run(IF gateway > 0 THEN "gateway" ELSE "settle", sweep[w].batch, 0, 0,
              gateway, DeriveStatus(sweep[w].seen, gateway))]
     /\ UNCHANGED <<refundTables, outside, saga>>

\* The order, its gateway or its cards cannot be read, or the row's amount no
\* longer fits: logged and skipped.
SweepSkip(w, k) ==
  /\ Turn(w, k)
  /\ \/ sweep[w].pc \in {"load", "cards"}
     \/ sweep[w].pc = "split" /\ ~Covers(StateAtResume(w, k), ledger[k].amount)
  /\ NextRow(w, k)
  /\ UNCHANGED <<refundTables, outside, saga>>

SweepGatewayAccepts(w, k) ==
  /\ Turn(w, k) /\ sweep[w].pc = "gateway" /\ Accepts(k, sweep[w].gateway)
  /\ moved' = MovedBy(k, sweep[w].gateway)
  /\ raced' = (raced \/ RefusedBefore(w, k))
  /\ GoTo(w, "settle")
  /\ UNCHANGED <<refundTables, aged, shipment, told, reserved, saga>>

SweepGatewayRefuses(w, k) ==
  /\ Turn(w, k) /\ sweep[w].pc = "gateway" /\ Refuses(k, sweep[w].gateway)
  /\ GoTo(w, "fail")
  /\ UNCHANGED <<refundTables, outside, saga>>

SweepGatewayLost(w, k) ==
  /\ Turn(w, k) /\ sweep[w].pc = "gateway"
  /\ \/ UNCHANGED <<moved, raced>>
     \/ /\ Accepts(k, sweep[w].gateway)
        /\ moved' = MovedBy(k, sweep[w].gateway)
        /\ raced' = (raced \/ RefusedBefore(w, k))
  /\ NextRow(w, k)
  /\ UNCHANGED <<refundTables, aged, shipment, told, reserved, saga>>

SweepMarkFailed(w, k) ==
  /\ Turn(w, k) /\ sweep[w].pc = "fail"
  /\ MarkFailed(k)
  /\ raced' = (raced \/ (ledger[k].status = "pending" /\ SharedWith(w, k)))
  /\ NextRow(w, k)
  /\ UNCHANGED <<aged, shipment, moved, told, reserved, saga>>

\* Mutant: the finalizing UPDATE is not guarded by status = 'pending'.
SweepSettleUnguarded(w, k) ==
  /\ Turn(w, k) /\ sweep[w].pc = "settle"
  /\ IF Bookable(sweep[w].gateway, sweep[w].target)
     THEN Settle(k, sweep[w].gateway, sweep[w].target)
     ELSE UNCHANGED refundTables
  /\ NextRow(w, k)
  /\ UNCHANGED <<outside, saga>>

\* Only a row that is still pending is finalized; a transaction that cannot
\* be completed rolls back and leaves the row to the next run.
SweepSettle(w, k) ==
  /\ Turn(w, k) /\ sweep[w].pc = "settle"
  /\ IF /\ ledger[k].status = "pending"
        /\ Bookable(sweep[w].gateway, sweep[w].target)
     THEN Settle(k, sweep[w].gateway, sweep[w].target)
     ELSE UNCHANGED refundTables
  /\ NextRow(w, k)
  /\ UNCHANGED <<outside, saga>>

\* The run is killed (it bounds itself to two minutes) or dies.
SweepCrash(w) ==
  /\ sweep[w].pc # "idle"
  /\ sweep' = [sweep EXCEPT ![w] = NoSweep]
  /\ UNCHANGED <<refundTables, outside, saga>>

-----------------------------------------------------------------------------
(* The environment.                                                        *)

Drives(g, k) == saga[g].scope = k /\ saga[g].pc \in {"gateway", "fail", "settle"}

\* Five minutes pass.  A saga's provider call times out after 30 s, so
\* without LateSettle the saga that reserved the row is over by then.
Age(k) ==
  /\ ledger[k].status = "pending" /\ k \notin aged
  /\ LateSettle \/ \A g \in Sagas : ~Drives(g, k)
  /\ aged' = aged \union {k}
  /\ raced' = (raced \/ \E g \in Sagas : Drives(g, k))
  /\ UNCHANGED <<refundTables, shipment, moved, told, reserved, saga, sweep>>

\* A card's own purchase is refunded: it can no longer be credited.
VoidCard(c) ==
  /\ c \in Voidable \ voided
  /\ voided' = voided \union {c}
  /\ UNCHANGED <<order, ledger, credited, booked, settled, outside, saga, sweep>>

\* The provider's refund event (WebhookHandler.handleRefundSucceeded): every
\* row of the order is 'succeeded', since no provider_refund_id is NULL.
RefundEvent(k) ==
  /\ EventsNameOrder /\ moved[k] > 0 /\ k \notin told
  /\ told' = told \union {k}
  /\ ledger' = [r \in Scopes |-> IF ledger[r].status = "none" THEN ledger[r]
                                 ELSE [ledger[r] EXCEPT !.status = "succeeded"]]
  /\ raced' = (raced \/ RowsIn("pending") \union RowsIn("failed") # {})
  /\ UNCHANGED <<order, credited, voided, booked, settled, aged, shipment, moved,
                 reserved, saga, sweep>>

SagaStep(g) ==
  \/ SagaGatewayAccepts(g) \/ SagaGatewayRefuses(g) \/ SagaGatewayLost(g)
  \/ SagaMarkFailed(g) \/ SagaSettle(g) \/ SagaSettleFails(g)
  \/ SagaCancelShipments(g) \/ SagaCrash(g)

SweepStep(w, k) ==
  \/ SweepLoadOrder(w, k) \/ SweepReadCards(w, k) \/ SweepSplit(w, k) \/ SweepSkip(w, k)
  \/ SweepGatewayAccepts(w, k) \/ SweepGatewayRefuses(w, k) \/ SweepGatewayLost(w, k)
  \/ SweepMarkFailed(w, k) \/ SweepSettle(w, k)

RefundNext ==
  \/ \E g \in Sagas, k \in Scopes : SagaReplay(g, k) \/ SagaRefused(g, k) \/ SagaReserve(g, k)
  \/ \E g \in Sagas : SagaStep(g)
  \/ \E w \in Sweeps : SweepClaim(w) \/ SweepCrash(w)
  \/ \E w \in Sweeps, k \in Scopes : SweepStep(w, k)
  \/ \E k \in Scopes : Age(k) \/ RefundEvent(k)
  \/ \E c \in Cards : VoidCard(c)

RefundSpec == RefundInit /\ [][RefundNext]_refundVars

\* A request in progress ends.  Cloud Scheduler runs the sweep every five
\* minutes, crashes or not, and the provider does answer some day: whatever a
\* run is able to do again and again for a row it does in the end.
RefundFairness ==
  /\ \A g \in Sagas : WF_refundVars(SagaStep(g))
  /\ \A k \in Scopes : WF_refundVars(Age(k))
  /\ WF_refundVars(\E w \in Sweeps : SweepClaim(w))
  /\ \A w \in Sweeps :
       /\ SF_refundVars(\E k \in Scopes : SweepLoadOrder(w, k))
       /\ SF_refundVars(\E k \in Scopes : SweepReadCards(w, k))
       /\ SF_refundVars(\E k \in Scopes : SweepSplit(w, k))
       /\ SF_refundVars(\E k \in Scopes : SweepGatewayAccepts(w, k) \/ SweepGatewayRefuses(w, k))
       /\ SF_refundVars(\E k \in Scopes : SweepMarkFailed(w, k) \/ SweepSettle(w, k))

RefundFairSpec == RefundSpec /\ RefundFairness

-----------------------------------------------------------------------------
(* Properties.                                                             *)

SagaPcs == {"idle", "gateway", "fail", "settle", "cancel", "done", "conflict"}
SweepPcs == {"idle", "load", "cards", "split", "gateway", "fail", "settle"}

RefundTypeOK ==
  /\ order.refunded \in Nat /\ order.status \in {"paid", "partially_refunded", "refunded"}
  /\ ledger \in [Scopes -> [status : LedgerStatuses, amount : Nat, at : Nat]]
  /\ aged \subseteq Scopes /\ told \subseteq Scopes
  /\ credited \in [Cards -> Nat] /\ voided \subseteq Cards /\ shipment \in BOOLEAN
  /\ moved \in [Scopes -> Nat] /\ reserved \in [Scopes -> Nat] /\ booked \in [Scopes -> Nat]
  /\ settled \in [Scopes -> Nat] /\ raced \in BOOLEAN
  /\ saga \in [Sagas -> [pc : SagaPcs, scope : Scopes \union {NoScope}, gateway : Nat,
                         target : PaymentStatuses]]
  /\ sweep \in [Sweeps -> [pc : SweepPcs, batch : SUBSET Scopes, seen : Nat, cards : Nat,
                           gateway : Nat, target : PaymentStatuses]]

\* Concurrent refunds never promise more than was paid: what is pending and
\* what has succeeded fits the captured total plus the cards (the comment on
\* tx #1: without the pending sum two scopes could each clear the cap).
ReservedWithinBalance ==
  AmountOf(RowsIn("pending") \union RowsIn("succeeded"))
    <= Lesser(GrandTotal, Captured) + TotalApplied

\* The provider is never asked for more than it still holds: neither a saga's
\* slice nor one a sweep derived again.
RequestsWithinCapture ==
  LET Within(k, amount) == moved[k] = 0 => amount <= Captured - TotalMoved
  IN /\ \A g \in Sagas : saga[g].pc = "gateway" => Within(saga[g].scope, saga[g].gateway)
     /\ \A w \in Sweeps, k \in Scopes :
          Turn(w, k) /\ sweep[w].pc = "gateway" => Within(k, sweep[w].gateway)

\* "Never lost": a row leaves the sweeper's sight only together with the
\* booking of all the money the provider returned under its key.
NeverLost ==
  \A k \in RowsIn("succeeded") \union RowsIn("failed") : booked[k] >= moved[k]

\* "Never doubled": however many sagas and sweeps finish a refund, the order's
\* refunded_amount grows by what the provider returned, once.
NeverDoubled == \A k \in Scopes : booked[k] <= moved[k]

\* A refund is settled by one transaction: no saga and no sweep finishes a
\* row another one, or the provider's event before it, has finished.
SettledOnce == \A k \in Scopes : settled[k] <= 1

\* A row that succeeded keeps its outcome: a late refusal does not overwrite it
\* (MarkRefundFailed: "a row that concurrently raced to 'succeeded' is never
\* clobbered").
SucceededIsFinal ==
  [][\A k \in RowsIn("succeeded") : ledger'[k] = ledger[k]]_ledger

\* An order reads 'refunded' only when its whole total came back, although
\* each finalizer derives the status from a balance read earlier.
RefundedMeansAll == order.status = "refunded" => order.refunded >= GrandTotal

\* The cards were credited what the settled refunds entitle them to, no matter
\* who settled them, how often, or in what order.
CardsFollowLedger ==
  voided = {} =>
    TotalCredited = Lesser(ClampZero(AmountOf(RowsIn("succeeded")) - GrandTotal), TotalApplied)

\* A card that cannot be credited strands no other: something is still owed
\* only when every card that could take it has back all it paid.
VoidCardStrandsNoOther ==
  TotalCredited < Lesser(ClampZero(AmountOf(RowsIn("succeeded")) - GrandTotal), TotalApplied)
    => \A c \in Cards \ voided : credited[c] = Applied[c]

\* Two actors have answered for one refund: an event of the provider marked a
\* row no transaction had settled, a saga outlived the sweeper's cutoff, or of
\* two runs that share a row one heard a refusal when the other moved money or
\* had the row still to do.  Until that happens:

\* What is promised to the customer and has not failed fits what was paid, and
\* the provider is never asked for more than it still holds.
WithinCapture == raced \/ (ReservedWithinBalance /\ RequestsWithinCapture)

\* What the provider returned is booked: none of it leaves the sweeper's sight
\* unbooked, none is booked twice, and an order reads 'refunded' only when its
\* whole total came back.
BookedExactly == raced \/ (NeverLost /\ NeverDoubled /\ RefundedMeansAll)

\* Once nothing is pending, the customer has all the settled refunds say: the
\* provider's side is booked and the rest is back on the cards.
SettledIsReturned ==
  RowsIn("pending") = {} /\ voided = {} =>
    AmountOf(RowsIn("succeeded")) = order.refunded + TotalCredited

\* A sweep asks the provider for the slice tx #1 reserved (ResumePending: "the
\* same gateway-first rule that reserved it").
ResumedAsReserved ==
  \A w \in Sweeps, k \in Scopes :
    Turn(w, k) /\ sweep[w].pc \in {"gateway", "settle"} => sweep[w].gateway = reserved[k]

=============================================================================
