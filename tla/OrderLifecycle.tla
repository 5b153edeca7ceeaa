---------------------------- MODULE OrderLifecycle ----------------------------
(***************************************************************************)
(* One order between the requests that move it: payment webhooks, the      *)
(* merchant's confirm, fulfil and cancel, the customer's cancel, and label *)
(* purchase per warehouse.  Every method of order.Service reads the order, *)
(* checks the transition and then updates by id; the read takes no row     *)
(* lock, so two requests may decide on the same old row.                   *)
(***************************************************************************)
EXTENDS OrderStatus, Integers, FiniteSets

CONSTANTS
  Requests,       \* HTTP requests and webhook deliveries
  Kind,           \* what each request asks for
  Event,          \* the provider event a webhook request delivers
  Outcome,        \* what the event says: "succeeded" or "failed"
  Together,       \* which requests are made, one set per instance of the story
  Groups          \* warehouses the order is allocated to, in id order

Kinds == {"webhook", "confirm", "confirmPaid", "fulfill",
          "adminCancel", "customerCancel", "ship"}
Of(kinds) == {r \in Requests : Kind[r] \in kinds}

ASSUME RequestsAssumption ==
  /\ Kind \in [Requests -> Kinds]
  /\ Together \subseteq SUBSET Requests
  /\ \A r \in Of({"webhook"}) : Outcome[Event[r]] \in {"succeeded", "failed"}
  /\ IsFiniteSet(Requests) /\ Groups \subseteq Int /\ Groups # {}

\* ORDER BY warehouse_id: whichever groups are left, one of them comes first.
ASSUME OrderAssumption ==
  \A groups \in (SUBSET Groups) \ {{}} : \E g \in groups : \A h \in groups : g <= h

VARIABLES
  order,       \* orders: status, payment_status, fulfillment_status
  tx,          \* payment_transactions.status
  inbox,       \* webhook_events
  refund,      \* has a refund with ScopeID "cancel" been reserved?
  shipped,     \* groups whose allocations carry a shipment_id
  shipments,   \* groups with a row in shipments
  labels,      \* external: labels the carrier sold, by group
  request,
  late,        \* history: was money recorded after a cancel had looked for it?
  byHand,      \* history: did the merchant mark the order fulfilled?
  crossed      \* history: label requests that ran beside another

books == <<order, tx, inbox, refund, late, byHand>>
parcels == <<shipped, shipments, labels, crossed>>
vars == <<books, parcels, request>>

Order(status, payment, fulfillment) ==
  [status |-> status, payment |-> payment, fulfillment |-> fulfillment]
NewOrder == Order("pending", "pending", "unfulfilled")

\* Where a request is, the order it loaded, the payment the customer's cancel
\* found, the groups a label request still has to ship and the mark it chose.
Request(pc, seen, paid, todo, mark) ==
  [pc |-> pc, seen |-> seen, paid |-> paid, todo |-> todo, mark |-> mark]

Init ==
  /\ order = NewOrder /\ tx = "pending" /\ inbox = {} /\ refund = FALSE
  /\ shipped = {} /\ shipments = {} /\ labels = [g \in Groups |-> 0]
  /\ \E made \in Together : request = [r \in Requests |->
       Request(IF r \in made THEN "idle" ELSE "done", NewOrder, FALSE, {}, "none")]
  /\ late = FALSE /\ byHand = FALSE /\ crossed = {}

At(r, pc) == request[r].pc = pc
Become(r, new) == request' = [request EXCEPT ![r] = new]
Go(r, pc) ==
  Become(r, Request(pc, request[r].seen, request[r].paid, request[r].todo, request[r].mark))
\* The transaction ends: what it loaded is forgotten.
Leave(r, pc) == Become(r, Request(pc, NewOrder, request[r].paid, {}, "none"))

\* "orphaned": the process died between a committed cancel and its refund.
Over == {"done", "dead", "orphaned"}

-----------------------------------------------------------------------------
(* order.Service: load, check, update.                                     *)

Seen(r) == request[r].seen

\* loadForUpdate: First() of gorm v2, which ignores "gorm:query_option".
LoadOrder(r) ==
  /\ At(r, "load") \/ (At(r, "idle") /\ Kind[r] \in
       {"confirm", "confirmPaid", "fulfill", "adminCancel"})
  /\ Become(r, Request("update", order, request[r].paid, request[r].todo, request[r].mark))
  /\ UNCHANGED <<books, parcels>>

RecordsPayment(r) == Kind[r] \in {"webhook", "confirmPaid"}

MayConfirm(r) ==
  /\ "confirmed" \in OrderTransitions[Seen(r).status]
  /\ RecordsPayment(r) => "paid" \in PaymentTransitions[Seen(r).payment]

MayFulfill(r) ==
  /\ "fulfilled" \in OrderTransitions[Seen(r).status]
  /\ "fulfilled" \in FulfillmentTransitions[Seen(r).fulfillment]

MayCancel(r) == "cancelled" \in OrderTransitions[Seen(r).status]

\* A customer's cancel that read the order before the money was recorded.
Unaware == \E r \in Of({"customerCancel"}) :
  request[r].pc \in {"guard", "load", "update"} /\ ~request[r].paid

Confirm(r) ==
  /\ At(r, "update") /\ r \in Of({"webhook", "confirm", "confirmPaid"}) /\ MayConfirm(r)
  /\ order' = Order("confirmed", IF RecordsPayment(r) THEN "paid" ELSE order.payment,
                    order.fulfillment)
  /\ late' = (late \/ (RecordsPayment(r) /\ Unaware))
  /\ Leave(r, "done")
  /\ UNCHANGED <<tx, inbox, refund, byHand, parcels>>

MarkFulfilled(r) ==
  /\ At(r, "update") /\ r \in Of({"fulfill"}) /\ MayFulfill(r)
  /\ order' = Order("fulfilled", order.payment, "fulfilled")
  /\ byHand' = TRUE
  /\ Leave(r, "done")
  /\ UNCHANGED <<tx, inbox, refund, late, parcels>>

Cancel(r) ==
  /\ At(r, "update") /\ r \in Of({"adminCancel", "customerCancel"}) /\ MayCancel(r)
  /\ order' = Order("cancelled", order.payment, order.fulfillment)
  /\ Leave(r, "refund")
  /\ UNCHANGED <<tx, inbox, refund, late, byHand, parcels>>

\* ErrInvalidTransition: the transaction rolls back.
Refused(r) ==
  /\ At(r, "update")
  /\ \/ r \in Of({"webhook", "confirm", "confirmPaid"}) /\ ~MayConfirm(r)
     \/ r \in Of({"fulfill"}) /\ ~MayFulfill(r)
     \/ r \in Of({"adminCancel", "customerCancel"}) /\ ~MayCancel(r)
  /\ Leave(r, "done")
  /\ UNCHANGED <<books, parcels>>

-----------------------------------------------------------------------------
(* Payment webhooks.                                                       *)

\* INSERT ... ON CONFLICT DO NOTHING: a repeated event is dropped.
Receive(r) ==
  /\ At(r, "idle") /\ r \in Of({"webhook"})
  /\ inbox' = inbox \union {Event[r]}
  /\ Go(r, IF Event[r] \in inbox THEN "done" ELSE "apply")
  /\ UNCHANGED <<order, tx, refund, late, byHand, parcels>>

PaymentSucceeded(r) ==
  /\ At(r, "apply") /\ Outcome[Event[r]] = "succeeded"
  /\ tx' = "captured"
  /\ late' = (late \/ order.status = "cancelled")
  /\ Go(r, "load")
  /\ UNCHANGED <<order, inbox, refund, byHand, parcels>>

\* The update is not guarded by the transaction's status.
PaymentFailed(r) ==
  /\ At(r, "apply") /\ Outcome[Event[r]] = "failed"
  /\ tx' = "failed"
  /\ Go(r, "done")
  /\ UNCHANGED <<order, inbox, refund, late, byHand, parcels>>

-----------------------------------------------------------------------------
(* Cancel by the customer, and the refund of a cancelled order.            *)

\* The handler's own read: the refund is decided on this payment status.
CustomerReads(r) ==
  /\ At(r, "idle") /\ r \in Of({"customerCancel"})
  /\ Become(r, Request("guard", NewOrder, order.payment = "paid", {}, "none"))
  /\ UNCHANGED <<books, parcels>>

\* The COUNT of shipments may fail, and then the cancel goes on.
CustomerGuard(r) ==
  /\ At(r, "guard")
  /\ \E pc \in {"load"} \union {IF shipments = {} THEN "load" ELSE "done"} : Go(r, pc)
  /\ UNCHANGED <<books, parcels>>

\* The merchant's cancel reads the order again after the commit.
FoundPaid(r) ==
  IF r \in Of({"adminCancel"}) THEN order.payment = "paid" ELSE request[r].paid

\* Mutant: a cancelled order takes no refund.
RefundableOpen == tx = "captured" /\ order.payment = "paid" /\ order.status # "cancelled"

Refundable == tx = "captured" /\ order.payment \in {"paid", "partially_refunded"}

DecideRefund(r) ==
  /\ At(r, "refund")
  /\ refund' = (refund \/ (FoundPaid(r) /\ Refundable))
  /\ Go(r, "done")
  /\ UNCHANGED <<order, tx, inbox, late, byHand, parcels>>

RefundSettles ==
  /\ refund /\ "refunded" \in PaymentTransitions[order.payment]
  /\ order' = Order(order.status, "refunded", order.fulfillment)
  /\ UNCHANGED <<tx, inbox, refund, late, byHand, parcels, request>>

-----------------------------------------------------------------------------
(* Label purchase, one parcel per warehouse that still owes one.           *)

\* Mutant: without "shipment_id IS NULL".
AllAllocations == Groups

Unshipped == Groups \ shipped

Shipping == {r \in Of({"ship"}) : request[r].pc \notin Over \union {"idle"}}

\* Nothing is locked: any number of requests may be under way together.
ShipStart(r) ==
  /\ At(r, "idle") /\ r \in Of({"ship"})
  /\ crossed' = IF Shipping = {} THEN crossed ELSE crossed \union Shipping \union {r}
  /\ Become(r, Request(IF Unshipped = {} THEN "done" ELSE "label",
                       NewOrder, request[r].paid, Unshipped, "none"))
  /\ UNCHANGED <<books, shipped, shipments, labels>>

First(groups) == CHOOSE g \in groups : \A h \in groups : g <= h
Current(r) == First(request[r].todo)

BuyLabel(r) ==
  /\ At(r, "label")
  /\ labels' = [labels EXCEPT ![Current(r)] = @ + 1]
  /\ Go(r, "persist")
  /\ UNCHANGED <<books, shipped, shipments, crossed>>

\* carrier_create_failed: the groups left keep shipment_id NULL for a retry.
CarrierFails(r) ==
  /\ At(r, "label")
  /\ Leave(r, "done")
  /\ UNCHANGED <<books, parcels>>

\* Mutant: a shipment row that cannot be written is only logged.
PersistNothing(r) ==
  /\ At(r, "persist")
  /\ Go(r, "stamp")
  /\ UNCHANGED <<books, parcels>>

Persist(r) ==
  /\ At(r, "persist")
  /\ shipments' = shipments \union {Current(r)}
  /\ Go(r, "stamp")
  /\ UNCHANGED <<books, shipped, labels, crossed>>

Stamp(r) ==
  /\ At(r, "stamp")
  /\ shipped' = shipped \union {Current(r)}
  /\ Go(r, "recount")
  /\ UNCHANGED <<books, shipments, labels, crossed>>

\* Mutant: the first parcel fulfils the order.
MarkFulfilledAtOnce(remaining) == IF remaining = Groups THEN "partial" ELSE "fulfilled"

MarkFor(remaining) == IF remaining = {} THEN "fulfilled" ELSE "partial"

Recount(r) ==
  /\ At(r, "recount")
  /\ Become(r, Request("load", request[r].seen, request[r].paid, request[r].todo,
                       MarkFor(Unshipped)))
  /\ UNCHANGED <<books, parcels>>

\* Mutant: a partial order cannot be completed.
MayMarkOnce(r) == request[r].mark # "none" /\ Seen(r).fulfillment = "unfulfilled"

\* A refused mark is a warning in the response: the loop goes on.
MayMark(r) == request[r].mark \in FulfillmentTransitions[Seen(r).fulfillment]

NextGroup(r) ==
  LET left == request[r].todo \ {Current(r)} IN
  Become(r, Request(IF left = {} THEN "done" ELSE "label",
                    NewOrder, request[r].paid, left, "none"))

\* MarkFulfillmentComplete and MarkPartiallyFulfilled.
Mark(r) ==
  /\ At(r, "update") /\ r \in Of({"ship"})
  /\ order' = IF MayMark(r) THEN Order(order.status, order.payment, request[r].mark) ELSE order
  /\ NextGroup(r)
  /\ UNCHANGED <<tx, inbox, refund, late, byHand, parcels>>

-----------------------------------------------------------------------------
\* The process dies, or persisting or stamping a parcel fails.
Crash(r) ==
  /\ request[r].pc \notin Over \union {"idle"}
  /\ Leave(r, IF At(r, "refund") THEN "orphaned" ELSE "dead")
  /\ UNCHANGED <<books, parcels>>

Step(r) ==
  \/ LoadOrder(r) \/ Confirm(r) \/ MarkFulfilled(r) \/ Cancel(r) \/ Refused(r)
  \/ Receive(r) \/ PaymentSucceeded(r) \/ PaymentFailed(r)
  \/ CustomerReads(r) \/ CustomerGuard(r) \/ DecideRefund(r)
  \/ ShipStart(r) \/ BuyLabel(r) \/ CarrierFails(r) \/ Persist(r) \/ Stamp(r)
  \/ Recount(r) \/ Mark(r) \/ Crash(r)

Next == RefundSettles \/ \E r \in Requests : Step(r)

Spec == Init /\ [][Next]_vars

-----------------------------------------------------------------------------
OrderRows == [status : OrderStatuses, payment : PaymentStatuses,
              fulfillment : FulfillmentStatuses]

Pcs == {"idle", "apply", "guard", "load", "update", "refund",
        "label", "persist", "stamp", "recount"} \union Over

\* Every variable keeps its shape, and a group is stamped only with a shipment
\* that has a row (shipments.go: persist before stamp).
TypeOK ==
  /\ order \in OrderRows
  /\ tx \in {"pending", "captured", "failed"}
  /\ refund \in BOOLEAN /\ late \in BOOLEAN /\ byHand \in BOOLEAN
  /\ shipped \subseteq shipments /\ shipments \subseteq Groups
  /\ labels \in [Groups -> Nat] /\ crossed \subseteq Requests
  /\ request \in [Requests -> [pc : Pcs, seen : OrderRows, paid : BOOLEAN,
                               todo : SUBSET Groups, mark : {"none", "partial", "fulfilled"}]]

AllOver == \A r \in Requests : request[r].pc \in Over \union {"idle"}

\* A cancelled order whose captured payment was recorded in time is refunded,
\* whoever cancelled it and whatever ran beside the cancel (orders.go Cancel,
\* order_detail.go Cancel: "Auto-refund a paid order on cancellation").  Not
\* promised, and excluded: money recorded after the cancel had looked, and a
\* process that died between the commit and the refund.
CancelledPaidIsRefunded ==
  (/\ AllOver /\ ~late /\ \A r \in Requests : ~At(r, "orphaned")
   /\ order.status = "cancelled" /\ order.payment = "paid" /\ tx = "captured")
  => refund

\* An order reads fulfilled on the fulfillment axis only when every warehouse's
\* parcel has a shipment, unless the merchant said so by hand
\* (createShipmentsPerWarehouse recounts after every parcel).
FulfilledMeansShipped ==
  order.fulfillment = "fulfilled" /\ ~byHand => Groups \subseteq shipped

\* Once every parcel has its shipment and nothing is under way or died, the
\* order says so: no partial mark written late stays behind, unless label
\* requests ran side by side (createShipmentsPerWarehouse recounts and marks
\* after every parcel, and locks nothing).
ShippedMeansFulfilled ==
  (/\ shipped = Groups /\ crossed = {}
   /\ \A r \in Of({"ship"}) : request[r].pc \in {"idle", "done"})
  => order.fulfillment = "fulfilled"

\* No label is bought for a parcel whose allocations are stamped, whatever
\* failed or died before, but by a label request that ran beside another
\* (shipments.go: the stamp "is what idempotency rests on"; it is read before
\* the label is bought and written after).
NoSecondLabel ==
  [][\A g \in shipped : labels'[g] = labels[g] \/ \E r \in crossed : BuyLabel(r)]_vars

\* order.status moves along the transition table only (service.go loadForUpdate:
\* "with a row-level lock so the subsequent status update is consistent").
StatusLegal ==
  [][order'.status # order.status => order'.status \in OrderTransitions[order.status]]_vars
=============================================================================
