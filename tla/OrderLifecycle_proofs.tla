------------------------ MODULE OrderLifecycle_proofs ------------------------
(***************************************************************************)
(* Proofs about OrderLifecycle: its types, that an order reads fulfilled   *)
(* only when every parcel has a shipment, that a label request that ran    *)
(* alone buys no label twice, that a cancelled order that was paid has its *)
(* refund or is about to, and that a fully shipped order is marked         *)
(* fulfilled or about to be, unless label requests ran side by side.       *)
(***************************************************************************)
EXTENDS OrderLifecycle, FiniteSetTheorems, TLAPS

RequestRows ==
  [pc : Pcs, seen : OrderRows, paid : BOOLEAN,
   todo : SUBSET Groups, mark : {"none", "partial", "fulfilled"}]

Parcel == {"label", "persist", "stamp", "recount"}

\* Only label requests buy labels, and they do nothing else.
KindsApart ==
  \A r \in Requests :
    /\ request[r].pc \in Parcel => Kind[r] = "ship"
    /\ Kind[r] = "ship" => request[r].pc \in Parcel \union {"idle", "load", "update"} \union Over

\* A label request under way has a group at hand.
HasGroup ==
  \A r \in Requests :
    Kind[r] = "ship" /\ request[r].pc \in Parcel \union {"load", "update"}
      => request[r].todo # {}

\* Stamping comes after the shipment row.
RowBeforeStamp ==
  \A r \in Requests : request[r].pc = "stamp" => Current(r) \in shipments

\* A request marks the order complete only after it saw it complete.
MarkIsTrue ==
  \A r \in Requests : request[r].mark = "fulfilled" => Groups \subseteq shipped

\* What a label request has still to ship is not stamped; from the stamp of a
\* group to the next one that holds for the groups after it.
OwedBy(pc, todo, stamped) ==
  /\ pc \in {"label", "persist", "stamp"} => todo \cap stamped = {}
  /\ pc \in {"recount", "load", "update"} => (todo \ {First(todo)}) \cap stamped = {}

\* A label request that runs beside no other is the only one.
OneAtATime ==
  \A r \in Shipping \ crossed :
    Shipping \subseteq {r} /\ OwedBy(request[r].pc, request[r].todo, shipped)

IInv ==
  /\ OneAtATime
  /\ TypeOK
  /\ KindsApart
  /\ HasGroup
  /\ RowBeforeStamp
  /\ MarkIsTrue
  /\ FulfilledMeansShipped

-----------------------------------------------------------------------------
(* Lemmas.                                                                 *)

\* A set of warehouses that still owe a parcel has a first one.
LEMMA FirstIsMember ==
  ASSUME NEW groups \in SUBSET Groups, groups # {}
  PROVE  First(groups) \in groups
BY OrderAssumption DEF First

LEMMA OrderTypes ==
  ASSUME NEW status \in OrderStatuses, NEW payment \in PaymentStatuses,
         NEW fulfillment \in FulfillmentStatuses
  PROVE  Order(status, payment, fulfillment) \in OrderRows
BY DEF Order, OrderRows

LEMMA OrderFields ==
  ASSUME NEW o \in OrderRows
  PROVE  /\ o.status \in OrderStatuses /\ o.payment \in PaymentStatuses
         /\ o.fulfillment \in FulfillmentStatuses
BY DEF OrderRows

LEMMA NewOrderType == NewOrder \in OrderRows
BY OrderTypes DEF NewOrder, OrderStatuses, PaymentStatuses, FulfillmentStatuses

LEMMA RequestTypes ==
  ASSUME NEW pc \in Pcs, NEW seen \in OrderRows, NEW paid \in BOOLEAN,
         NEW todo \in SUBSET Groups, NEW mark \in {"none", "partial", "fulfilled"}
  PROVE  /\ Request(pc, seen, paid, todo, mark) \in RequestRows
         /\ Request(pc, seen, paid, todo, mark).pc = pc
         /\ Request(pc, seen, paid, todo, mark).seen = seen
         /\ Request(pc, seen, paid, todo, mark).paid = paid
         /\ Request(pc, seen, paid, todo, mark).todo = todo
         /\ Request(pc, seen, paid, todo, mark).mark = mark
BY DEF Request, RequestRows

LEMMA RequestFields ==
  ASSUME TypeOK, NEW r \in Requests
  PROVE  /\ request[r] \in RequestRows
         /\ request[r].pc \in Pcs /\ request[r].seen \in OrderRows
         /\ request[r].paid \in BOOLEAN /\ request[r].todo \in SUBSET Groups
         /\ request[r].mark \in {"none", "partial", "fulfilled"}
BY DEF TypeOK, RequestRows

\* A step of one request leaves the others where they were.
LEMMA OthersStay ==
  ASSUME TypeOK, NEW r \in Requests, NEW new \in RequestRows, Become(r, new)
  PROVE  /\ request' \in [Requests -> RequestRows]
         /\ request'[r] = new
         /\ \A s \in Requests : s # r => request'[s] = request[s]
BY DEF TypeOK, RequestRows, Become

\* Go and Leave keep a request in its type.
LEMMA GoTypes ==
  ASSUME TypeOK, NEW r \in Requests, NEW pc \in Pcs, Go(r, pc)
  PROVE  \E new \in RequestRows :
           /\ Become(r, new) /\ new.pc = pc
           /\ new.seen = request[r].seen /\ new.paid = request[r].paid
           /\ new.todo = request[r].todo /\ new.mark = request[r].mark
<1> DEFINE new == Request(pc, request[r].seen, request[r].paid, request[r].todo, request[r].mark)
<1>1. /\ new \in RequestRows /\ new.pc = pc
      /\ new.seen = request[r].seen /\ new.paid = request[r].paid
      /\ new.todo = request[r].todo /\ new.mark = request[r].mark
  BY RequestFields, RequestTypes
<1>2. Become(r, new)
  BY DEF Go
<1> QED BY <1>1, <1>2

LEMMA LeaveTypes ==
  ASSUME TypeOK, NEW r \in Requests, NEW pc \in Pcs, Leave(r, pc)
  PROVE  \E new \in RequestRows :
           /\ Become(r, new) /\ new.pc = pc /\ new.paid = request[r].paid
           /\ new.todo = {} /\ new.mark = "none"
<1> DEFINE new == Request(pc, NewOrder, request[r].paid, {}, "none")
<1>1. /\ new \in RequestRows /\ new.pc = pc /\ new.paid = request[r].paid
      /\ new.todo = {} /\ new.mark = "none"
  BY RequestFields, RequestTypes, NewOrderType
<1>2. Become(r, new)
  BY DEF Leave
<1> QED BY <1>1, <1>2

\* A label request under way that crossed no other is the only one.
LEMMA OnlyOne ==
  ASSUME IInv, NEW r \in Requests, Kind[r] = "ship",
         request[r].pc \in Parcel \union {"load", "update"}, r \notin crossed
  PROVE  Shipping \subseteq {r} /\ OwedBy(request[r].pc, request[r].todo, shipped)
<1>1. r \in Shipping
  BY DEF Shipping, Of, Over, Parcel
<1> QED BY <1>1 DEF IInv, OneAtATime

\* What a request that buys no label may do: it keeps the parcels as they are,
\* and calls the order fulfilled only if the merchant said so or it was.
LEMMA BooksStep ==
  ASSUME IInv, NEW r \in Requests, Kind[r] # "ship",
         NEW new \in RequestRows, Become(r, new), new.pc \notin Parcel,
         new.mark \in {request[r].mark, "none"},
         order' \in OrderRows, tx' \in {"pending", "captured", "failed"},
         refund' \in BOOLEAN, late' \in BOOLEAN, byHand' \in BOOLEAN,
         order'.fulfillment = "fulfilled" /\ ~byHand'
           => order.fulfillment = "fulfilled" /\ ~byHand,
         UNCHANGED parcels
  PROVE  IInv'
<1>1. /\ request' \in [Requests -> RequestRows]
      /\ request'[r] = new
      /\ \A s \in Requests : s # r => request'[s] = request[s]
  BY OthersStay DEF IInv
<1>2. TypeOK'
  BY <1>1 DEF IInv, TypeOK, RequestRows, parcels
<1>3. KindsApart'
  BY <1>1 DEF IInv, KindsApart
<1>4. HasGroup'
  BY <1>1 DEF IInv, HasGroup
<1>5. RowBeforeStamp'
  BY <1>1 DEF IInv, RowBeforeStamp, Current, parcels, Parcel
<1>6. MarkIsTrue'
  BY <1>1 DEF IInv, MarkIsTrue, parcels
<1>7. FulfilledMeansShipped'
  BY DEF IInv, FulfilledMeansShipped, parcels
<1>8. OneAtATime'
  <2>1. Shipping' = Shipping /\ \A s \in Shipping : s # r
    BY <1>1 DEF Shipping, Of
  <2>2. Shipping \subseteq Requests
    BY DEF Shipping, Of
  <2> QED BY <1>1, <2>1, <2>2 DEF IInv, OneAtATime, parcels
<1> QED BY <1>2, <1>3, <1>4, <1>5, <1>6, <1>7, <1>8 DEF IInv

\* What a label request may do to the books: nothing but mark the order.
LEMMA ParcelStep ==
  ASSUME IInv, NEW r \in Requests, Kind[r] = "ship",
         NEW new \in RequestRows, Become(r, new),
         new.pc \in Parcel \union {"idle", "load", "update"} \union Over,
         new.pc \in Parcel \union {"load", "update"} => new.todo # {},
         new.pc = "stamp" => First(new.todo) \in shipments',
         new.mark = "fulfilled" => Groups \subseteq shipped',
         shipped \subseteq shipped', shipments \subseteq shipments',
         shipped' \subseteq shipments', shipments' \subseteq Groups,
         labels' \in [Groups -> Nat],
         order' \in OrderRows,
         order'.fulfillment = "fulfilled" =>
           order.fulfillment = "fulfilled" \/ Groups \subseteq shipped',
         UNCHANGED <<tx, refund, late, byHand>>,
         crossed \subseteq crossed', crossed' \subseteq Requests,
         r \in Shipping \/ Shipping \subseteq crossed',
         r \notin crossed' => Shipping \subseteq {r} /\ OwedBy(new.pc, new.todo, shipped')
  PROVE  IInv'
<1>1. /\ request' \in [Requests -> RequestRows]
      /\ request'[r] = new
      /\ \A s \in Requests : s # r => request'[s] = request[s]
  BY OthersStay DEF IInv
<1>2. TypeOK'
  BY <1>1 DEF IInv, TypeOK, RequestRows
<1>3. KindsApart'
  BY <1>1 DEF IInv, KindsApart
<1>4. HasGroup'
  BY <1>1 DEF IInv, HasGroup
<1>5. RowBeforeStamp'
  BY <1>1 DEF IInv, RowBeforeStamp, Current
<1>6. MarkIsTrue'
  BY <1>1 DEF IInv, MarkIsTrue
<1>7. FulfilledMeansShipped'
  BY DEF IInv, FulfilledMeansShipped
<1>8. OneAtATime'
  <2> SUFFICES ASSUME NEW s \in Shipping', s \notin crossed'
               PROVE  /\ Shipping' \subseteq {s}
                      /\ OwedBy(request'[s].pc, request'[s].todo, shipped')
    BY DEF OneAtATime
  <2>1. CASE s = r
    BY <1>1, <2>1 DEF Shipping, Of
  <2>2. CASE s # r
    <3>1. s \in Shipping \ crossed
      BY <1>1, <2>2 DEF Shipping, Of
    <3>2. Shipping \subseteq {s}
      BY <3>1 DEF IInv, OneAtATime
    <3> QED BY <2>2, <3>1, <3>2
  <2> QED BY <2>1, <2>2
<1> QED BY <1>2, <1>3, <1>4, <1>5, <1>6, <1>7, <1>8 DEF IInv

-----------------------------------------------------------------------------
(* Each action keeps the invariant.                                        *)

LEMMA InitInv == ASSUME Init PROVE IInv
<1>1. PICK made \in Together : request = [r \in Requests |->
        Request(IF r \in made THEN "idle" ELSE "done", NewOrder, FALSE, {}, "none")]
  BY DEF Init
<1>2. \A r \in Requests : /\ request[r] \in RequestRows
                           /\ request[r].pc \in {"idle", "done"}
                           /\ request[r].mark = "none"
  <2> SUFFICES ASSUME NEW r \in Requests
               PROVE  /\ request[r] \in RequestRows
                      /\ request[r].pc \in {"idle", "done"}
                      /\ request[r].mark = "none"
    OBVIOUS
  <2> DEFINE pc == IF r \in made THEN "idle" ELSE "done"
  <2>1. pc \in Pcs /\ pc \in {"idle", "done"}
    BY DEF Pcs, Over
  <2>2. request[r] = Request(pc, NewOrder, FALSE, {}, "none")
    BY <1>1
  <2> HIDE DEF pc
  <2> QED BY <2>1, <2>2, NewOrderType DEF Request, RequestRows
<1>3. request \in [Requests -> RequestRows]
  BY <1>1, <1>2
<1>4. TypeOK
  <2>1. labels \in [Groups -> Nat]
    BY DEF Init
  <2>2. order \in OrderRows
    BY NewOrderType DEF Init
  <2> QED BY <1>3, <2>1, <2>2 DEF Init, TypeOK, RequestRows
<1>5. order.fulfillment = "unfulfilled"
  BY DEF Init, NewOrder, Order
<1>6. OneAtATime
  BY <1>2 DEF OneAtATime, Shipping, Of, Over
<1> QED BY <1>2, <1>4, <1>5, <1>6
     DEF IInv, KindsApart, HasGroup, RowBeforeStamp, MarkIsTrue, FulfilledMeansShipped, Parcel, Over

LEMMA LoadOrderInv ==
  ASSUME IInv, NEW r \in Requests, LoadOrder(r)
  PROVE  IInv'
<1> DEFINE new == Request("update", order, request[r].paid, request[r].todo, request[r].mark)
<1>1. new \in RequestRows /\ new.pc = "update" /\ new.todo = request[r].todo
      /\ new.mark = request[r].mark
  <2>1. order \in OrderRows /\ "update" \in Pcs
    BY DEF IInv, TypeOK, Pcs
  <2> QED BY <2>1, RequestTypes, RequestFields DEF IInv
<1>2. Become(r, new)
  BY DEF LoadOrder
<1> HIDE DEF new
<1>3. CASE Kind[r] # "ship"
  BY <1>1, <1>2, <1>3, BooksStep DEF LoadOrder, books, parcels, IInv, TypeOK, Parcel
<1>4. CASE Kind[r] = "ship"
  <2>1. request[r].todo # {}
    BY <1>4 DEF LoadOrder, At, IInv, HasGroup, Parcel
  <2>2. request[r].mark = "fulfilled" => Groups \subseteq shipped
    BY DEF IInv, MarkIsTrue
  <2>3. r \notin crossed => Shipping \subseteq {r} /\ OwedBy(new.pc, new.todo, shipped)
    BY <1>1, <1>4, OnlyOne DEF LoadOrder, At, OwedBy
  <2>4. r \in Shipping
    BY <1>4 DEF LoadOrder, At, Shipping, Of, Over
  <2> QED BY <1>1, <1>2, <1>4, <2>1, <2>2, <2>3, <2>4, ParcelStep
       DEF LoadOrder, books, parcels, IInv, TypeOK, Parcel
<1> QED BY <1>3, <1>4

LEMMA CrashInv ==
  ASSUME IInv, NEW r \in Requests, Crash(r)
  PROVE  IInv'
<1> DEFINE pc == IF At(r, "refund") THEN "orphaned" ELSE "dead"
<1>1. pc \in Pcs /\ pc \in Over /\ pc \notin Parcel \union {"load", "update"}
  BY DEF Pcs, Over, Parcel
<1>2. Leave(r, pc)
  BY DEF Crash
<1> HIDE DEF pc
<1>3. PICK new \in RequestRows :
        Become(r, new) /\ new.pc = pc /\ new.todo = {} /\ new.mark = "none"
  BY <1>1, <1>2, LeaveTypes DEF IInv
<1>4. CASE Kind[r] # "ship"
  BY <1>1, <1>3, <1>4, BooksStep DEF Crash, books, parcels, IInv, TypeOK
<1>5. CASE Kind[r] = "ship"
  <2>1. /\ r \in Shipping
        /\ r \notin crossed => Shipping \subseteq {r}
    BY <1>5, OnlyOne DEF Crash, IInv, KindsApart, Shipping, Of
  <2>2. OwedBy(new.pc, new.todo, shipped)
    BY <1>1, <1>3 DEF OwedBy, Over
  <2> QED BY <1>1, <1>3, <1>5, <2>1, <2>2, ParcelStep DEF Crash, books, parcels, IInv, TypeOK, Parcel
<1> QED BY <1>4, <1>5

LEMMA ConfirmInv ==
  ASSUME IInv, NEW r \in Requests, Confirm(r)
  PROVE  IInv'
<1>1. PICK new \in RequestRows :
        Become(r, new) /\ new.pc = "done" /\ new.todo = {} /\ new.mark = "none"
  BY LeaveTypes DEF Confirm, IInv, Pcs, Over
<1>2. Kind[r] # "ship"
  BY DEF Confirm, Of
<1> DEFINE payment == IF RecordsPayment(r) THEN "paid" ELSE order.payment
<1>3. order' = Order("confirmed", payment, order.fulfillment)
  BY DEF Confirm
<1>4. payment \in PaymentStatuses /\ order.fulfillment \in FulfillmentStatuses
  BY OrderFields DEF IInv, TypeOK, PaymentStatuses
<1> HIDE DEF payment
<1>5. order' \in OrderRows /\ order'.fulfillment = order.fulfillment
  BY <1>3, <1>4, OrderTypes DEF OrderStatuses, Order
<1>6. late' \in BOOLEAN
  BY DEF Confirm, IInv, TypeOK
<1> QED BY <1>1, <1>2, <1>5, <1>6, BooksStep DEF Confirm, parcels, IInv, TypeOK, Parcel

LEMMA MarkFulfilledInv ==
  ASSUME IInv, NEW r \in Requests, MarkFulfilled(r)
  PROVE  IInv'
<1>1. PICK new \in RequestRows :
        Become(r, new) /\ new.pc = "done" /\ new.todo = {} /\ new.mark = "none"
  BY LeaveTypes DEF MarkFulfilled, IInv, Pcs, Over
<1>2. Kind[r] # "ship"
  BY DEF MarkFulfilled, Of
<1>3. order' \in OrderRows
  BY OrderTypes, OrderFields
     DEF MarkFulfilled, IInv, TypeOK, OrderStatuses, FulfillmentStatuses
<1> QED BY <1>1, <1>2, <1>3, BooksStep DEF MarkFulfilled, parcels, IInv, TypeOK, Parcel

LEMMA CancelInv ==
  ASSUME IInv, NEW r \in Requests, Cancel(r)
  PROVE  IInv'
<1>1. PICK new \in RequestRows :
        Become(r, new) /\ new.pc = "refund" /\ new.todo = {} /\ new.mark = "none"
  BY LeaveTypes DEF Cancel, IInv, Pcs
<1>2. Kind[r] # "ship"
  BY DEF Cancel, Of
<1>3. order' \in OrderRows /\ order'.fulfillment = order.fulfillment
  <2>1. order.payment \in PaymentStatuses /\ order.fulfillment \in FulfillmentStatuses
    BY OrderFields DEF IInv, TypeOK
  <2> QED BY <2>1, OrderTypes DEF Cancel, OrderStatuses, Order
<1> QED BY <1>1, <1>2, <1>3, BooksStep DEF Cancel, parcels, IInv, TypeOK, Parcel

LEMMA RefusedInv ==
  ASSUME IInv, NEW r \in Requests, Refused(r)
  PROVE  IInv'
<1>1. PICK new \in RequestRows :
        Become(r, new) /\ new.pc = "done" /\ new.todo = {} /\ new.mark = "none"
  BY LeaveTypes DEF Refused, IInv, Pcs, Over
<1>2. Kind[r] # "ship"
  BY DEF Refused, Of
<1> QED BY <1>1, <1>2, BooksStep DEF Refused, books, parcels, IInv, TypeOK, Parcel

LEMMA ReceiveInv ==
  ASSUME IInv, NEW r \in Requests, Receive(r)
  PROVE  IInv'
<1> DEFINE pc == IF Event[r] \in inbox THEN "done" ELSE "apply"
<1>1. pc \in Pcs /\ pc \notin Parcel
  BY DEF Pcs, Over, Parcel
<1>2. Go(r, pc)
  BY DEF Receive
<1> HIDE DEF pc
<1>3. PICK new \in RequestRows :
        /\ Become(r, new) /\ new.pc = pc
        /\ new.todo = request[r].todo /\ new.mark = request[r].mark
  BY <1>1, <1>2, GoTypes DEF IInv
<1>4. Kind[r] # "ship"
  BY DEF Receive, Of
<1> QED BY <1>1, <1>3, <1>4, BooksStep DEF Receive, parcels, IInv, TypeOK

LEMMA PaymentSucceededInv ==
  ASSUME IInv, NEW r \in Requests, PaymentSucceeded(r)
  PROVE  IInv'
<1>1. PICK new \in RequestRows :
        /\ Become(r, new) /\ new.pc = "load"
        /\ new.todo = request[r].todo /\ new.mark = request[r].mark
  BY GoTypes DEF PaymentSucceeded, IInv, Pcs
<1>2. Kind[r] # "ship"
  BY DEF PaymentSucceeded, At, IInv, KindsApart, Parcel, Over
<1> QED BY <1>1, <1>2, BooksStep DEF PaymentSucceeded, parcels, IInv, TypeOK, Parcel

LEMMA PaymentFailedInv ==
  ASSUME IInv, NEW r \in Requests, PaymentFailed(r)
  PROVE  IInv'
<1>1. PICK new \in RequestRows :
        /\ Become(r, new) /\ new.pc = "done"
        /\ new.todo = request[r].todo /\ new.mark = request[r].mark
  BY GoTypes DEF PaymentFailed, IInv, Pcs, Over
<1>2. Kind[r] # "ship"
  BY DEF PaymentFailed, At, IInv, KindsApart, Parcel, Over
<1> QED BY <1>1, <1>2, BooksStep DEF PaymentFailed, parcels, IInv, TypeOK, Parcel

LEMMA CustomerReadsInv ==
  ASSUME IInv, NEW r \in Requests, CustomerReads(r)
  PROVE  IInv'
<1> DEFINE new == Request("guard", NewOrder, order.payment = "paid", {}, "none")
<1>1. (order.payment = "paid") \in BOOLEAN
  OBVIOUS
<1>2. new \in RequestRows /\ new.pc = "guard" /\ new.mark = "none"
  BY <1>1, NewOrderType DEF Request, RequestRows, Pcs
<1>3. Become(r, new)
  BY DEF CustomerReads
<1> HIDE DEF new
<1>4. Kind[r] # "ship"
  BY DEF CustomerReads, Of
<1> QED BY <1>2, <1>3, <1>4, BooksStep DEF CustomerReads, books, parcels, IInv, TypeOK, Parcel

LEMMA CustomerGuardInv ==
  ASSUME IInv, NEW r \in Requests, CustomerGuard(r)
  PROVE  IInv'
<1>1. PICK pc \in {"load", "done"} : Go(r, pc)
  BY DEF CustomerGuard
<1>2. pc \in Pcs /\ pc \notin Parcel
  BY DEF Pcs, Over, Parcel
<1>3. PICK new \in RequestRows :
        /\ Become(r, new) /\ new.pc = pc
        /\ new.todo = request[r].todo /\ new.mark = request[r].mark
  BY <1>1, <1>2, GoTypes DEF IInv
<1>4. Kind[r] # "ship"
  BY DEF CustomerGuard, At, IInv, KindsApart, Parcel, Over
<1> QED BY <1>2, <1>3, <1>4, BooksStep DEF CustomerGuard, books, parcels, IInv, TypeOK

LEMMA DecideRefundInv ==
  ASSUME IInv, NEW r \in Requests, DecideRefund(r)
  PROVE  IInv'
<1>1. PICK new \in RequestRows :
        /\ Become(r, new) /\ new.pc = "done"
        /\ new.todo = request[r].todo /\ new.mark = request[r].mark
  BY GoTypes DEF DecideRefund, IInv, Pcs, Over
<1>2. Kind[r] # "ship"
  BY DEF DecideRefund, At, IInv, KindsApart, Parcel, Over
<1>3. refund' \in BOOLEAN
  BY DEF DecideRefund, IInv, TypeOK
<1> QED BY <1>1, <1>2, <1>3, BooksStep DEF DecideRefund, parcels, IInv, TypeOK, Parcel

LEMMA RefundSettlesInv ==
  ASSUME IInv, RefundSettles
  PROVE  IInv'
<1>1. order.status \in OrderStatuses /\ order.fulfillment \in FulfillmentStatuses
  BY OrderFields DEF IInv, TypeOK
<1>2. order' \in OrderRows /\ order'.fulfillment = order.fulfillment
  BY <1>1, OrderTypes DEF RefundSettles, PaymentStatuses, Order
<1> QED BY <1>2
     DEF RefundSettles, parcels, IInv, TypeOK, KindsApart, HasGroup, RowBeforeStamp,
         Current, MarkIsTrue, FulfilledMeansShipped, OneAtATime, Shipping

-----------------------------------------------------------------------------
(* Label requests.                                                         *)

LEMMA ShipStartInv ==
  ASSUME IInv, NEW r \in Requests, ShipStart(r)
  PROVE  IInv'
<1> DEFINE pc == IF Unshipped = {} THEN "done" ELSE "label"
<1> DEFINE new == Request(pc, NewOrder, request[r].paid, Unshipped, "none")
<1>1. /\ pc \in Pcs /\ pc \in {"done", "label"}
      /\ pc = "label" => Unshipped # {}
      /\ Unshipped \in SUBSET Groups
  BY DEF Pcs, Over, Unshipped
<1>2. Become(r, new)
  BY DEF ShipStart
<1> HIDE DEF pc
<1>3. /\ new \in RequestRows /\ new.pc = pc /\ new.todo = Unshipped
      /\ new.mark = "none"
  BY <1>1, RequestTypes, RequestFields, NewOrderType DEF IInv
<1> HIDE DEF new
<1>4. Kind[r] = "ship"
  BY DEF ShipStart, Of
<1>5. /\ crossed \subseteq crossed' /\ crossed' \subseteq Requests
      /\ Shipping \subseteq crossed' \/ Shipping = {}
      /\ r \notin crossed' => Shipping = {}
  BY DEF ShipStart, Shipping, Of, IInv, TypeOK
<1>6. OwedBy(new.pc, new.todo, shipped)
  BY <1>1, <1>3 DEF OwedBy, Unshipped
<1> QED BY <1>1, <1>2, <1>3, <1>4, <1>5, <1>6, ParcelStep
     DEF ShipStart, books, parcels, IInv, TypeOK, Parcel, Over

LEMMA BuyLabelInv ==
  ASSUME IInv, NEW r \in Requests, BuyLabel(r)
  PROVE  IInv'
<1>1. PICK new \in RequestRows :
        /\ Become(r, new) /\ new.pc = "persist"
        /\ new.todo = request[r].todo /\ new.mark = request[r].mark
  BY GoTypes DEF BuyLabel, IInv, Pcs
<1>2. Kind[r] = "ship" /\ request[r].todo # {}
  BY DEF BuyLabel, At, IInv, KindsApart, HasGroup, Parcel
<1>3. labels' \in [Groups -> Nat]
  <2>1. Current(r) \in Groups
    BY <1>2, FirstIsMember, RequestFields DEF Current, IInv
  <2> QED BY <2>1 DEF BuyLabel, IInv, TypeOK
<1>4. request[r].mark = "fulfilled" => Groups \subseteq shipped
  BY DEF IInv, MarkIsTrue
<1>5. /\ r \in Shipping
      /\ r \notin crossed => Shipping \subseteq {r} /\ OwedBy(new.pc, new.todo, shipped')
  BY <1>1, <1>2, OnlyOne DEF BuyLabel, At, OwedBy, Parcel, Shipping, Of, Over
<1> QED BY <1>1, <1>2, <1>3, <1>4, <1>5, ParcelStep DEF BuyLabel, books, IInv, TypeOK, Parcel

LEMMA CarrierFailsInv ==
  ASSUME IInv, NEW r \in Requests, CarrierFails(r)
  PROVE  IInv'
<1>1. PICK new \in RequestRows :
        Become(r, new) /\ new.pc = "done" /\ new.todo = {} /\ new.mark = "none"
  BY LeaveTypes DEF CarrierFails, IInv, Pcs, Over
<1>2. Kind[r] = "ship"
  BY DEF CarrierFails, At, IInv, KindsApart, Parcel
<1>3. /\ r \in Shipping
      /\ r \notin crossed => Shipping \subseteq {r} /\ OwedBy(new.pc, new.todo, shipped')
  BY <1>1, <1>2, OnlyOne DEF CarrierFails, At, OwedBy, Parcel, Shipping, Of, Over
<1> QED BY <1>1, <1>2, <1>3, ParcelStep DEF CarrierFails, books, parcels, IInv, TypeOK, Parcel, Over

LEMMA PersistInv ==
  ASSUME IInv, NEW r \in Requests, Persist(r)
  PROVE  IInv'
<1>1. PICK new \in RequestRows :
        /\ Become(r, new) /\ new.pc = "stamp"
        /\ new.todo = request[r].todo /\ new.mark = request[r].mark
  BY GoTypes DEF Persist, IInv, Pcs
<1>2. Kind[r] = "ship" /\ request[r].todo # {}
  BY DEF Persist, At, IInv, KindsApart, HasGroup, Parcel
<1>3. Current(r) \in Groups
  BY <1>2, FirstIsMember, RequestFields DEF Current, IInv
<1>4. First(new.todo) \in shipments'
  BY <1>1 DEF Persist, Current
<1>5. request[r].mark = "fulfilled" => Groups \subseteq shipped
  BY DEF IInv, MarkIsTrue
<1>6. /\ r \in Shipping
      /\ r \notin crossed => Shipping \subseteq {r} /\ OwedBy(new.pc, new.todo, shipped')
  BY <1>1, <1>2, OnlyOne DEF Persist, At, OwedBy, Parcel, Shipping, Of, Over
<1> QED BY <1>1, <1>2, <1>3, <1>4, <1>5, <1>6, ParcelStep DEF Persist, books, IInv, TypeOK, Parcel

LEMMA StampInv ==
  ASSUME IInv, NEW r \in Requests, Stamp(r)
  PROVE  IInv'
<1>1. PICK new \in RequestRows :
        /\ Become(r, new) /\ new.pc = "recount"
        /\ new.todo = request[r].todo /\ new.mark = request[r].mark
  BY GoTypes DEF Stamp, IInv, Pcs
<1>2. Kind[r] = "ship" /\ request[r].todo # {}
  BY DEF Stamp, At, IInv, KindsApart, HasGroup, Parcel
<1>3. Current(r) \in shipments
  BY DEF Stamp, At, IInv, RowBeforeStamp
<1>4. request[r].mark = "fulfilled" => Groups \subseteq shipped
  BY DEF IInv, MarkIsTrue
<1>5. /\ r \in Shipping
      /\ r \notin crossed => Shipping \subseteq {r} /\ OwedBy(new.pc, new.todo, shipped')
  BY <1>1, <1>2, OnlyOne DEF Stamp, At, OwedBy, Parcel, Current, Shipping, Of, Over
<1> QED BY <1>1, <1>2, <1>3, <1>4, <1>5, ParcelStep DEF Stamp, books, IInv, TypeOK, Parcel

LEMMA RecountInv ==
  ASSUME IInv, NEW r \in Requests, Recount(r)
  PROVE  IInv'
<1> DEFINE mark == MarkFor(Unshipped)
<1> DEFINE new == Request("load", request[r].seen, request[r].paid, request[r].todo, mark)
<1>1. mark \in {"partial", "fulfilled"} /\ (mark = "fulfilled" => Groups \subseteq shipped)
  BY DEF MarkFor, Unshipped
<1>2. Become(r, new)
  BY DEF Recount
<1> HIDE DEF mark
<1>3. new \in RequestRows /\ new.pc = "load" /\ new.todo = request[r].todo /\ new.mark = mark
  <2>1. /\ "load" \in Pcs /\ request[r].seen \in OrderRows /\ request[r].paid \in BOOLEAN
        /\ request[r].todo \in SUBSET Groups
    BY RequestFields DEF IInv, Pcs
  <2>2. mark \in {"none", "partial", "fulfilled"}
    BY <1>1
  <2> QED BY <2>1, <2>2, RequestTypes
<1> HIDE DEF new
<1>4. Kind[r] = "ship" /\ request[r].todo # {}
  BY DEF Recount, At, IInv, KindsApart, HasGroup, Parcel
<1>5. /\ r \in Shipping
      /\ r \notin crossed => Shipping \subseteq {r} /\ OwedBy(new.pc, new.todo, shipped')
  BY <1>3, <1>4, OnlyOne DEF Recount, At, OwedBy, Parcel, parcels, Shipping, Of, Over
<1> QED BY <1>1, <1>2, <1>3, <1>4, <1>5, ParcelStep
     DEF Recount, books, parcels, IInv, TypeOK, Parcel

LEMMA MarkInv ==
  ASSUME IInv, NEW r \in Requests, Mark(r)
  PROVE  IInv'
<1> DEFINE left == request[r].todo \ {Current(r)}
<1> DEFINE pc == IF left = {} THEN "done" ELSE "label"
<1> DEFINE new == Request(pc, NewOrder, request[r].paid, left, "none")
<1>1. /\ pc \in Pcs /\ pc \in {"done", "label"} /\ (pc = "label" => left # {})
      /\ left \in SUBSET Groups
  BY RequestFields DEF Pcs, Over, IInv
<1>2. Become(r, new)
  BY DEF Mark, NextGroup
<1> HIDE DEF left, pc
<1>3. new \in RequestRows /\ new.pc = pc /\ new.todo = left /\ new.mark = "none"
  BY <1>1, RequestTypes, RequestFields, NewOrderType DEF IInv
<1> HIDE DEF new
<1>4. Kind[r] = "ship"
  BY DEF Mark, Of
<1>5. /\ order' \in OrderRows
      /\ order'.fulfillment = "fulfilled"
           => order.fulfillment = "fulfilled" \/ Groups \subseteq shipped
  <2>1. CASE ~MayMark(r)
    BY <2>1 DEF Mark, IInv, TypeOK
  <2>2. CASE MayMark(r)
    <3>1. request[r].seen.fulfillment \in FulfillmentStatuses
      BY RequestFields, OrderFields DEF IInv
    <3>2. request[r].mark \in FulfillmentStatuses
      BY <2>2, <3>1 DEF MayMark, Seen, FulfillmentTransitions, FulfillmentStatuses
    <3>3. order' = Order(order.status, order.payment, request[r].mark)
      BY <2>2 DEF Mark
    <3>4. order' \in OrderRows /\ order'.fulfillment = request[r].mark
      BY <3>2, <3>3, OrderTypes, OrderFields DEF IInv, TypeOK, Order
    <3> QED BY <3>4 DEF IInv, MarkIsTrue
  <2> QED BY <2>1, <2>2
<1>6. /\ r \in Shipping
      /\ r \notin crossed => Shipping \subseteq {r} /\ OwedBy(new.pc, new.todo, shipped')
  BY <1>1, <1>3, <1>4, OnlyOne DEF Mark, At, OwedBy, Current, left, parcels, Shipping, Of, Over
<1> QED BY <1>1, <1>2, <1>3, <1>4, <1>5, <1>6, ParcelStep
     DEF Mark, parcels, IInv, TypeOK, Parcel, Over

-----------------------------------------------------------------------------
(* The theorems.                                                           *)

LEMMA NextInv == ASSUME IInv, [Next]_vars PROVE IInv'
<1>1. CASE UNCHANGED vars
  BY <1>1 DEF vars, books, parcels, IInv, TypeOK, KindsApart, HasGroup, RowBeforeStamp,
       Current, MarkIsTrue, FulfilledMeansShipped, OneAtATime, Shipping
<1>2. CASE RefundSettles
  BY <1>2, RefundSettlesInv
<1>3. ASSUME NEW r \in Requests, Step(r) PROVE IInv'
  BY <1>3, LoadOrderInv, ConfirmInv, MarkFulfilledInv, CancelInv, RefusedInv, ReceiveInv,
     PaymentSucceededInv, PaymentFailedInv, CustomerReadsInv, CustomerGuardInv,
     DecideRefundInv, ShipStartInv, BuyLabelInv, CarrierFailsInv, PersistInv, StampInv,
     RecountInv, MarkInv, CrashInv
     DEF Step
<1> QED BY <1>1, <1>2, <1>3 DEF Next

LEMMA Invariance == Spec => []IInv
<1>1. Init => IInv
  BY InitInv
<1>2. IInv /\ [Next]_vars => IInv'
  BY NextInv
<1> QED BY <1>1, <1>2, PTL DEF Spec

\* Every reachable state of the order, the parcels and the requests has its
\* type, and only a parcel with a shipment row is stamped.
THEOREM TypeCorrect == Spec => []TypeOK
<1>1. IInv => TypeOK
  BY DEF IInv
<1> QED BY <1>1, Invariance, PTL

\* Label requests, crashes, cancels and merchants together never leave an
\* order fulfilled while a parcel is missing, unless a merchant said so.
THEOREM FulfilledIsShipped == Spec => []FulfilledMeansShipped
<1>1. IInv => FulfilledMeansShipped
  BY DEF IInv
<1> QED BY <1>1, Invariance, PTL

\* Retries, failures and crashes never have a label bought for a parcel that is
\* stamped with a shipment: only a label request that ran beside another buys one.
THEOREM LabelsBoughtOnce == Spec => NoSecondLabel
<1> DEFINE Once == \A g \in shipped : labels'[g] = labels[g] \/ \E r \in crossed : BuyLabel(r)
<1>1. ASSUME IInv, [Next]_vars PROVE Once
  <2> SUFFICES ASSUME NEW g \in shipped
               PROVE  labels'[g] = labels[g] \/ \E r \in crossed : BuyLabel(r)
    OBVIOUS
  <2>1. CASE UNCHANGED labels
    BY <2>1
  <2>2. ASSUME NEW r \in Requests \ crossed, BuyLabel(r) PROVE labels'[g] = labels[g]
    <3>1. Kind[r] = "ship" /\ request[r].todo # {} /\ request[r].pc = "label"
      BY <1>1, <2>2 DEF BuyLabel, At, IInv, KindsApart, HasGroup, Parcel
    <3>2. Current(r) \in request[r].todo
      BY <1>1, <3>1, FirstIsMember, RequestFields DEF Current, IInv
    <3>3. request[r].todo \cap shipped = {}
      BY <1>1, <3>1, OnlyOne DEF OwedBy, Parcel
    <3>4. Current(r) # g /\ g \in Groups /\ labels \in [Groups -> Nat]
      BY <1>1, <3>2, <3>3 DEF IInv, TypeOK
    <3> QED BY <2>2, <3>4 DEF BuyLabel
  <2>3. UNCHANGED labels \/ \E r \in Requests : BuyLabel(r)
    BY <1>1 DEF Next, Step, vars, books, parcels, LoadOrder, Confirm, MarkFulfilled, Cancel,
         Refused, Receive, PaymentSucceeded, PaymentFailed, CustomerReads, CustomerGuard,
         DecideRefund, RefundSettles, ShipStart, CarrierFails, Persist, Stamp, Recount, Mark,
         Crash
  <2> QED BY <2>1, <2>2, <2>3
<1>2. IInv /\ [Next]_vars => [Once]_vars
  BY <1>1
<1> QED BY <1>2, Invariance, PTL DEF Spec, NoSecondLabel

-----------------------------------------------------------------------------
(* Refunds of cancelled orders.                                            *)

CancelKinds == {"adminCancel", "customerCancel"}
BeforeCancel == {"guard", "load", "update"}

\* Only a webhook applies an event, and only cancels come to the refund.
WebhooksApply == \A r \in Requests : At(r, "apply") => Kind[r] = "webhook"

\* A customer's cancel that is still under way knows of the payment, or the
\* money came too late for it.
PaidIsKnown ==
  \A r \in Of({"customerCancel"}) :
    request[r].pc \in BeforeCancel /\ order.payment = "paid" => request[r].paid

\* Somebody will refund the order, or died before it could.
RefundComing ==
  \E r \in Requests : (At(r, "refund") /\ FoundPaid(r)) \/ At(r, "orphaned")

RefundInv ==
  /\ WebhooksApply
  /\ ~late /\ ~refund =>
       /\ PaidIsKnown
       /\ order.status = "cancelled" /\ order.payment = "paid" /\ tx = "captured"
            => RefundComing


\* What keeps RefundInv: money is recorded only past customers who know of it
\* or excuse it, and a step that leaves the refund to somebody leaves somebody.
LEMMA RefundStep ==
  ASSUME TypeOK, RefundInv, NEW r \in Requests,
         NEW new \in RequestRows, Become(r, new),
         new.pc = "apply" => Kind[r] = "webhook",
         late => late', refund => refund',
         ~late' /\ ~refund' =>
           /\ order'.payment = "paid" => order.payment = "paid" \/ ~Unaware
           /\ Kind[r] = "customerCancel" /\ new.pc \in BeforeCancel /\ order'.payment = "paid"
                => new.paid
           /\ order'.status = "cancelled" /\ order'.payment = "paid" /\ tx' = "captured"
                => \/ new.pc = "orphaned"
                   \/ new.pc = "refund" /\ (Kind[r] = "adminCancel" \/ new.paid)
                   \/ /\ order.status = "cancelled" /\ order.payment = "paid" /\ tx = "captured"
                      /\ ~(At(r, "refund") /\ FoundPaid(r)) /\ ~At(r, "orphaned")
  PROVE  RefundInv'
<1>1. /\ request'[r] = new
      /\ \A s \in Requests : s # r => request'[s] = request[s]
  BY OthersStay
<1>2. WebhooksApply'
  BY <1>1 DEF RefundInv, WebhooksApply, At
<1> SUFFICES ASSUME ~late', ~refund'
             PROVE  /\ PaidIsKnown'
                    /\ order'.status = "cancelled" /\ order'.payment = "paid"
                         /\ tx' = "captured" => RefundComing'
  BY <1>2 DEF RefundInv
<1>3. PaidIsKnown
  BY DEF RefundInv
<1>4. PaidIsKnown'
  <2> SUFFICES ASSUME NEW s \in Requests, Kind[s] = "customerCancel",
                      request'[s].pc \in BeforeCancel, order'.payment = "paid"
               PROVE  request'[s].paid
    BY DEF PaidIsKnown, Of
  <2>1. CASE s = r
    BY <1>1, <2>1
  <2>2. CASE s # r
    BY <1>1, <1>3, <2>2 DEF PaidIsKnown, Unaware, Of, BeforeCancel
  <2> QED
    BY <2>1, <2>2
<1>5. ASSUME order'.status = "cancelled", order'.payment = "paid", tx' = "captured"
      PROVE  RefundComing'
  <2>1. CASE new.pc = "orphaned"
    BY <1>1, <2>1 DEF RefundComing, At
  <2>2. CASE new.pc = "refund" /\ (Kind[r] = "adminCancel" \/ new.paid)
    BY <1>1, <1>5, <2>2 DEF RefundComing, At, FoundPaid, Of
  <2>3. CASE /\ order.status = "cancelled" /\ order.payment = "paid" /\ tx = "captured"
             /\ ~(At(r, "refund") /\ FoundPaid(r)) /\ ~At(r, "orphaned")
    <3>1. PICK s \in Requests : (At(s, "refund") /\ FoundPaid(s)) \/ At(s, "orphaned")
      BY <2>3 DEF RefundInv, RefundComing
    <3>2. s # r
      BY <2>3, <3>1
    <3> QED
      BY <1>1, <1>5, <3>1, <3>2 DEF RefundComing, At, FoundPaid, Of
  <2> QED
    BY <1>5, <2>1, <2>2, <2>3
<1> QED
  BY <1>4, <1>5

\* The steps that touch neither the books nor a refund on its way.
LEMMA AsideKeepsRefund ==
  ASSUME TypeOK, RefundInv, NEW r \in Requests,
         NEW new \in RequestRows, Become(r, new),
         new.pc = "apply" => Kind[r] = "webhook",
         new.pc \in BeforeCancel /\ Kind[r] = "customerCancel"
           => \/ new.paid
              \/ request[r].pc \in BeforeCancel /\ new.paid = request[r].paid
              \/ order.payment # "paid",
         ~At(r, "refund"), ~At(r, "orphaned"),
         UNCHANGED <<late, refund, tx>>,
         order'.status = order.status, order'.payment = order.payment
  PROVE  RefundInv'
<1>1. ~late /\ ~refund => PaidIsKnown
  BY DEF RefundInv
<1>2. ~late /\ ~refund /\ Kind[r] = "customerCancel" /\ new.pc \in BeforeCancel
        /\ order.payment = "paid" => new.paid
  BY <1>1 DEF PaidIsKnown, Of
<1> QED
  BY <1>2, RefundStep

\* A request enters the update holding what it knew.
LEMMA LoadOrderKeepsRefund ==
  ASSUME IInv, RefundInv, NEW r \in Requests, LoadOrder(r)
  PROVE  RefundInv'
<1> DEFINE new == Request("update", order, request[r].paid, request[r].todo, request[r].mark)
<1>1. new \in RequestRows /\ new.pc = "update" /\ new.paid = request[r].paid
  <2>1. order \in OrderRows /\ "update" \in Pcs
    BY DEF IInv, TypeOK, Pcs
  <2> QED
    BY <2>1, RequestTypes, RequestFields DEF IInv
<1>2. Become(r, new)
  BY DEF LoadOrder
<1> HIDE DEF new
<1>3. ~At(r, "refund") /\ ~At(r, "orphaned")
  BY DEF LoadOrder, At
<1>4. Kind[r] = "customerCancel" => request[r].pc \in BeforeCancel
  BY DEF LoadOrder, At, BeforeCancel
<1> QED
  BY <1>1, <1>2, <1>3, <1>4, AsideKeepsRefund DEF LoadOrder, books, IInv

LEMMA ConfirmKeepsRefund ==
  ASSUME IInv, RefundInv, NEW r \in Requests, Confirm(r)
  PROVE  RefundInv'
<1>1. PICK new \in RequestRows : Become(r, new) /\ new.pc = "done"
  BY LeaveTypes DEF Confirm, IInv, Pcs, Over
<1>2. order'.status = "confirmed"
  BY DEF Confirm, Order
<1>3. order'.payment = IF RecordsPayment(r) THEN "paid" ELSE order.payment
  BY DEF Confirm, Order
<1>4. late' = (late \/ (RecordsPayment(r) /\ Unaware)) /\ refund' = refund
  BY DEF Confirm
<1> QED
  BY <1>1, <1>2, <1>3, <1>4, RefundStep DEF IInv, BeforeCancel

LEMMA CancelKeepsRefund ==
  ASSUME IInv, RefundInv, NEW r \in Requests, Cancel(r)
  PROVE  RefundInv'
<1>1. PICK new \in RequestRows :
        Become(r, new) /\ new.pc = "refund" /\ new.paid = request[r].paid
  BY LeaveTypes DEF Cancel, IInv, Pcs
<1>2. order'.payment = order.payment /\ late' = late /\ refund' = refund /\ tx' = tx
  BY DEF Cancel, Order
<1>3. Kind[r] = "adminCancel" \/ (Kind[r] = "customerCancel" /\ request[r].pc \in BeforeCancel)
  BY DEF Cancel, Of, At, BeforeCancel
<1>4. ~late /\ ~refund /\ order.payment = "paid" => Kind[r] = "adminCancel" \/ new.paid
  BY <1>1, <1>3 DEF RefundInv, PaidIsKnown, Of
<1> QED
  BY <1>1, <1>2, <1>4, RefundStep DEF IInv, BeforeCancel

LEMMA PaymentSucceededKeepsRefund ==
  ASSUME IInv, RefundInv, NEW r \in Requests, PaymentSucceeded(r)
  PROVE  RefundInv'
<1>1. PICK new \in RequestRows : Become(r, new) /\ new.pc = "load"
  BY GoTypes DEF PaymentSucceeded, IInv, Pcs
<1>2. Kind[r] # "customerCancel"
  BY DEF PaymentSucceeded, RefundInv, WebhooksApply
<1>3. late' = (late \/ order.status = "cancelled") /\ refund' = refund /\ order' = order
  BY DEF PaymentSucceeded
<1> QED
  BY <1>1, <1>2, <1>3, RefundStep DEF IInv

LEMMA PaymentFailedKeepsRefund ==
  ASSUME IInv, RefundInv, NEW r \in Requests, PaymentFailed(r)
  PROVE  RefundInv'
<1>1. PICK new \in RequestRows : Become(r, new) /\ new.pc = "done"
  BY GoTypes DEF PaymentFailed, IInv, Pcs, Over
<1>2. tx' = "failed" /\ late' = late /\ refund' = refund /\ order' = order
  BY DEF PaymentFailed
<1> QED
  BY <1>1, <1>2, RefundStep DEF IInv, BeforeCancel

\* The customer's own read: it knows what it found.
LEMMA CustomerReadsKeepsRefund ==
  ASSUME IInv, RefundInv, NEW r \in Requests, CustomerReads(r)
  PROVE  RefundInv'
<1> DEFINE paid == order.payment = "paid"
           new == Request("guard", NewOrder, paid, {}, "none")
<1>1. paid \in BOOLEAN
  OBVIOUS
<1>2. Become(r, new) /\ (paid <=> order.payment = "paid")
  BY DEF CustomerReads
<1> HIDE DEF paid
<1>3. new \in RequestRows /\ new.pc = "guard" /\ new.paid = paid
  BY <1>1, NewOrderType, RequestTypes DEF Pcs
<1> HIDE DEF new
<1>4. ~At(r, "refund") /\ ~At(r, "orphaned")
  BY DEF CustomerReads, At
<1> QED
  BY <1>2, <1>3, <1>4, AsideKeepsRefund DEF CustomerReads, books, IInv

LEMMA CustomerGuardKeepsRefund ==
  ASSUME IInv, RefundInv, NEW r \in Requests, CustomerGuard(r)
  PROVE  RefundInv'
<1>1. PICK pc \in {"load", "done"} : Go(r, pc)
  BY DEF CustomerGuard
<1>2. pc \in Pcs /\ pc # "apply"
  BY DEF Pcs, Over
<1>3. PICK new \in RequestRows :
        Become(r, new) /\ new.pc = pc /\ new.paid = request[r].paid
  BY <1>1, <1>2, GoTypes DEF IInv
<1>4. At(r, "guard") /\ ~At(r, "refund") /\ ~At(r, "orphaned")
  BY DEF CustomerGuard, At
<1> QED
  BY <1>2, <1>3, <1>4, AsideKeepsRefund DEF CustomerGuard, books, IInv, At, BeforeCancel

LEMMA DecideRefundKeepsRefund ==
  ASSUME IInv, RefundInv, NEW r \in Requests, DecideRefund(r)
  PROVE  RefundInv'
<1>1. PICK new \in RequestRows : Become(r, new) /\ new.pc = "done"
  BY GoTypes DEF DecideRefund, IInv, Pcs, Over
<1>2. /\ refund' = (refund \/ (FoundPaid(r) /\ Refundable))
      /\ late' = late /\ order' = order /\ tx' = tx /\ ~At(r, "orphaned")
  BY DEF DecideRefund, At
<1> QED
  BY <1>1, <1>2, RefundStep DEF IInv, BeforeCancel, Refundable

\* A request that dies leaves a mark if it owed a refund.
LEMMA CrashKeepsRefund ==
  ASSUME IInv, RefundInv, NEW r \in Requests, Crash(r)
  PROVE  RefundInv'
<1> DEFINE pc == IF At(r, "refund") THEN "orphaned" ELSE "dead"
<1>1. pc \in Pcs /\ pc \notin BeforeCancel \union {"apply"} /\ (At(r, "refund") => pc = "orphaned")
  BY DEF Pcs, Over, BeforeCancel
<1>2. Leave(r, pc)
  BY DEF Crash
<1> HIDE DEF pc
<1>3. PICK new \in RequestRows : Become(r, new) /\ new.pc = pc
  BY <1>1, <1>2, LeaveTypes DEF IInv
<1>4. ~At(r, "orphaned")
  BY DEF Crash, At, Over
<1> QED
  BY <1>1, <1>3, <1>4, RefundStep DEF IInv, Crash, books

\* Receiving an event, refusals and the merchant's mark.
LEMMA OtherBooksKeepRefund ==
  ASSUME IInv, RefundInv, NEW r \in Requests, Receive(r) \/ Refused(r) \/ MarkFulfilled(r)
  PROVE  RefundInv'
<1>1. CASE Receive(r)
  <2> DEFINE pc == IF Event[r] \in inbox THEN "done" ELSE "apply"
  <2>1. pc \in Pcs /\ pc \notin BeforeCancel /\ Kind[r] = "webhook" /\ Go(r, pc)
    BY <1>1 DEF Pcs, Over, BeforeCancel, Receive, Of
  <2> HIDE DEF pc
  <2>2. PICK new \in RequestRows : Become(r, new) /\ new.pc = pc
    BY <2>1, GoTypes DEF IInv
  <2>3. ~At(r, "refund") /\ ~At(r, "orphaned")
    BY <1>1 DEF Receive, At
  <2> QED
    BY <1>1, <2>1, <2>2, <2>3, AsideKeepsRefund DEF Receive, IInv
<1>2. CASE Refused(r)
  <2>1. PICK new \in RequestRows : Become(r, new) /\ new.pc = "done"
    BY <1>2, LeaveTypes DEF Refused, IInv, Pcs, Over
  <2>2. ~At(r, "refund") /\ ~At(r, "orphaned")
    BY <1>2 DEF Refused, At
  <2> QED
    BY <1>2, <2>1, <2>2, AsideKeepsRefund DEF Refused, books, IInv, BeforeCancel
<1>3. CASE MarkFulfilled(r)
  <2>1. PICK new \in RequestRows : Become(r, new) /\ new.pc = "done"
    BY <1>3, LeaveTypes DEF MarkFulfilled, IInv, Pcs, Over
  <2>2. order'.status = "fulfilled" /\ order'.payment = order.payment
    BY <1>3 DEF MarkFulfilled, Order
  <2> QED
    BY <1>3, <2>1, <2>2, RefundStep DEF MarkFulfilled, IInv, BeforeCancel
<1> QED
  BY <1>1, <1>2, <1>3

\* Label requests leave the payment and the cancel alone.
LEMMA ShippingKeepsRefund ==
  ASSUME IInv, RefundInv, NEW r \in Requests,
         \/ ShipStart(r) \/ BuyLabel(r) \/ CarrierFails(r) \/ Persist(r) \/ Stamp(r)
         \/ Recount(r) \/ Mark(r)
  PROVE  RefundInv'
<1>1. Kind[r] = "ship" /\ ~At(r, "refund") /\ ~At(r, "orphaned")
  BY DEF IInv, KindsApart, ShipStart, BuyLabel, CarrierFails, Persist, Stamp, Recount, Mark,
     At, Of, Parcel
<1>2. IInv'
  BY ShipStartInv, BuyLabelInv, CarrierFailsInv, PersistInv, StampInv, RecountInv, MarkInv
<1>3. \E new : Become(r, new)
  BY DEF ShipStart, BuyLabel, CarrierFails, Persist, Stamp, Recount, Mark, NextGroup, Go, Leave
<1>4. PICK new : Become(r, new)
  BY <1>3
<1>5. request'[r] = new /\ new \in RequestRows
  BY <1>2, <1>4, RequestFields DEF Become, IInv, TypeOK, RequestRows
<1>6. new.pc # "apply"
  BY <1>1, <1>2, <1>5 DEF IInv, KindsApart, Parcel, Over
<1>7. /\ order'.status = order.status /\ order'.payment = order.payment
      /\ UNCHANGED <<late, refund, tx>>
  BY DEF ShipStart, BuyLabel, CarrierFails, Persist, Stamp, Recount, Mark, books, Order
<1> QED
  BY <1>1, <1>4, <1>5, <1>6, <1>7, AsideKeepsRefund DEF IInv

LEMMA StepKeepsRefund ==
  ASSUME IInv, RefundInv, [Next]_vars
  PROVE  RefundInv'
<1>1. CASE UNCHANGED vars
  BY <1>1 DEF vars, books, RefundInv, WebhooksApply, PaidIsKnown, RefundComing, At, FoundPaid
<1>2. CASE RefundSettles
  BY <1>2 DEF RefundSettles, RefundInv, WebhooksApply, At
<1>3. ASSUME NEW r \in Requests, Step(r) PROVE RefundInv'
  BY <1>3, LoadOrderKeepsRefund, ConfirmKeepsRefund, CancelKeepsRefund,
     PaymentSucceededKeepsRefund, PaymentFailedKeepsRefund, CustomerReadsKeepsRefund,
     CustomerGuardKeepsRefund, DecideRefundKeepsRefund, CrashKeepsRefund,
     OtherBooksKeepRefund, ShippingKeepsRefund
     DEF Step
<1> QED
  BY <1>1, <1>2, <1>3 DEF Next

\* However payments, retries, cancels, parcels and crashes interleave, for any
\* number of each: when all is over, a cancelled order whose captured payment
\* was recorded in time has a refund.
THEOREM CancelledIsRefunded == Spec => []CancelledPaidIsRefunded
<1>1. Init => RefundInv
  <2> SUFFICES ASSUME Init PROVE RefundInv
    OBVIOUS
  <2>1. PICK made \in Together : request = [r \in Requests |->
          Request(IF r \in made THEN "idle" ELSE "done", NewOrder, FALSE, {}, "none")]
    BY DEF Init
  <2>2. order.payment = "pending"
    BY DEF Init, NewOrder, Order
  <2>3. \A r \in Requests : request[r].pc \in {"idle", "done"}
    BY <2>1 DEF Request
  <2> QED
    BY <2>2, <2>3 DEF RefundInv, WebhooksApply, PaidIsKnown, At
<1>2. IInv /\ RefundInv /\ [Next]_vars => RefundInv'
  BY StepKeepsRefund
<1>3. RefundInv => CancelledPaidIsRefunded
  BY DEF RefundInv, CancelledPaidIsRefunded, RefundComing, AllOver, At, Over
<1> QED
  BY <1>1, <1>2, <1>3, Invariance, PTL DEF Spec

-----------------------------------------------------------------------------
(* Orders whose parcels are all shipped.                                   *)

\* A label request marks the order by what it counted; with nobody else
\* shipping, "partial" stays true until it has written it.
MarkStands ==
  \A r \in Of({"ship"}) : request[r].pc \in {"load", "update"} =>
    /\ request[r].mark \in {"partial", "fulfilled"}
    /\ request[r].mark = "partial" => shipped # Groups

\* The request on its way to write "fulfilled", and able to.
MarkComing(r) ==
  \/ At(r, "recount")
  \/ At(r, "load") /\ request[r].mark = "fulfilled"
  \/ At(r, "update") /\ request[r].mark = "fulfilled" /\ Seen(r).fulfillment # "fulfilled"

CompleteIsMarked ==
  shipped = Groups /\ (\A r \in Of({"ship"}) : ~At(r, "dead"))
    => order.fulfillment = "fulfilled" \/ \E r \in Of({"ship"}) : MarkComing(r)

ShippedInv == MarkStands /\ CompleteIsMarked

\* A request that ships nothing leaves the parcels alone and at most completes
\* the order.
LEMMA BooksKeepShipped ==
  ASSUME TypeOK, ShippedInv, NEW r \in Requests, Kind[r] # "ship",
         NEW new, Become(r, new),
         order'.fulfillment \in {order.fulfillment, "fulfilled"}, UNCHANGED parcels
  PROVE  ShippedInv'
<1>1. \A s \in Of({"ship"}) : s # r /\ request'[s] = request[s]
  BY DEF Of, Become, TypeOK
<1>2. MarkStands'
  BY <1>1 DEF ShippedInv, MarkStands, parcels, Of
<1>3. ASSUME shipped' = Groups, \A s \in Of({"ship"}) : ~At(s, "dead")',
             order'.fulfillment # "fulfilled"
      PROVE  \E s \in Of({"ship"}) : MarkComing(s)'
  <2>1. PICK s \in Of({"ship"}) : MarkComing(s)
    BY <1>1, <1>3 DEF ShippedInv, CompleteIsMarked, parcels, At
  <2> QED
    BY <1>1, <2>1 DEF MarkComing, At, Seen
<1> QED
  BY <1>2, <1>3 DEF ShippedInv, CompleteIsMarked, Of

\* What the only label request under way may do.
LEMMA ParcelKeepsShipped ==
  ASSUME TypeOK, NEW r \in Requests, Kind[r] = "ship",
         NEW new \in RequestRows, Become(r, new), Shipping \subseteq {r},
         new.pc \in {"load", "update"} =>
           /\ new.mark \in {"partial", "fulfilled"}
           /\ new.mark = "partial" => shipped' # Groups,
         shipped' = Groups /\ new.pc # "dead"
             /\ (\A s \in Of({"ship"}) : s # r => ~At(s, "dead"))
           => \/ order'.fulfillment = "fulfilled"
              \/ new.pc = "recount"
              \/ new.pc = "load" /\ new.mark = "fulfilled"
              \/ new.pc = "update" /\ new.mark = "fulfilled"
                   /\ new.seen.fulfillment # "fulfilled"
  PROVE  ShippedInv'
<1>1. /\ request'[r] = new
      /\ \A s \in Requests : s # r => request'[s] = request[s]
  BY OthersStay
<1>2. r \in Of({"ship"})
  BY DEF Of
<1>3. \A s \in Of({"ship"}) : s # r => request[s].pc \in Over \union {"idle"}
  BY DEF Shipping
<1>4. MarkStands'
  BY <1>1, <1>3 DEF MarkStands, Of, Over
<1>5. CompleteIsMarked'
  BY <1>1, <1>2 DEF CompleteIsMarked, MarkComing, At, Seen, Of
<1> QED
  BY <1>4, <1>5 DEF ShippedInv

\* With a parcel at hand the order is not complete.
LEMMA ParcelAtHand ==
  ASSUME IInv, NEW r \in Requests \ crossed, Kind[r] = "ship",
         request[r].pc \in {"label", "persist"}
  PROVE  shipped # Groups
<1>1. OwedBy(request[r].pc, request[r].todo, shipped) /\ request[r].todo # {}
  BY OnlyOne DEF Parcel, IInv, HasGroup
<1>2. request[r].todo \subseteq Groups
  BY RequestFields DEF IInv
<1> QED
  BY <1>1, <1>2 DEF OwedBy

LEMMA ShipStartKeepsShipped ==
  ASSUME IInv, crossed' = {}, ShippedInv, NEW r \in Requests, ShipStart(r)
  PROVE  ShippedInv'
<1> DEFINE pc == IF Unshipped = {} THEN "done" ELSE "label"
           new == Request(pc, NewOrder, request[r].paid, Unshipped, "none")
<1>1. pc \in Pcs /\ pc \in {"done", "label"} /\ Unshipped \in SUBSET Groups
  BY DEF Pcs, Over, Unshipped
<1>2. Become(r, new)
  BY DEF ShipStart
<1> HIDE DEF pc
<1>3. new \in RequestRows /\ new.pc = pc
  BY <1>1, RequestTypes, RequestFields, NewOrderType DEF IInv
<1> HIDE DEF new
<1>4. Kind[r] = "ship" /\ At(r, "idle") /\ UNCHANGED <<order, shipped>>
  BY DEF ShipStart, Of, books, parcels
<1>5. Shipping = {}
  BY DEF ShipStart
<1>6. \A s \in Of({"ship"}) : ~MarkComing(s)
  BY <1>5 DEF Shipping, MarkComing, At, Over
<1>7. ASSUME shipped = Groups, \A s \in Of({"ship"}) : s # r => ~At(s, "dead")
      PROVE  order.fulfillment = "fulfilled"
  BY <1>4, <1>6, <1>7 DEF ShippedInv, CompleteIsMarked, At
<1> QED
  BY <1>1, <1>2, <1>3, <1>4, <1>5, <1>7, ParcelKeepsShipped DEF IInv

\* A parcel bought, refused or written down: one is still missing.
LEMMA LabelKeepsShipped ==
  ASSUME IInv, crossed = {}, NEW r \in Requests,
         BuyLabel(r) \/ CarrierFails(r) \/ Persist(r)
  PROVE  ShippedInv'
<1>1. Kind[r] = "ship" /\ request[r].pc \in {"label", "persist"} /\ shipped' = shipped
  BY DEF BuyLabel, CarrierFails, Persist, At, IInv, KindsApart, Parcel, parcels
<1>2. shipped # Groups /\ Shipping \subseteq {r}
  BY <1>1, ParcelAtHand, OnlyOne DEF Parcel
<1>3. \E new \in RequestRows : Become(r, new) /\ new.pc \in {"persist", "done", "stamp"}
  BY GoTypes, LeaveTypes DEF BuyLabel, CarrierFails, Persist, IInv, Pcs, Over
<1> QED
  BY <1>1, <1>2, <1>3, ParcelKeepsShipped DEF IInv

LEMMA StampKeepsShipped ==
  ASSUME IInv, crossed = {}, NEW r \in Requests, Stamp(r)
  PROVE  ShippedInv'
<1>1. PICK new \in RequestRows : Become(r, new) /\ new.pc = "recount"
  BY GoTypes DEF Stamp, IInv, Pcs
<1>2. Kind[r] = "ship" /\ Shipping \subseteq {r}
  BY OnlyOne DEF Stamp, At, IInv, KindsApart, Parcel
<1> QED
  BY <1>1, <1>2, ParcelKeepsShipped DEF IInv

LEMMA RecountKeepsShipped ==
  ASSUME IInv, crossed = {}, NEW r \in Requests, Recount(r)
  PROVE  ShippedInv'
<1> DEFINE mark == MarkFor(Unshipped)
           new == Request("load", request[r].seen, request[r].paid, request[r].todo, mark)
<1>1. /\ mark \in {"partial", "fulfilled"}
      /\ mark = "partial" <=> shipped # Groups
  BY DEF MarkFor, Unshipped, IInv, TypeOK
<1>2. Become(r, new) /\ shipped' = shipped
  BY DEF Recount, parcels
<1> HIDE DEF mark
<1>3. new \in RequestRows /\ new.pc = "load" /\ new.mark = mark
  <2>1. /\ "load" \in Pcs /\ request[r].seen \in OrderRows /\ request[r].paid \in BOOLEAN
        /\ request[r].todo \in SUBSET Groups /\ mark \in {"none", "partial", "fulfilled"}
    BY <1>1, RequestFields DEF IInv, Pcs
  <2> QED
    BY <2>1, RequestTypes
<1> HIDE DEF new
<1>4. Kind[r] = "ship" /\ Shipping \subseteq {r}
  BY OnlyOne DEF Recount, At, IInv, KindsApart, Parcel
<1> QED
  BY <1>1, <1>2, <1>3, <1>4, ParcelKeepsShipped DEF IInv

\* The label request reads the order it is about to mark.
LEMMA LoadKeepsShipped ==
  ASSUME IInv, crossed = {}, ShippedInv, NEW r \in Requests, Kind[r] = "ship", LoadOrder(r)
  PROVE  ShippedInv'
<1> DEFINE new == Request("update", order, request[r].paid, request[r].todo, request[r].mark)
<1>1. new \in RequestRows /\ new.pc = "update" /\ new.mark = request[r].mark /\ new.seen = order
  <2>1. order \in OrderRows /\ "update" \in Pcs
    BY DEF IInv, TypeOK, Pcs
  <2> QED
    BY <2>1, RequestTypes, RequestFields DEF IInv
<1>2. Become(r, new) /\ UNCHANGED <<order, shipped>> /\ At(r, "load")
  BY DEF LoadOrder, books, parcels
<1> HIDE DEF new
<1>3. Shipping \subseteq {r}
  BY <1>2, OnlyOne DEF At
<1>4. /\ request[r].mark \in {"partial", "fulfilled"}
      /\ request[r].mark = "partial" => shipped # Groups
  BY <1>2 DEF ShippedInv, MarkStands, Of, At
<1> QED
  BY <1>1, <1>2, <1>3, <1>4, ParcelKeepsShipped DEF IInv

LEMMA MarkKeepsShipped ==
  ASSUME IInv, crossed = {}, ShippedInv, NEW r \in Requests, Mark(r)
  PROVE  ShippedInv'
<1> DEFINE left == request[r].todo \ {Current(r)}
           pc == IF left = {} THEN "done" ELSE "label"
           new == Request(pc, NewOrder, request[r].paid, left, "none")
<1>1. pc \in Pcs /\ pc \in {"done", "label"} /\ left \in SUBSET Groups
  BY RequestFields DEF Pcs, Over, IInv
<1>2. Become(r, new) /\ shipped' = shipped /\ At(r, "update") /\ Kind[r] = "ship"
  BY DEF Mark, NextGroup, parcels, Of
<1> HIDE DEF left, pc
<1>3. new \in RequestRows /\ new.pc = pc
  BY <1>1, RequestTypes, RequestFields, NewOrderType DEF IInv
<1> HIDE DEF new
<1>4. Shipping \subseteq {r} /\ r \in Of({"ship"})
  BY <1>2, OnlyOne DEF At, Of
<1>5. ASSUME shipped = Groups, \A s \in Of({"ship"}) : s # r => ~At(s, "dead")
      PROVE  order'.fulfillment = "fulfilled"
  <2>1. request[r].mark = "fulfilled"
    BY <1>2, <1>4, <1>5 DEF ShippedInv, MarkStands, At
  <2>2. order.fulfillment = "fulfilled" \/ Seen(r).fulfillment # "fulfilled"
    <3>1. order.fulfillment = "fulfilled" \/ \E s \in Of({"ship"}) : MarkComing(s)
      BY <1>2, <1>5 DEF ShippedInv, CompleteIsMarked, At
    <3>2. \A s \in Of({"ship"}) : MarkComing(s) => s = r
      BY <1>4 DEF Shipping, MarkComing, At, Over
    <3> QED
      BY <1>2, <3>1, <3>2 DEF MarkComing, At
  <2>3. Seen(r).fulfillment \in FulfillmentStatuses
    BY RequestFields, OrderFields DEF IInv, Seen
  <2>4. MayMark(r) <=> Seen(r).fulfillment # "fulfilled"
    BY <2>1, <2>3 DEF MayMark, FulfillmentTransitions, FulfillmentStatuses
  <2>5. CASE MayMark(r)
    BY <2>1, <2>5 DEF Mark, Order
  <2>6. CASE ~MayMark(r)
    BY <2>2, <2>4, <2>6 DEF Mark
  <2> QED
    BY <2>5, <2>6
<1> QED
  BY <1>1, <1>2, <1>3, <1>4, <1>5, ParcelKeepsShipped DEF IInv

\* A label request that dies is no longer promised anything.
LEMMA CrashKeepsShipped ==
  ASSUME IInv, crossed = {}, NEW r \in Requests, Kind[r] = "ship", Crash(r)
  PROVE  ShippedInv'
<1>1. request[r].pc \in Parcel \union {"load", "update"}
  BY DEF Crash, IInv, KindsApart
<1>2. Leave(r, "dead") /\ "dead" \in Pcs
  BY <1>1 DEF Crash, At, Parcel, Pcs, Over
<1>3. PICK new \in RequestRows : Become(r, new) /\ new.pc = "dead"
  BY <1>2, LeaveTypes DEF IInv
<1> QED
  BY <1>1, <1>3, OnlyOne, ParcelKeepsShipped DEF IInv

LEMMA StepKeepsShipped ==
  ASSUME IInv, crossed' = {}, crossed = {} => ShippedInv, [Next]_vars
  PROVE  ShippedInv'
<1>0. crossed = {} /\ ShippedInv
  BY DEF Next, Step, vars, books, parcels, LoadOrder, Confirm, MarkFulfilled, Cancel,
     Refused, Receive, PaymentSucceeded, PaymentFailed, CustomerReads, CustomerGuard,
     DecideRefund, RefundSettles, ShipStart, BuyLabel, CarrierFails, Persist, Stamp, Recount,
     Mark, Crash
<1>1. CASE UNCHANGED vars
  BY <1>0, <1>1 DEF vars, books, parcels, ShippedInv, MarkStands, CompleteIsMarked, MarkComing, At, Seen
<1>2. CASE RefundSettles
  <2>1. order'.fulfillment = order.fulfillment
    BY <1>2 DEF RefundSettles, Order
  <2> QED
    BY <1>0, <1>2, <2>1 DEF RefundSettles, parcels, ShippedInv, MarkStands, CompleteIsMarked,
         MarkComing, At, Seen
<1>3. ASSUME NEW r \in Requests, Kind[r] # "ship", Step(r) PROVE ShippedInv'
  <2>1. \E new : Become(r, new)
    BY <1>3 DEF Step, LoadOrder, Confirm, MarkFulfilled, Cancel, Refused, Receive,
       PaymentSucceeded, PaymentFailed, CustomerReads, CustomerGuard, DecideRefund, Crash,
       ShipStart, BuyLabel, CarrierFails, Persist, Stamp, Recount, Mark, NextGroup, Go, Leave
  <2>2. UNCHANGED parcels
    <3>1. request[r].pc \notin Parcel
      BY <1>3 DEF IInv, KindsApart
    <3> QED
      BY <1>3, <3>1 DEF Step, LoadOrder, Confirm, MarkFulfilled, Cancel, Refused, Receive,
         PaymentSucceeded, PaymentFailed, CustomerReads, CustomerGuard, DecideRefund, Crash,
         ShipStart, BuyLabel, CarrierFails, Persist, Stamp, Recount, Mark, At, Parcel, Of
  <2>3. order'.fulfillment \in {order.fulfillment, "fulfilled"}
    BY <1>3 DEF Step, LoadOrder, Confirm, MarkFulfilled, Cancel, Refused, Receive,
       PaymentSucceeded, PaymentFailed, CustomerReads, CustomerGuard, DecideRefund, Crash,
       ShipStart, BuyLabel, CarrierFails, Persist, Stamp, Recount, Mark, Order, books, Of
  <2> QED
    BY <1>0, <1>3, <2>1, <2>2, <2>3, BooksKeepShipped DEF IInv
<1>4. ASSUME NEW r \in Requests, Kind[r] = "ship", Step(r) PROVE ShippedInv'
  <2>1. \/ LoadOrder(r) \/ ShipStart(r) \/ BuyLabel(r) \/ CarrierFails(r) \/ Persist(r)
        \/ Stamp(r) \/ Recount(r) \/ Mark(r) \/ Crash(r)
    BY <1>4 DEF Step, IInv, KindsApart, Confirm, MarkFulfilled, Cancel, Refused, Receive,
       PaymentSucceeded, PaymentFailed, CustomerReads, CustomerGuard, DecideRefund, At, Of,
       Parcel, Over
  <2> QED
    BY <1>0, <1>4, <2>1, LoadKeepsShipped, ShipStartKeepsShipped, LabelKeepsShipped,
       StampKeepsShipped, RecountKeepsShipped, MarkKeepsShipped, CrashKeepsShipped
<1> QED
  BY <1>1, <1>2, <1>3, <1>4 DEF Next

\* No mark written late, no merchant, no cancel and no refused transition leaves an
\* order whose parcels are all shipped short of "fulfilled", unless label requests
\* ran side by side.
THEOREM ShippedIsFulfilled == Spec => []ShippedMeansFulfilled
<1> DEFINE Stands == crossed = {} => ShippedInv
<1>1. Init => Stands
  <2> SUFFICES ASSUME Init PROVE ShippedInv
    OBVIOUS
  <2>1. PICK made \in Together : request = [r \in Requests |->
          Request(IF r \in made THEN "idle" ELSE "done", NewOrder, FALSE, {}, "none")]
    BY DEF Init
  <2>2. \A r \in Requests : request[r].pc \in {"idle", "done"}
    BY <2>1 DEF Request
  <2>3. shipped # Groups
    BY RequestsAssumption DEF Init, RequestsAssumption
  <2> QED
    BY <2>2, <2>3 DEF ShippedInv, MarkStands, CompleteIsMarked, Of
<1>2. IInv /\ Stands /\ [Next]_vars => Stands'
  BY StepKeepsShipped
<1>3. IInv /\ Stands => ShippedMeansFulfilled
  BY DEF ShippedInv, CompleteIsMarked, MarkComing, ShippedMeansFulfilled, At, Of
<1> QED
  BY <1>1, <1>2, <1>3, Invariance, PTL DEF Spec
=============================================================================
