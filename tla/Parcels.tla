-------------------------------- MODULE Parcels --------------------------------
(***************************************************************************)
(* One warehouse's share of an order after checkout: the labels the        *)
(* merchant buys for it, what the carrier does with them, the scans and    *)
(* polls that move shipments.status, and the calls that cancel a shipment  *)
(* at the carrier (the merchant's button, a full refund, the cancel of an  *)
(* unpaid order).  Tracking and cancelling read the row, call the carrier  *)
(* or not, and write by id: nothing is locked.                             *)
(***************************************************************************)
EXTENDS Integers, FiniteSets

CONSTANTS
  Desks,            \* requests that buy labels for the share
  MaxLabels,        \* bound on the labels bought
  Trackers,         \* webhook deliveries, polls, the merchant's refresh
  Cancellers,       \* calls that cancel one shipment
  ReversePickups,   \* REVERSE_PICKUP_ENABLED
  MaxPickups,       \* bound on the reverse pickups of a label
  MaxEdits,         \* bound on statuses set, and rows deleted, by the merchant
  MaxParcelMishaps  \* bound on processes that die and answers or writes that are lost

ASSUME ParcelsAssumption ==
  /\ MaxLabels \in Nat /\ MaxPickups \in Nat /\ MaxEdits \in Nat /\ MaxParcelMishaps \in Nat
  /\ ReversePickups \in BOOLEAN

VARIABLES
  row,        \* shipments: status, cancel_action and cancel_status of each label
  stamp,      \* shipment_id of the share's order_allocations; 0 is NULL
  courier,    \* external: where the carrier has the parcel
  pickups,    \* external: reverse pickups the carrier has been sent on
  carrier,    \* the carrier of the store
  desk,       \* where each label request is
  tracker, canceller,
  edits, parcelMishaps,
  abandoned,  \* history: labels whose row was deleted, or whose request died
  contended,  \* history: labels bought by requests that ran side by side
  heard,      \* history: statuses trackers wrote
  overtaken,  \* history: labels a tracker wrote on after its read was out of date
  disturbed   \* history: labels whose cancels overlapped, died or lost an answer

parcelVars == <<row, stamp, courier, pickups, carrier, desk, tracker, canceller,
                edits, parcelMishaps, abandoned, contended, heard, overtaken, disturbed>>
budgets == <<edits, parcelMishaps>>
histories == <<abandoned, contended, heard, overtaken, disturbed>>

Labels == 1..MaxLabels
Statuses == {"none", "pending", "in_transit", "out_for_delivery", "delivered", "exception"}
Unsaved == [status |-> "none", action |-> "none", cancel |-> "none"]
Fresh == [status |-> "pending", action |-> "none", cancel |-> "none"]
NoRequest == [pc |-> "idle", label |-> 0, alone |-> TRUE]
Quiet == [pc |-> "idle", label |-> 0, status |-> "none", news |-> "none"]
Ready == [pc |-> "idle", label |-> 0, action |-> "none", result |-> "none"]

RestInit ==
  /\ pickups = [l \in Labels |-> 0] /\ carrier \in {"delhivery", "shipengine"}
  /\ desk = [d \in Desks |-> NoRequest]
  /\ tracker = [t \in Trackers |-> Quiet] /\ canceller = [c \in Cancellers |-> Ready]
  /\ edits = 0 /\ parcelMishaps = 0
  /\ abandoned = {} /\ contended = {} /\ heard = [l \in Labels |-> {}] /\ overtaken = {} /\ disturbed = {}

UnlabelledInit ==
  /\ row = [l \in Labels |-> Unsaved] /\ stamp = 0
  /\ courier = [l \in Labels |-> "unsold"]
  /\ RestInit

\* The first label is bought and stamped.
LabelledInit ==
  /\ row = [l \in Labels |-> IF l = 1 THEN Fresh ELSE Unsaved] /\ stamp = 1
  /\ courier = [l \in Labels |-> IF l = 1 THEN "booked" ELSE "unsold"]
  /\ RestInit

Saved(l) == row[l].status # "none"
Mishap == parcelMishaps < MaxParcelMishaps /\ parcelMishaps' = parcelMishaps + 1

-----------------------------------------------------------------------------
(* Labels: Create, for the warehouse's group.                              *)

NextLabel == Cardinality({l \in Labels : courier[l] # "unsold"}) + 1

\* Mutant: every allocation counts as unshipped.
AlwaysOwed == TRUE

\* 409 already_shipped unless an allocation has a NULL shipment_id.
StillOwed == stamp = 0

Busy == {d \in Desks : desk[d].pc # "idle"}

\* Nothing is locked between this read and the stamp: requests may run side by
\* side, and then each finds the share unshipped.
AskLabel(d) ==
  /\ desk[d].pc = "idle" /\ StillOwed /\ NextLabel \in Labels
  /\ desk' = [e \in Desks |->
       IF e = d THEN [pc |-> "buy", label |-> 0, alone |-> Busy = {}]
       ELSE [desk[e] EXCEPT !.alone = @ /\ e \notin Busy]]
  /\ contended' = contended \union {desk[e].label : e \in Busy}
  /\ UNCHANGED <<row, stamp, courier, pickups, carrier, tracker, canceller, budgets,
                 abandoned, heard, overtaken, disturbed>>

BuyParcelLabel(d) ==
  /\ desk[d].pc = "buy" /\ NextLabel \in Labels
  /\ courier' = [courier EXCEPT ![NextLabel] = "booked"]
  /\ desk' = [desk EXCEPT ![d].pc = "persist", ![d].label = NextLabel]
  /\ contended' = IF desk[d].alone THEN contended ELSE contended \union {NextLabel}
  /\ UNCHANGED <<row, stamp, pickups, carrier, tracker, canceller, budgets,
                 abandoned, heard, overtaken, disturbed>>

EndRequest(d) == desk' = [desk EXCEPT ![d] = NoRequest]

CarrierSellsNone(d) ==
  /\ desk[d].pc = "buy"
  /\ EndRequest(d)
  /\ UNCHANGED <<row, stamp, courier, pickups, carrier, tracker, canceller, budgets, histories>>

PersistShipment(d) ==
  /\ desk[d].pc = "persist"
  /\ row' = [row EXCEPT ![desk[d].label] = Fresh]
  /\ desk' = [desk EXCEPT ![d].pc = "stamp"]
  /\ UNCHANGED <<stamp, courier, pickups, carrier, tracker, canceller, budgets, histories>>

\* WHERE ... AND shipment_id IS NULL.  A row deleted since fails the foreign key.
StampAllocations(d) ==
  /\ desk[d].pc = "stamp"
  /\ stamp' = IF stamp = 0 /\ Saved(desk[d].label) THEN desk[d].label ELSE stamp
  /\ EndRequest(d)
  /\ UNCHANGED <<row, courier, pickups, carrier, tracker, canceller, budgets, histories>>

\* The process dies, or persisting or stamping fails, after the label was sold.
LabelDies(d) ==
  /\ desk[d].pc \in {"persist", "stamp"} /\ Mishap
  /\ abandoned' = abandoned \union {desk[d].label}
  /\ EndRequest(d)
  /\ UNCHANGED <<row, stamp, courier, pickups, carrier, tracker, canceller, edits,
                 contended, heard, overtaken, disturbed>>

LabelStep(d) ==
  \/ AskLabel(d) \/ BuyParcelLabel(d) \/ CarrierSellsNone(d)
  \/ PersistShipment(d) \/ StampAllocations(d) \/ LabelDies(d)

-----------------------------------------------------------------------------
(* The carrier, and the merchant's own edits of the row.                   *)

Travels(l) ==
  /\ courier[l] \in {"booked", "moving"}
  /\ courier' = [courier EXCEPT ![l] = IF @ = "booked" THEN "moving" ELSE "delivered"]
  /\ UNCHANGED <<row, stamp, pickups, carrier, desk, tracker, canceller, budgets, histories>>

\* UpdateStatus: any status over any other.
UpdateStatus(l) ==
  /\ Saved(l) /\ edits < MaxEdits
  /\ \E s \in Statuses \ {"none", "pending"} :
       row' = [row EXCEPT ![l].status = s]
  /\ edits' = edits + 1
  /\ overtaken' = overtaken \union {l}
  /\ UNCHANGED <<stamp, courier, pickups, carrier, desk, tracker, canceller, parcelMishaps,
                 abandoned, contended, heard, disturbed>>

\* The carrier is not told; ON DELETE SET NULL frees the allocations.
DeleteShipment(l) ==
  /\ Saved(l) /\ edits < MaxEdits
  /\ row' = [row EXCEPT ![l] = Unsaved]
  /\ stamp' = IF stamp = l THEN 0 ELSE stamp
  /\ edits' = edits + 1
  /\ abandoned' = abandoned \union {l}
  /\ UNCHANGED <<courier, pickups, carrier, desk, tracker, canceller, parcelMishaps,
                 contended, heard, overtaken, disturbed>>

-----------------------------------------------------------------------------
(* Tracking: the carrier's webhook, the poll every two minutes and the     *)
(* merchant's refresh, which all end in AdvanceShipmentFromTracking.       *)

\* What the carriers' codes map to: everything unknown is "in_transit".
Tells(l) ==
  CASE courier[l] = "delivered" -> {"delivered"}
    [] courier[l] = "returning" -> {"exception"}
    [] OTHER -> {"in_transit", "exception"}

Track(t, pc, l, status, news) ==
  tracker' = [tracker EXCEPT ![t] = [pc |-> pc, label |-> l, status |-> status, news |-> news]]

\* A scan leaves the carrier; it may arrive late, after others, or again.  Only
\* Delhivery has a webhook.
Scan(t, l) ==
  /\ tracker[t].pc = "idle" /\ courier[l] # "unsold" /\ carrier = "delhivery"
  /\ \E news \in Tells(l) : Track(t, "sent", l, "none", news)
  /\ UNCHANGED <<row, stamp, courier, pickups, carrier, desk, canceller, budgets, histories>>

\* An unknown tracking number is answered 200 and dropped.
ReceiveScan(t) ==
  /\ tracker[t].pc = "sent"
  /\ LET l == tracker[t].label IN
     IF Saved(l) THEN Track(t, "advance", l, row[l].status, tracker[t].news)
     ELSE tracker' = [tracker EXCEPT ![t] = Quiet]
  /\ UNCHANGED <<row, stamp, courier, pickups, carrier, desk, canceller, budgets, histories>>

\* The poll lists open rows; a refresh takes any.
LookUp(t, l) ==
  /\ tracker[t].pc = "idle" /\ Saved(l)
  /\ Track(t, "track", l, row[l].status, "none")
  /\ UNCHANGED <<row, stamp, courier, pickups, carrier, desk, canceller, budgets, histories>>

GetTracking(t) ==
  /\ tracker[t].pc = "track"
  /\ \E news \in Tells(tracker[t].label) :
       Track(t, "advance", tracker[t].label, tracker[t].status, news)
  /\ UNCHANGED <<row, stamp, courier, pickups, carrier, desk, canceller, budgets, histories>>

\* statusOrder; an exception has no place in it.
Place(status) ==
  CASE status = "pending" -> 0 [] status = "in_transit" -> 2
    [] status = "out_for_delivery" -> 3 [] status = "delivered" -> 4 [] OTHER -> -1

\* Mutant: any news is newer.
NeverBack(t) == FALSE

\* "Don't regress": compared with the status that was read.
GoesBack(t) ==
  /\ Place(tracker[t].status) >= 0 /\ Place(tracker[t].news) >= 0
  /\ Place(tracker[t].news) < Place(tracker[t].status)

Advance(t) ==
  /\ tracker[t].pc = "advance"
  /\ LET l == tracker[t].label  news == tracker[t].news IN
     IF news = tracker[t].status \/ GoesBack(t) \/ ~Saved(l)
     THEN UNCHANGED <<row, heard, overtaken>>
     ELSE /\ row' = [row EXCEPT ![l].status = news]
          /\ heard' = [heard EXCEPT ![l] = @ \union {news}]
          /\ overtaken' = IF row[l].status = tracker[t].status THEN overtaken
                          ELSE overtaken \union {l}
  /\ tracker' = [tracker EXCEPT ![t] = Quiet]
  /\ UNCHANGED <<stamp, courier, pickups, carrier, desk, canceller, budgets,
                 abandoned, contended, disturbed>>

TrackStep(t) ==
  \/ \E l \in Labels : Scan(t, l) \/ LookUp(t, l)
  \/ ReceiveScan(t) \/ GetTracking(t) \/ Advance(t)

-----------------------------------------------------------------------------
(* shipmentcancel.Executor.                                                *)

ResolveAction(status) ==
  CASE status = "pending" -> "cancel_forward"
    [] status \in {"in_transit", "out_for_delivery"} -> "rto"
    [] status = "delivered" -> "reverse_pickup"
    [] OTHER -> "none"

\* Mutant: a cancel that succeeded is tried again.
NeverCancelled(l) == FALSE

AlreadyCancelled(l) == row[l].cancel = "succeeded"

Cancelling(l) == \E c \in Cancellers : canceller[c].pc # "idle" /\ canceller[c].label = l

\* The row is read once, by CancelShipmentByID or in CancelForOrder's list; a
\* call over several parcels is one call for each of them.
ReadShipment(c, l) ==
  /\ canceller[c].pc = "idle" /\ Saved(l)
  /\ ~AlreadyCancelled(l) /\ ResolveAction(row[l].status) # "none"
  /\ canceller' = [canceller EXCEPT ![c] =
       [pc |-> "carrier", label |-> l, action |-> ResolveAction(row[l].status), result |-> "none"]]
  /\ disturbed' = IF Cancelling(l) THEN disturbed \union {l} ELSE disturbed
  /\ UNCHANGED <<row, stamp, courier, pickups, carrier, desk, tracker, budgets,
                 abandoned, contended, heard, overtaken>>

Answered(c, result) ==
  canceller' = [canceller EXCEPT ![c].pc = "record", ![c].result = result]

\* What the call does at the carrier.  Delhivery has one call for both: a parcel
\* on its way turns back.  A label that was voided already may be voided again.
CarrierCancels(c) ==
  LET l == canceller[c].label IN
  /\ canceller[c].action \in {"cancel_forward", "rto"}
  /\ canceller[c].action = "rto" => carrier = "delhivery"
  /\ \/ courier[l] \in {"booked", "cancelled", "returning"}
     \/ courier[l] = "moving" /\ carrier = "delhivery"
  /\ courier' = [courier EXCEPT ![l] =
       CASE @ = "booked" -> "cancelled" [] @ = "moving" -> "returning" [] OTHER -> @]
  /\ UNCHANGED pickups

\* The return gets a row of its own, inserted as cancelled so that no call drives
\* it; it is left out.
CarrierCollects(c) ==
  /\ canceller[c].action = "reverse_pickup" /\ ReversePickups
  /\ pickups[canceller[c].label] < MaxPickups
  /\ pickups' = [pickups EXCEPT ![canceller[c].label] = @ + 1]
  /\ UNCHANGED courier

CarrierDoes(c) ==
  /\ canceller[c].pc = "carrier"
  /\ CarrierCancels(c) \/ CarrierCollects(c)
  /\ Answered(c, "succeeded")
  /\ UNCHANGED <<row, stamp, carrier, desk, tracker, budgets, histories>>

\* No ReturnToOriginer, or REVERSE_PICKUP_ENABLED off.
Unsupported(c) ==
  /\ canceller[c].pc = "carrier"
  /\ \/ canceller[c].action = "rto" /\ carrier # "delhivery"
     \/ canceller[c].action = "reverse_pickup" /\ ~ReversePickups
  /\ Answered(c, "unsupported")
  /\ UNCHANGED <<row, stamp, courier, pickups, carrier, desk, tracker, budgets, histories>>

\* Mutant: a status of 200 is a success, whatever the body says.
TwoHundred == "succeeded"

\* The body is read: Failure, approved = false, or no clear success.
Refusal == "failed"

\* Refused, out of reach, or nothing to send.
CarrierRefuses(c) ==
  /\ canceller[c].pc = "carrier"
  /\ canceller[c].action = "reverse_pickup" => ReversePickups
  /\ Answered(c, Refusal)
  /\ UNCHANGED <<row, stamp, courier, pickups, carrier, desk, tracker, budgets, histories>>

AnswerLost(c) ==
  /\ canceller[c].pc = "carrier" /\ Mishap
  /\ CarrierCancels(c) \/ CarrierCollects(c)
  /\ Answered(c, "failed")
  /\ disturbed' = disturbed \union {canceller[c].label}
  /\ UNCHANGED <<row, stamp, carrier, desk, tracker, edits, abandoned, contended,
                 heard, overtaken>>

AfterRecord(c) ==
  canceller' = [canceller EXCEPT ![c] =
    IF @.action = "cancel_forward" /\ @.result = "succeeded" THEN [@ EXCEPT !.pc = "release"]
    ELSE Ready]

\* SetShipmentCancelState: by id, over whatever is there.
RecordOutcome(c) ==
  /\ canceller[c].pc = "record"
  /\ LET l == canceller[c].label IN
     row' = IF Saved(l)
            THEN [row EXCEPT ![l].action = canceller[c].action, ![l].cancel = canceller[c].result]
            ELSE row
  /\ AfterRecord(c)
  /\ UNCHANGED <<stamp, courier, pickups, carrier, desk, tracker, budgets, histories>>

\* A record that fails is logged, and the call goes on.
RecordFails(c) ==
  /\ canceller[c].pc = "record" /\ Mishap
  /\ AfterRecord(c)
  /\ disturbed' = disturbed \union {canceller[c].label}
  /\ UNCHANGED <<row, stamp, courier, pickups, carrier, desk, tracker, edits,
                 abandoned, contended, heard, overtaken>>

\* The columns of order_allocations (migration 000118, and none since adds one).
AllocationColumns == {"order_item_id", "warehouse_id", "quantity", "shipment_id", "created_at"}

\* ReleaseAllocationsForShipment sets shipment_id and updated_at; the database
\* refuses a statement that names a column the table does not have, and the
\* error is logged.
ReleaseAllocations(c) ==
  /\ canceller[c].pc = "release"
  /\ stamp' = IF /\ {"shipment_id", "updated_at"} \subseteq AllocationColumns
                 /\ stamp = canceller[c].label
              THEN 0 ELSE stamp
  /\ canceller' = [canceller EXCEPT ![c] = Ready]
  /\ UNCHANGED <<row, courier, pickups, carrier, desk, tracker, budgets, histories>>

CancelDies(c) ==
  /\ canceller[c].pc # "idle" /\ Mishap
  /\ canceller' = [canceller EXCEPT ![c] = Ready]
  /\ disturbed' = disturbed \union {canceller[c].label}
  /\ UNCHANGED <<row, stamp, courier, pickups, carrier, desk, tracker, edits,
                 abandoned, contended, heard, overtaken>>

CancelStep(c) ==
  \/ \E l \in Labels : ReadShipment(c, l)
  \/ CarrierDoes(c) \/ Unsupported(c) \/ CarrierRefuses(c) \/ AnswerLost(c)
  \/ RecordOutcome(c) \/ RecordFails(c) \/ ReleaseAllocations(c) \/ CancelDies(c)

-----------------------------------------------------------------------------
(* All of them together. *)

ParcelInit == UnlabelledInit \/ LabelledInit

ParcelStep ==
  \/ \E d \in Desks : LabelStep(d)
  \/ \E l \in Labels : Travels(l) \/ UpdateStatus(l) \/ DeleteShipment(l)
  \/ \E t \in Trackers : TrackStep(t)
  \/ \E c \in Cancellers : CancelStep(c)

ParcelSpec == ParcelInit /\ [][ParcelStep]_parcelVars

-----------------------------------------------------------------------------
Actions == {"none", "cancel_forward", "rto", "reverse_pickup"}

ParcelsTypeOK ==
  /\ row \in [Labels -> [status : Statuses, action : Actions,
                         cancel : {"none", "succeeded", "failed", "unsupported"}]]
  /\ stamp \in {0} \union {l \in Labels : Saved(l)}
  /\ courier \in [Labels -> {"unsold", "booked", "moving", "delivered", "cancelled", "returning"}]
  /\ pickups \in [Labels -> Nat]
  /\ \A d \in Desks : desk[d].pc \in {"idle", "buy", "persist", "stamp"}
  /\ \A c \in Cancellers : canceller[c].pc \in {"idle", "carrier", "record", "release"}
  /\ \A t \in Trackers : tracker[t].pc \in {"idle", "sent", "track", "advance"}

\* The share is never sold two labels, but for those whose row the merchant
\* deleted, those whose request died, and those bought by requests that ran side
\* by side (shipments.go Create: a second label "for goods that already
\* shipped"; nothing bounds the requests under way, and each that reads the
\* share before another has stamped it buys a label).
OneParcel == Cardinality({l \in Labels \ (abandoned \union contended) : courier[l] # "unsold"}) <= 1

\* Calls that follow one another send one courier to the customer, however often
\* a cancel is repeated (executor.go: "can't double-hit the carrier").
HitOnce == \A l \in Labels \ disturbed : pickups[l] <= 1

\* A cancel recorded as succeeded is one the carrier carried out: the parcel is
\* not on its way to the customer, or a courier was sent to fetch it
\* (delhivery.go and shipengine.go read the outcome in the body).
RecordedIsDone ==
  \A l \in Labels : row[l].cancel = "succeeded" =>
    \/ row[l].action = "reverse_pickup" /\ pickups[l] > 0
    \/ row[l].action # "reverse_pickup" /\ courier[l] \in {"cancelled", "returning"}

\* News that arrives late or twice does not take a delivered parcel back, when
\* neither two trackers nor the merchant wrote over each other and no exception
\* was heard (AdvanceShipmentFromTracking: "Don't regress").  What the code's
\* comment says without those conditions is DeliveredIsTerminal.
DeliveredStays ==
  \A l \in Labels \ overtaken :
    Saved(l) /\ "delivered" \in heard[l] /\ "exception" \notin heard[l]
      => row[l].status = "delivered"

\* While the merchant edits nothing, a shipment that tracking delivered stays
\* delivered (shipments.go: "delivered is terminal").
DeliveredIsTerminal ==
  edits = 0 => \A l \in Labels : Saved(l) /\ "delivered" \in heard[l] => row[l].status = "delivered"

ParcelsSafe == OneParcel /\ HitOnce /\ RecordedIsDone /\ DeliveredStays

\* Once a label is cancelled before it left, and nothing was lost on the way, the
\* share can be labelled again (executor.go releaseAllocations: "the stamp should
\* go when the cancel succeeds").
CancelledIsFree ==
  \A l \in Labels \ disturbed :
    (/\ Saved(l) /\ row[l].action = "cancel_forward" /\ row[l].cancel = "succeeded"
     /\ Busy = {} /\ ~Cancelling(l))
    => stamp # l
=============================================================================
