-------------------------------- MODULE MCStore --------------------------------
(***************************************************************************)
(* One store between the requests of its customers and its merchant, in    *)
(* scenes.  Checkouts among themselves, while the merchant edits the       *)
(* coupon, while the gift card is bought, refunded and credited, while     *)
(* points are earned, adjusted and expire, and while the pictures they     *)
(* attach are changed, swept and erased; how a cart is split over the      *)
(* warehouses; the refunds of two orders that gift cards paid for in part; *)
(* the payments, cancels and parcels of one order; and what becomes of one *)
(* parcel.                                                                 *)
(***************************************************************************)
EXTENDS Erasure, MCOrderLifecycle, Parcels, Allocation, TLC

CONSTANTS k1, k2, k3,  \* ScopeIDs of refunds
          card1, card2, \* the gift cards of the refunded order
          NoScope, All, Scopes, Sagas

ASSUME StoreAssumption == Cardinality({k1, k2, k3}) = 3 /\ card1 # card2

VARIABLES scene,
          refunded, ledger, aged, credited, voided, shipment, moved, told,
          saga, sweep, reserved, booked, settled, raced

settleVars == <<refunded, ledger, aged, credited, voided, shipment, moved, told,
                saga, sweep, reserved, booked, settled, raced>>
orderVars == vars

\* Requests 1 and 2 are one checkout sent twice; 3 and 4 are others by the
\* same customer, 5 is somebody else's.  6, 7 and 8 are orders from one cart with
\* two pictures in it, the last of them by another customer.
Keys == <<"key1", "key1", "key2", "key3", "key4", "key5", "key6", "key7">>
Emails == <<"x", "x", "x", "x", "y", "x", "x", "y">>
Wishes == <<{"card"}, {"card"}, {"coupon", "card"},
            {"coupon", "points"}, {"coupon", "points"}, {}, {}, {}>>
Totals == <<1, 1, 3, 1, 1, 1, 1, 1>>
Pictures == <<{}, {}, {}, {}, {}, {"u1"}, {"u1", "u2"}, {"u1"}>>
Earns == [o \in PaidOrders |-> 1]
Buyers == [o \in PaidOrders |-> "x"]

\* Two variants, the second sold past zero; carts of up to three lines.
Variants == {"a", "b"}
Counts == {-1, 1, 2}
Carts == UNION {[1..n -> [variant : Variants, quantity : 1..2]] : n \in 1..3}

\* A partial refund, another one, and everything that is left.
OneTwoAll == [k \in Scopes |-> CASE k = k1 -> 1 [] k = k2 -> 2 [] OTHER -> All]

\* An order a card paid two units of, refunded one request at a time.
OneByOne == INSTANCE RefundSaga WITH
  order <- refunded,
  Sweeps <- {"w1"}, Wanted <- OneTwoAll, GrandTotal <- 2, Captured <- 2,
  CardOrder <- <<card1>>, Applied <- [c \in {card1} |-> 2], Voidable <- {},
  MaxInFlight <- 1, MayRefuse <- TRUE, LateSettle <- FALSE, EventsNameOrder <- FALSE

\* An order two cards paid a unit each of, one of which may become void.
TwoCards == INSTANCE RefundSaga WITH
  order <- refunded,
  Sweeps <- {"w1"}, Wanted <- OneTwoAll, GrandTotal <- 2, Captured <- 2,
  CardOrder <- <<card1, card2>>, Applied <- [c \in {card1, card2} |-> 1],
  Voidable <- {card1},
  MaxInFlight <- 3, MayRefuse <- FALSE, LateSettle <- FALSE, EventsNameOrder <- FALSE

\* The same with two refunds, whose sagas may outlive the sweeper's cutoff.
LateCards == INSTANCE RefundSaga WITH
  order <- refunded,
  Scopes <- {k1, k3},
  Sweeps <- {"w1"}, Wanted <- OneTwoAll, GrandTotal <- 2, Captured <- 2,
  CardOrder <- <<card1, card2>>, Applied <- [c \in {card1, card2} |-> 1],
  Voidable <- {card1},
  MaxInFlight <- 3, MayRefuse <- FALSE, LateSettle <- TRUE, EventsNameOrder <- FALSE

Symmetric == Permutations(Sagas)

\* What an instance has in the scenes that do not have it.
Nothing == 0
NoRefunds ==
  /\ refunded = Nothing /\ ledger = Nothing /\ aged = Nothing /\ credited = Nothing
  /\ voided = Nothing /\ shipment = Nothing /\ moved = Nothing /\ told = Nothing
  /\ saga = Nothing /\ sweep = Nothing /\ reserved = Nothing /\ booked = Nothing
  /\ settled = Nothing /\ raced = Nothing

NoCart == lines = <<>> /\ avail = Nothing /\ drawn = <<>> /\ outcome = "none" /\ rows = {}

Shopping == {"twice", "coupon", "card", "points", "artwork", "erasure", "shared"}
Refunding == {"oneByOne", "twoCards", "lateCards"}
Delivering == {"labels", "tracking", "cancelling"}

StoreInit ==
  /\ scene \in Shopping \union Refunding \union Delivering \union {"plan", "order"}
  /\ CouponInit /\ CardInit /\ LoyaltyInit /\ CheckoutInit /\ ErasureInit
  /\ card.status = (IF scene = "card" THEN "absent" ELSE "active")
  /\ \A m \in Members : member[m].enrolled = (scene # "points")
  /\ ArtworkInit
  /\ \A u \in Uploads : upload[u] = (IF scene = "artwork" /\ u = "u1" THEN NoUpload ELSE Uploaded)
  /\ CASE scene = "oneByOne" -> OneByOne!RefundInit
       [] scene = "twoCards" -> TwoCards!RefundInit
       [] scene = "lateCards" -> LateCards!RefundInit
       [] OTHER -> NoRefunds
  /\ Init /\ (scene # "order" <=> \A r \in Requests : At(r, "done"))
  /\ IF scene \in {"tracking", "cancelling"} THEN LabelledInit ELSE UnlabelledInit
  /\ scene \notin Delivering => carrier = "delhivery"
  /\ IF scene = "plan" THEN AllocationInit ELSE NoCart

\* Who takes part in a scene: one checkout sent twice and another that wants
\* the same card; three that want the coupon; two that want the card; one; two
\* of one cart, of one customer and of two.
Takes(c) ==
  CASE scene = "twice" -> c \in {1, 2, 3}
    [] scene = "coupon" -> c \in {3, 4, 5}
    [] scene = "card" -> c \in {1, 3}
    [] scene = "points" -> c = 4
    [] scene = "artwork" -> c = 7
    [] scene = "erasure" -> c \in {6, 7}
    [] scene = "shared" -> c \in {6, 8}
    [] OTHER -> FALSE

\* Label requests against each other, a merchant who deletes their rows and a cancel;
\* scans, polls and refreshes of a parcel on its way; cancels that overlap while it
\* is tracked.
ParcelsNext ==
  \/ scene = "labels" /\ ((\E d \in Desks : LabelStep(d)) \/ CancelStep(1)
       \/ \E l \in Labels : DeleteShipment(l))
  \/ scene = "tracking" /\ (Travels(1) \/ UpdateStatus(1) \/ \E t \in Trackers : TrackStep(t))
  \/ scene = "cancelling" /\ (Travels(1) \/ LookUp(1, 1) \/ GetTracking(1) \/ Advance(1)
       \/ \E c \in Cancellers : CancelStep(c))

shopVars == <<valueVars, erasureVars>>
postVars == <<parcelVars, allocationVars>>

StoreNext ==
  \/ /\ \/ scene = "oneByOne" /\ OneByOne!RefundNext
        \/ scene = "twoCards" /\ TwoCards!RefundNext
        \/ scene = "lateCards" /\ LateCards!RefundNext
     /\ UNCHANGED <<scene, shopVars, orderVars, postVars>>
  \/ /\ \E c \in Checkouts : Takes(c) /\ CheckoutStep(c)
     /\ UNCHANGED <<scene, erasureVars, settleVars, orderVars, postVars>>
  \/ /\ scene = "coupon" /\ MerchantEdits
     /\ UNCHANGED <<scene, cardVars, loyaltyVars, artworkVars, checkoutVars, erasureVars,
                    settleVars, orderVars, postVars>>
  \/ /\ scene = "card" /\ CardEvents
     /\ UNCHANGED <<scene, couponVars, loyaltyVars, artworkVars, checkoutVars, erasureVars,
                    settleVars, orderVars, postVars>>
  \/ /\ scene = "points" /\ LoyaltyEvents
     /\ UNCHANGED <<scene, couponVars, cardVars, artworkVars, checkoutVars, erasureVars,
                    settleVars, orderVars, postVars>>
  \/ /\ scene = "artwork" /\ BuyerEvents("u1")
     /\ UNCHANGED <<scene, couponVars, cardVars, loyaltyVars, checkoutVars, erasureVars,
                    settleVars, orderVars, postVars>>
  \/ /\ scene \in {"artwork", "erasure", "shared"} /\ SweeperEvents
     /\ UNCHANGED <<scene, couponVars, cardVars, loyaltyVars, checkoutVars, erasureVars,
                    settleVars, orderVars, postVars>>
  \/ /\ scene \in {"erasure", "shared"} /\ ErasureStep
     /\ UNCHANGED <<scene, couponVars, cardVars, loyaltyVars, checkoutVars, settleVars,
                    orderVars, postVars>>
  \/ /\ scene = "order" /\ Next
     /\ UNCHANGED <<scene, shopVars, settleVars, postVars>>
  \/ /\ ParcelsNext
     /\ UNCHANGED <<scene, shopVars, settleVars, orderVars, allocationVars>>
  \/ /\ scene = "plan" /\ (CannotFill \/ RecordAllocations)
     /\ UNCHANGED <<scene, shopVars, settleVars, orderVars, parcelVars>>

StoreSpec == StoreInit /\ [][StoreNext]_<<scene, shopVars, settleVars, orderVars, postVars>>

-----------------------------------------------------------------------------
(* The invariants of the instances, each of the scene it is about. *)

\* Every part has its type; no balance is negative.
StoreTypeOK ==
  /\ CouponTypeOK /\ CardTypeOK /\ LoyaltyTypeOK /\ CheckoutTypeOK
  /\ ArtworkTypeOK /\ ErasureTypeOK /\ ParcelsTypeOK
  /\ CASE scene = "oneByOne" -> OneByOne!RefundTypeOK
       [] scene = "twoCards" -> TwoCards!RefundTypeOK
       [] scene = "lateCards" -> LateCards!RefundTypeOK
       [] OTHER -> TRUE

\* With one refund in flight at a time, what settled is returned in full, and a
\* sweep resumes exactly the slice that was reserved.
ReturnedInFull ==
  scene = "oneByOne" => OneByOne!SettledIsReturned /\ OneByOne!ResumedAsReserved

\* The cards get back what the settled refunds entitle them to, whoever settles
\* them and however late; a card that became void strands no other.
CardsRestored ==
  /\ scene = "twoCards" => TwoCards!CardsFollowLedger /\ TwoCards!VoidCardStrandsNoOther
  /\ scene = "lateCards" => LateCards!CardsFollowLedger /\ LateCards!VoidCardStrandsNoOther
=============================================================================
