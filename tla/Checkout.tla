------------------------------- MODULE Checkout -------------------------------
(***************************************************************************)
(* A storefront checkout (handlers/storefront/checkout_ext.go) and the     *)
(* order it creates (internal/order/service.go): discounts are priced from *)
(* reads before the transaction, and consumed in it with the order, in the *)
(* order artwork, coupon, gift card, points.  Rows an UPDATE touched stay  *)
(* locked until the transaction ends.  Stock is StockHold's.               *)
(***************************************************************************)
EXTENDS Coupon, GiftCard, Loyalty, Artwork

CONSTANTS
  KeyOf,   \* idempotency_key of a request
  Uses,    \* which discounts a request asks for
  Due      \* its total before the gift card, with all its discounts

Discounts == {"coupon", "card", "points"}

ASSUME CheckoutAssumption ==
  /\ EmailOf \in [Checkouts -> Members]
  /\ Uses \in [Checkouts -> SUBSET Discounts]
  /\ Due \in [Checkouts -> Nat \ {0}]

VARIABLES
  stage,   \* where a request is
  quote,   \* what it decided to debit the gift card with
  placed   \* orders: the requests that created one
checkoutVars == <<stage, quote, placed>>
valueVars == <<couponVars, cardVars, loyaltyVars, artworkVars, checkoutVars>>

CheckoutInit ==
  /\ stage = [c \in Checkouts |-> "idle"]
  /\ quote = [c \in Checkouts |-> 0]
  /\ placed = {}

\* The transaction's steps, in order.
Position == [insert |-> 0, artwork |-> 1, coupon |-> 2, increment |-> 3,
             card |-> 4, points |-> 5, commit |-> 6]

\* A request skips what it attached nothing to, and discounts it does not use.
Skips(c, s) ==
  \/ s = "artwork" /\ Attached[c] = {}
  \/ s \in {"coupon", "increment"} /\ "coupon" \notin Uses[c]
  \/ s = "card" /\ quote[c] = 0
  \/ s = "points" /\ "points" \notin Uses[c]

Between(s, from, to) == Position[from] < Position[s] /\ Position[s] < Position[to]

Moves(c, from, to) == stage[c] = from /\ stage' = [stage EXCEPT ![c] = to]

GoesOn(c, from) ==
  \E to \in DOMAIN Position :
    /\ Position[from] < Position[to] /\ ~Skips(c, to)
    /\ \A s \in DOMAIN Position : Between(s, from, to) => Skips(c, s)
    /\ Moves(c, from, to)

\* The transaction is open from the insert on.
InTx(c) == stage[c] \in {"artwork", "coupon", "increment", "card", "points", "commit"}

\* Validate, GetCustomer and CheckBalance: what may be used, at what amounts.
CanPrice(c) ==
  /\ "coupon" \in Uses[c] => Validated(c)
  /\ "points" \in Uses[c] => HasPoints(EmailOf[c], 1)
  /\ "card" \in Uses[c] => Redeemable
  /\ Attachable(c)

Price(c) ==
  /\ CanPrice(c) /\ Moves(c, "idle", "lookup")
  /\ quote' = [quote EXCEPT ![c] = IF "card" \in Uses[c] THEN Lesser(card.balance, Due[c]) ELSE 0]
  /\ ReadUploads(c)
  /\ UNCHANGED <<couponVars, cardVars, loyaltyVars, placed>>

PriceRefused(c) ==
  /\ ~CanPrice(c) /\ Moves(c, "idle", "refused")
  /\ UNCHANGED <<couponVars, cardVars, loyaltyVars, artworkVars, quote, placed>>

SameKey(c) == {d \in Checkouts : KeyOf[d] = KeyOf[c]}

\* Create's lookup by key, before its transaction.
Lookup(c) ==
  /\ Moves(c, "lookup", IF SameKey(c) \intersect placed # {} THEN "reused" ELSE "insert")
  /\ UNCHANGED <<couponVars, cardVars, loyaltyVars, artworkVars, quote, placed>>

\* Mutant: no unique index on (store_id, idempotency_key).
NoIndex(c) == c \notin placed

\* The unique index: an insert waits for an open one with its key, and fails
\* when that one committed.
Unique(c) == SameKey(c) \intersect placed = {}

InsertOrder(c) ==
  /\ Unique(c) /\ \A d \in SameKey(c) : ~InTx(d)
  /\ GoesOn(c, "insert")
  /\ UNCHANGED <<couponVars, cardVars, loyaltyVars, artworkVars, quote, placed>>

AttachArtwork(c) ==
  /\ ClaimUploads(c) /\ GoesOn(c, "artwork")
  /\ UNCHANGED <<couponVars, cardVars, loyaltyVars, quote, placed>>

ApplyCoupon(c) ==
  /\ Applicable(c) /\ CountCustomerUsage(c) /\ GoesOn(c, "coupon")
  /\ UNCHANGED <<cardVars, loyaltyVars, artworkVars, quote, placed>>

IncrementCoupon(c) ==
  /\ IncrementUsage(c) /\ GoesOn(c, "increment")
  /\ UNCHANGED <<cardVars, loyaltyVars, artworkVars, quote, placed>>

DebitCard(c) ==
  /\ Debit(c, quote[c]) /\ GoesOn(c, "card")
  /\ UNCHANGED <<couponVars, loyaltyVars, artworkVars, quote, placed>>

RedeemPointsTx(c) ==
  /\ RedeemPoints(c, EmailOf[c], 1) /\ GoesOn(c, "points")
  /\ UNCHANGED <<couponVars, cardVars, artworkVars, quote, placed>>

Commit(c) ==
  /\ Moves(c, "commit", "placed")
  /\ placed' = placed \union {c}
  /\ CouponCommit(c) /\ CardCommit(c, quote[c]) /\ PointsCommit(c, EmailOf[c], 1)
  /\ ArtworkCommit(c)
  /\ UNCHANGED quote

\* The next statement of the transaction cannot do its work.
Fails(c) ==
  \/ stage[c] = "insert" /\ ~Unique(c)
  \/ stage[c] = "artwork" /\ RowsFree(c) /\ ~RowsPresent(c)
  \/ stage[c] = "coupon" /\ ~Applicable(c)
  \/ stage[c] = "increment" /\ couponHolder = Nobody /\ ~HasUsageCapacity
  \/ stage[c] = "card" /\ RowFree /\ ~CanDebit(quote[c])
  \/ stage[c] = "points" /\ pointsHolder = Nobody /\ ~HasPoints(EmailOf[c], 1)

\* A failed statement, or the death of the process, unwinds the whole order.
Rollback(c) ==
  /\ Fails(c) \/ InTx(c)
  /\ stage' = [stage EXCEPT ![c] = "failed"]
  /\ CouponRollback(c) /\ CardRollback(c) /\ PointsRollback(c)
  /\ ArtworkRollback(c)
  /\ UNCHANGED <<quote, placed>>

CheckoutStep(c) ==
  \/ Price(c) \/ PriceRefused(c) \/ Lookup(c) \/ InsertOrder(c)
  \/ AttachArtwork(c) \/ ApplyCoupon(c) \/ IncrementCoupon(c) \/ DebitCard(c) \/ RedeemPointsTx(c)
  \/ Commit(c) \/ Rollback(c)

-----------------------------------------------------------------------------
(* Properties *)

CheckoutTypeOK ==
  /\ stage \in [Checkouts -> {"idle", "lookup", "insert", "artwork", "coupon", "increment",
                              "card", "points", "commit", "placed", "reused", "refused", "failed"}]
  /\ quote \in [Checkouts -> 0..InitialBalance]
  /\ placed \subseteq Checkouts

\* A key has one order, however often and concurrently it is sent.
OneOrderPerKey == \A c, d \in placed : KeyOf[c] = KeyOf[d] => c = d

\* An order has the value it was priced with, and only an order has any: each
\* placed order used its coupon and redeemed its card's debit, unless given
\* back, and a request without an order used nothing.
PaidByItsDiscounts ==
  /\ usages = {c \in placed : "coupon" \in Uses[c]}
  /\ \A c \in Checkouts : spent[c] \in (IF c \in placed THEN {0, quote[c]} ELSE {0})
  /\ cardLedger.redeem = Total(quote, placed)

\* An order and the value that paid for it commit together or not at all.
CheckoutAtomic == OneOrderPerKey /\ PaidByItsDiscounts
=============================================================================
