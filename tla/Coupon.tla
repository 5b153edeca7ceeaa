-------------------------------- MODULE Coupon --------------------------------
(***************************************************************************)
(* One coupon (internal/coupon): its row, the usage rows of the orders it  *)
(* discounted, and the merchant's edits.  Checkouts use it inside their    *)
(* transactions, which Checkout composes; an UPDATE of the row waits for   *)
(* the transaction that holds it.                                          *)
(***************************************************************************)
EXTENDS Requests

CONSTANTS
  EmailOf,      \* the customer of a request
  UsageLimit,   \* usage_limit at the start
  PatchLimits,  \* the limits a merchant may set instead
  PerCustomer,  \* per_customer
  MaxPatches    \* bound on the merchant's edits

ASSUME CouponAssumption ==
  /\ UsageLimit \in Nat /\ PatchLimits \subseteq 0..UsageLimit
  /\ PerCustomer \in Nat /\ MaxPatches \in Nat

VARIABLES
  coupon,       \* status, usage_limit and usage_count
  usages,       \* coupon_usage: the requests whose orders used the coupon
  couponHolder, \* the transaction that has the row locked
  counting,     \* requests between their count of usage rows and their end
  overlapped,   \* history: requests that counted while one of the same customer did
  patch,        \* a Patch request between its read and its write: what it read
  patches,
  overwritten   \* history: uses a Patch wrote over
couponVars == <<coupon, usages, couponHolder, counting, overlapped, patch, patches, overwritten>>

NotPatching == [status |-> "none", limit |-> 0, used |-> 0]

CouponInit ==
  /\ coupon = [status |-> "active", limit |-> UsageLimit, used |-> 0]
  /\ usages = {} /\ counting = {} /\ overlapped = {}
  /\ couponHolder = Nobody
  /\ patch = NotPatching /\ patches = 0 /\ overwritten = 0

UsedBy(email) == Cardinality({c \in usages : EmailOf[c] = email})

\* Mutant: the count compares with <=.
OneMore(c) == coupon.status = "active" /\ UsedBy(EmailOf[c]) <= PerCustomer

\* Apply's checks before the increment: they lock nothing.
Applicable(c) == coupon.status = "active" /\ UsedBy(EmailOf[c]) < PerCustomer

\* Mutant: the UPDATE has lost its guard on usage_limit.
AlwaysRoom == coupon.used >= 0

HasUsageCapacity == coupon.used < coupon.limit

\* Validate, at the start of a checkout.
Validated(c) == Applicable(c) /\ HasUsageCapacity

CountCustomerUsage(c) ==
  /\ counting' = counting \union {c}
  /\ overlapped' = IF \E d \in counting : EmailOf[d] = EmailOf[c]
                     THEN overlapped \union {c} ELSE overlapped
  /\ UNCHANGED <<coupon, usages, couponHolder, patch, patches, overwritten>>

\* The guarded UPDATE, which keeps the row until the transaction ends.
IncrementUsage(c) ==
  /\ couponHolder = Nobody /\ HasUsageCapacity
  /\ couponHolder' = c
  /\ UNCHANGED <<coupon, usages, counting, overlapped, patch, patches, overwritten>>

LetGo(c, holder) == IF holder = c THEN Nobody ELSE holder

\* Mutant: the use is in a transaction of its own and survives the order's rollback.
CouponKept(c) ==
  /\ coupon' = IF couponHolder = c THEN [coupon EXCEPT !.used = @ + 1] ELSE coupon
  /\ couponHolder' = LetGo(c, couponHolder)
  /\ counting' = counting \ {c}
  /\ UNCHANGED <<usages, overlapped, patch, patches, overwritten>>

CouponRollback(c) ==
  /\ couponHolder' = LetGo(c, couponHolder)
  /\ counting' = counting \ {c}
  /\ UNCHANGED <<coupon, usages, overlapped, patch, patches, overwritten>>

CouponCommit(c) ==
  /\ couponHolder' = LetGo(c, couponHolder)
  /\ counting' = counting \ {c}
  /\ IF couponHolder = c
       THEN /\ coupon' = [coupon EXCEPT !.used = @ + 1]
            /\ usages' = usages \union {c}
       ELSE UNCHANGED <<coupon, usages>>
  /\ UNCHANGED <<overlapped, patch, patches, overwritten>>

\* Patch reads the row, changes the fields it was given and saves it whole,
\* usage_count included.
PatchCoupon ==
  /\ patch = NotPatching /\ patches < MaxPatches
  /\ patches' = patches + 1
  /\ patch' = coupon
  /\ UNCHANGED <<coupon, usages, couponHolder, counting, overlapped, overwritten>>

SaveCoupon(status, limit) ==
  /\ patch # NotPatching /\ couponHolder = Nobody
  /\ coupon' = [patch EXCEPT !.status = status, !.limit = limit]
  /\ overwritten' = overwritten + coupon.used - patch.used
  /\ patch' = NotPatching
  /\ UNCHANGED <<usages, couponHolder, counting, overlapped, patches>>

\* Delete sets the status alone.
SoftDisable ==
  /\ couponHolder = Nobody /\ coupon.status = "active"
  /\ coupon' = [coupon EXCEPT !.status = "disabled"]
  /\ UNCHANGED <<usages, couponHolder, counting, overlapped, patch, patches, overwritten>>

MerchantEdits ==
  \/ PatchCoupon
  \/ \E status \in {"active", "disabled"}, limit \in PatchLimits \union {patch.limit} :
       SaveCoupon(status, limit)
  \/ SoftDisable

-----------------------------------------------------------------------------
(* Properties *)

CouponTypeOK ==
  /\ coupon.status \in {"active", "disabled"} /\ coupon.limit \in 0..UsageLimit
  /\ coupon.used \in 0..Cardinality(Checkouts)
  /\ usages \subseteq Checkouts /\ counting \subseteq Checkouts /\ overlapped \subseteq Checkouts
  /\ couponHolder \in Checkouts \union {Nobody}
  /\ patches \in 0..MaxPatches /\ overwritten \in Nat

\* The row counts the orders that used the coupon, but for those a Patch wrote
\* over, and there are no more of them than the limit allows.
UsageCounted ==
  /\ Cardinality(usages) = coupon.used + overwritten
  /\ Cardinality(usages) <= UsageLimit + overwritten

\* A customer is over the per-customer limit only by checkouts that ran at once.
PerCustomerKept ==
  \A c \in Checkouts :
    Cardinality({d \in usages \ overlapped : EmailOf[d] = EmailOf[c]}) <= PerCustomer

\* The coupon is used as often as its merchant allowed.
CouponSafe == UsageCounted /\ PerCustomerKept
=============================================================================
