------------------------------- MODULE MCSales -------------------------------
(***************************************************************************)
(* What a sale draws on and what it gives back: the stock of two           *)
(* warehouses, the stock of a store that sells one of its two variants     *)
(* past zero, and the refunds of an order paid through the provider alone, *)
(* whose refund events name it.  A behaviour is one of them at work.       *)
(***************************************************************************)
EXTENDS MCStockHold, MCRefundSaga

VARIABLES
  scene,
  quantityB, holdsB, orderedB, stockedB, recountsB, nowB, stepB, cartB, todoB, totalsB, begunB,
  lockedB, takenB, writtenB

policyVars == <<quantityB, holdsB, orderedB, stockedB, recountsB, nowB, stepB, cartB, todoB,
                totalsB, begunB, lockedB, takenB, writtenB>>

\* Two variants in one warehouse, the second sold past zero, two requests on one
\* cart, and a merchant who counts again.
OneEachB == [r \in OneWarehouse |-> 1]
LockRankB == [r \in OneWarehouse |-> IF r[1] = v1 THEN 1 ELSE 2]
FillRankB == [w \in {w1} |-> 1]

Policies == INSTANCE StockHold WITH
  quantity <- quantityB, holds <- holdsB, ordered <- orderedB, stocked <- stockedB,
  recounts <- recountsB, now <- nowB, step <- stepB, cart <- cartB, todo <- todoB,
  totals <- totalsB, begun <- begunB, locked <- lockedB, taken <- takenB, written <- writtenB,
  Variants <- {v1, v2}, Warehouses <- {w1}, FillRank <- FillRankB, DefaultWarehouse <- w1,
  StockRows <- OneWarehouse, LockRank <- LockRankB, PastZero <- {v2}, CartRequests <- HoldBoth,
  OrderRequests <- OrderMixed, InitialQuantity <- OneEachB,
  HoldTTL <- 1, SweepGrace <- 1, MaxTime <- 1, MaxRecount <- 1, MaxRecounts <- 1,
  SharedCart <- TRUE

SalesInit ==
  /\ scene \in {"warehouses", "policies", "refunds"}
  /\ Init /\ Policies!Init /\ RefundInit

SalesNext ==
  \/ scene = "warehouses" /\ Next /\ UNCHANGED <<scene, policyVars, refundVars>>
  \/ scene = "policies" /\ Policies!Next /\ UNCHANGED <<scene, vars, refundVars>>
  \/ scene = "refunds" /\ RefundNext /\ UNCHANGED <<scene, vars, policyVars>>

SalesSpec == SalesInit /\ [][SalesNext]_<<scene, vars, policyVars, refundVars>>

SalesSymmetry == SessionSymmetry \union RefundSymmetry

-----------------------------------------------------------------------------

\* Rows, sessions, sagas and sweeps have their types; no count is negative, not
\* even of a variant that is sold past zero.
SalesTypeOK == TypeOK /\ Policies!TypeOK /\ RefundTypeOK

\* Whoever is about to take units of a row has it locked, also when two requests
\* are on one cart and one variant is sold past zero (checkout_stock.go: the
\* decrement happens inside the row lock).
DecrementsLocked == LockedDecrements /\ Policies!LockedDecrements

\* With two requests on one cart, each seeing its own uncommitted writes, and a
\* merchant who counts again in between, no unit is sold twice.
SharedNeverOversold == Policies!NeverOversold
=============================================================================
