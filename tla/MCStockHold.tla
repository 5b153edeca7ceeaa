----------------------------- MODULE MCStockHold -----------------------------
(***************************************************************************)
(* Instances of StockHold for TLC.  A cfg picks a layout of the store: its *)
(* stock rows, its requests and its counts.                                *)
(***************************************************************************)
EXTENDS StockHold, TLC

CONSTANTS v1, v2,   \* variants
          w1, w2,   \* warehouses; w1 is filled first
          c1, c2, c3 \* carts

ASSUME InstanceAssumption == v1 # v2 /\ w1 # w2 /\ Cardinality({c1, c2, c3}) = 3

Line(v, n) == [variant |-> v, qty |-> n]

SessionSymmetry == Permutations(Sessions)

MCFillRank == [w \in Warehouses |-> IF w = w1 THEN 1 ELSE 2]

MCLockRank ==
  [r \in StockRows |-> (IF r[1] = v1 THEN 0 ELSE 2) + (IF r[2] = w1 THEN 1 ELSE 2)]

OneEach == [r \in StockRows |-> 1]

\* One variant in two warehouses; carts hold at w2, orders fill from w1.
TwoWarehouses == {<<v1, w1>>, <<v1, w2>>}
HoldOne == {<<Line(v1, 1)>>}
OrderOneOrTwo == {<<Line(v1, 1)>>, <<Line(v1, 1), Line(v1, 1)>>}
OrderOne == {<<Line(v1, 1)>>}

\* Two variants in one warehouse.
OneWarehouse == {<<v1, w1>>, <<v2, w1>>}
HoldBoth == {<<Line(v1, 1), Line(v2, 1)>>}
OrderMixed == {<<Line(v1, 1), Line(v2, 2)>>}
=============================================================================
