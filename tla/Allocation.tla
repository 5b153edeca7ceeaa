------------------------------- MODULE Allocation -------------------------------
(***************************************************************************)
(* Which warehouse ships how much of which order line: allocation.Plan     *)
(* over a snapshot of what is available, and recordAllocations, which      *)
(* turns the plan, grouped by warehouse and without line numbers, back     *)
(* into rows of the order's items.                                         *)
(***************************************************************************)
EXTENDS Integers, FiniteSets, Sequences
LOCAL INSTANCE SequencesExt
LOCAL INSTANCE FiniteSetsExt
LOCAL INSTANCE Functions

CONSTANTS
  Skus,        \* variants
  PastZero,    \* variants whose inventory_policy is "continue"
  Depots,      \* number of live warehouses; 1 is filled first
  Stocks,      \* what the snapshot may say of a variant at a warehouse
  Basket       \* carts: sequences of [variant, quantity]

ASSUME AllocationAssumption ==
  /\ PastZero \subseteq Skus /\ Depots \in Nat \ {0} /\ Stocks \subseteq Int
  /\ \A b \in Basket : \A i \in DOMAIN b : b[i].variant \in Skus /\ b[i].quantity > 0

VARIABLES
  lines,      \* stockLinesFromItems
  avail,      \* loadAvailability: variant, warehouse; negative when held past the count
  drawn,      \* the order order_items come back in: line numbers, permuted
  outcome,    \* "none", "cannotFill", "unattributable" or "recorded"
  rows        \* order_allocations

allocationVars == <<lines, avail, drawn, outcome, rows>>

\* One batch insert gives all items one created_at: their ids order them.
AllocationInit ==
  /\ lines \in Basket
  /\ avail \in [Skus -> [1..Depots -> Stocks]]
  /\ drawn \in {[i \in DOMAIN lines |-> i], Reverse([i \in DOMAIN lines |-> i])}
  /\ outcome = "none" /\ rows = {}

AtLeast0(a) == IF a < 0 THEN 0 ELSE a

\* For each warehouse, for each line.
Visits == [k \in 1..(Depots * Len(lines)) |->
  [depot |-> ((k - 1) \div Len(lines)) + 1, line |-> ((k - 1) % Len(lines)) + 1]]

\* Mutant: every line reads the snapshot afresh.
FreshEachTime(used, v, w) == AtLeast0(avail[v][w])

\* What earlier lines left of the snapshot, clamped before it is used.
FreeOf(used, v, w) == AtLeast0(avail[v][w] - used[v][w])

Take(plan, v, w, left) == IF v \in PastZero THEN left ELSE Min({left, FreeOf(plan.used, v, w)})

Visit(plan, at) ==
  LET v == lines[at.line].variant
      take == Take(plan, v, at.depot, plan.left[at.line])
  IN IF take <= 0 THEN plan
     ELSE [left |-> [plan.left EXCEPT ![at.line] = @ - take],
           used |-> IF v \in PastZero THEN plan.used
                    ELSE [plan.used EXCEPT ![v][at.depot] = @ + take],
           made |-> Append(plan.made, [depot |-> at.depot, variant |-> v, quantity |-> take])]

Owed == [i \in DOMAIN lines |-> lines[i].quantity]

StockPlan == FoldLeft(Visit, [left |-> Owed, made |-> <<>>,
                         used |-> [v \in Skus |-> [w \in 1..Depots |-> 0]]], Visits)

-----------------------------------------------------------------------------
(* recordAllocations.                                                      *)

\* Mutant: the items are paired with the lines by position.
ItemAt(i) == drawn[i]

\* Lines and items are paired by (variant, quantity), first come first served.
Rank(i, order) == Cardinality({j \in DOMAIN lines :
  /\ lines[j] = lines[i]
  /\ \E m, n \in DOMAIN order : order[m] = j /\ order[n] = i /\ m <= n})
InLineOrder == [i \in DOMAIN lines |-> i]
ItemOf(i) == CHOOSE j \in DOMAIN lines :
  lines[j] = lines[i] /\ Rank(j, drawn) = Rank(i, InLineOrder)

\* Mutant: one queue for the whole plan.
KeepsQueue(rec, a) == rec.queue

\* A new warehouse starts over with the lines that are still owed something.
QueueFor(rec, a) ==
  IF a.depot = rec.depot THEN rec.queue
  ELSE {i \in DOMAIN lines : rec.left[i] > 0}

Attribute(rec, a) ==
  LET queue == QueueFor(rec, a)
      open == {i \in queue : lines[i].variant = a.variant}
  IN IF open = {} THEN [rec EXCEPT !.lost = TRUE, !.depot = a.depot, !.queue = queue]
     ELSE LET i == Min(open) IN
          [rec EXCEPT !.depot = a.depot, !.queue = queue \ {i}, !.left[i] = @ - a.quantity,
                      !.rows = @ \union {[item |-> ItemOf(i), depot |-> a.depot,
                                          quantity |-> a.quantity]}]

Recorded == FoldLeft(Attribute, [depot |-> 0, queue |-> {}, left |-> Owed,
                                 rows |-> {}, lost |-> FALSE], StockPlan.made)

-----------------------------------------------------------------------------
\* CannotFillError, or one row for each assignment, in the order's transaction.
CannotFill ==
  /\ outcome = "none"
  /\ \E i \in DOMAIN lines : StockPlan.left[i] > 0
  /\ outcome' = "cannotFill"
  /\ UNCHANGED <<lines, avail, drawn, rows>>

RecordAllocations ==
  /\ outcome = "none"
  /\ \A i \in DOMAIN lines : StockPlan.left[i] = 0
  /\ IF Recorded.lost THEN outcome' = "unattributable" /\ UNCHANGED rows
     ELSE outcome' = "recorded" /\ rows' = Recorded.rows
  /\ UNCHANGED <<lines, avail, drawn>>

-----------------------------------------------------------------------------
\* What a shopper, and a merchant, would say the plan is.
Demand(v) == MapThenSumSet(LAMBDA i : Owed[i], {i \in DOMAIN lines : lines[i].variant = v})
Supply(v, depots) == MapThenSumSet(LAMBDA w : AtLeast0(avail[v][w]), depots)
Share(v, w) == Min({AtLeast0(Demand(v) - Supply(v, 1..(w - 1))), AtLeast0(avail[v][w])})

Given(some) == MapThenSumSet(LAMBDA r : r.quantity, some)
RowsOf(i) == {r \in rows : r.item = i}
RowsAt(v, w) == {r \in rows : r.depot = w /\ lines[r.item].variant = v}

\* A cart is refused exactly when some variant is short over all warehouses
\* together, and every assignment finds its line.
RefusedOnlyIfShort ==
  /\ outcome # "unattributable"
  /\ outcome # "none" =>
       (outcome = "cannotFill"
          <=> \E v \in Skus \ PastZero : Demand(v) > Supply(v, 1..Depots))

\* Each item is allocated its whole quantity, from one row per warehouse, however
\* lines that share a variant interleave (order_allocations' UNIQUE).
ItemsInFull ==
  outcome = "recorded" =>
    \A i \in DOMAIN lines :
      /\ Given(RowsOf(i)) = lines[i].quantity
      /\ \A r, q \in RowsOf(i) : r.depot = q.depot => r = q

\* Each warehouse gives what it has of what the ones before it left wanting, and
\* a variant sold past zero ships from the first one (Plan: "fills from the
\* merchant's first warehouse down"); StockHold's Planned is this sum.
FilledInOrder ==
  outcome = "recorded" =>
    \A v \in Skus, w \in 1..Depots : Given(RowsAt(v, w)) =
      IF v \in PastZero THEN (IF w = 1 THEN Demand(v) ELSE 0) ELSE Share(v, w)

AllocationSafe == RefusedOnlyIfShort /\ ItemsInFull /\ FilledInOrder
=============================================================================
