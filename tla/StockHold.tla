------------------------------ MODULE StockHold ------------------------------
(***************************************************************************)
(* Stock reservations (internal/stockhold) and the two request handlers    *)
(* that place them: the cart's Place (handlers/storefront/cart_holds.go)   *)
(* and checkout's commitStock (handlers/storefront/checkout_stock.go).     *)
(*                                                                         *)
(* A session is one database transaction.  It sees the committed tables    *)
(* overlaid with its own writes (READ COMMITTED), keeps a row lock until   *)
(* it ends, and waits for a row another session has locked.  Statements of *)
(* different sessions interleave; one statement is one step.               *)
(***************************************************************************)
EXTENDS Integers, Sequences, FiniteSets, Functions

CONSTANTS
  Carts,             \* cart tokens
  Sessions,          \* database connections serving requests
  None,              \* no cart
  Variants,          \* product variants of the store
  Warehouses,        \* the store's live warehouses
  FillRank,          \* position of a warehouse in fill order
  DefaultWarehouse,  \* where cart-time holds are placed
  StockRows,         \* the (variant, location) pairs variant_stock has
  LockRank,          \* position of a stock row in (variant, location) order
  PastZero,          \* variants with inventory_policy 'continue'
  CartRequests,      \* bodies a Place request may carry: sequences of items
  OrderRequests,     \* bodies a checkout may carry: sequences of lines
  InitialQuantity,   \* variant_stock.quantity at the start
  HoldTTL,           \* HoldTTL, in ticks
  SweepGrace,        \* sweepGrace, in ticks
  MaxTime,           \* bound on the clock
  MaxRecount,        \* bound on a merchant's new count
  MaxRecounts,       \* bound on how many times the merchant recounts
  SharedCart         \* may one cart be in two requests at once?

Item == [variant : Variants, qty : Nat \ {0}]

ASSUME ConstantsAssumption ==
  /\ None \notin Carts
  /\ DefaultWarehouse \in Warehouses
  /\ FillRank \in [Warehouses -> Nat]
  /\ LockRank \in [StockRows -> Nat]
  /\ \A r, q \in StockRows : LockRank[r] = LockRank[q] => r = q
  /\ StockRows \subseteq Variants \X Warehouses
  /\ PastZero \subseteq Variants
  /\ CartRequests \subseteq Seq(Item)
  /\ OrderRequests \subseteq Seq(Item)
  /\ InitialQuantity \in [StockRows -> Nat]
  /\ HoldTTL \in Nat /\ SweepGrace \in Nat
  /\ MaxTime \in Nat /\ MaxRecount \in Nat /\ MaxRecounts \in Nat
  /\ SharedCart \in BOOLEAN

VARIABLES
  quantity,   \* variant_stock.quantity, committed
  holds,      \* stock_holds, committed: one row per cart and stock row
  ordered,    \* units of committed orders allocated to a row that gates sales
  stocked,    \* history: the initial count and the merchant's corrections
  recounts,   \* how many corrections there were
  now,        \* the clock
  step,       \* where a session's transaction is
  cart,       \* the cart a session works for
  todo,       \* rows a session has still to visit, with their order
  totals,     \* a checkout's plan: units to take from each row
  begun,      \* now() of the transaction: its start
  locked,     \* stock rows a session has locked
  taken,      \* decrements a session made and has not committed
  written     \* stock_holds rows a session wrote and has not committed

tables == <<quantity, holds, ordered, stocked, recounts, now>>
txState == <<cart, todo, totals, begun, locked, taken, written>>
vars == <<quantity, holds, ordered, stocked, recounts, now, step, cart, todo,
          totals, begun, locked, taken, written>>

-----------------------------------------------------------------------------
(* Holds and availability *)

NoHold == [state |-> "none", qty |-> 0, expires |-> 0]
Unwritten == [state |-> "unwritten", qty |-> 0, expires |-> 0]
HoldRow == [state : {"none", "held", "committed", "released"},
            qty : Nat, expires : Nat]

Zeros == [r \in StockRows |-> 0]
NoWrites == [r \in StockRows |-> Unwritten]

\* state = 'held' AND expires_at > now().
Live(h, t) == h.state = "held" /\ h.expires > t

LiveUnits(c, r, t) == IF Live(holds[c][r], t) THEN holds[c][r].qty ELSE 0

\* Units of the row under live holds of carts in C.
HeldBy(C, r, t) == SumFunctionOnSet([c \in C |-> LiveUnits(c, r, t)], C)

\* The snapshot read of loadAvailability: live holds of OTHER carts subtracted,
\* floored at zero.
Free(c, r, t) ==
  LET left == quantity[r] - HeldBy(Carts \ {c}, r, t) IN IF left < 0 THEN 0 ELSE left

\* Mutant: the re-check forgets the others' holds.
SufficientCount(s, r, qty) == quantity[r] - taken[s][r] >= qty

\* The re-check of Hold, inside the row lock.
Sufficient(s, r, qty) ==
  quantity[r] - taken[s][r] - HeldBy(Carts \ {cart[s]}, r, begun[s]) >= qty

-----------------------------------------------------------------------------
(* Row locks *)

\* Mutant: Hold and Commit without FOR UPDATE.
RowUnlocked(s, r) == TRUE

RowFree(s, r) == \A o \in Sessions \ {s} : r \notin locked[o]

\* A stock_holds row another transaction wrote and has not committed.
HoldRowFree(s, c, r) ==
  \A o \in Sessions \ {s} : cart[o] = c => written[o][r] = Unwritten

\* The hold of the session's own cart, its own write first.
Visible(s, r) == IF written[s][r] # Unwritten THEN written[s][r] ELSE holds[cart[s]][r]

\* Mutant: Commit runs outside the transaction and misses its holds.
CommittedHeld(s) == {r \in StockRows : holds[cart[s]][r].state = "held"}

VisiblyHeld(s) == {r \in StockRows : Visible(s, r).state = "held"}

\* product_variants rows locked FOR UPDATE by the sync_variant_inventory trigger
\* of a decrement the session has made.
UpdatedVariants(s) ==
  {r[1] : r \in {q \in locked[s] : \/ step[s] = "flip"
                                   \/ step[s] \in {"pastZero", "hold"} /\ q[1] \in PastZero}}

\* product_variants rows locked FOR KEY SHARE by the foreign key of a
\* stock_holds row the session has inserted (an upsert of an old row takes none).
InsertedVariants(s) ==
  {r[1] : r \in {q \in StockRows : written[s][q].state = "held" /\ holds[cart[s]][q] = NoHold}}

VariantFree(s, v) == \A o \in Sessions \ {s} : v \notin UpdatedVariants(o)

VariantUnshared(s, v) == \A o \in Sessions \ {s} : v \notin UpdatedVariants(o) \union InsertedVariants(o)

Inserts(s, r) == Visible(s, r) = NoHold

\* The entry of todo the session is at.
IsNext(s, e) == e \in todo[s] /\ \A f \in todo[s] : e.at <= f.at

Idle(s) == step[s] = "idle"

\* Unless SharedCart, a shopper has one request in flight.
MayStart(s, c) ==
  /\ Idle(s)
  /\ SharedCart \/ \A o \in Sessions : cart[o] # c

EndTx(s) ==
  /\ step' = [step EXCEPT ![s] = "idle"]
  /\ cart' = [cart EXCEPT ![s] = None]
  /\ todo' = [todo EXCEPT ![s] = {}]
  /\ totals' = [totals EXCEPT ![s] = Zeros]
  /\ begun' = [begun EXCEPT ![s] = 0]
  /\ locked' = [locked EXCEPT ![s] = {}]
  /\ taken' = [taken EXCEPT ![s] = Zeros]
  /\ written' = [written EXCEPT ![s] = NoWrites]

\* holds with everything session s wrote.
HoldsWith(s, w) ==
  [holds EXCEPT ![cart[s]] =
     [r \in StockRows |-> IF w[r] # Unwritten THEN w[r] ELSE @[r]]]

-----------------------------------------------------------------------------
(* Hold: one call of Repository.Hold, from either handler *)

NewHold(qty) == [state |-> "held", qty |-> qty, expires |-> now + HoldTTL]

\* SELECT ... FOR UPDATE, the sum of the others' live holds and the upsert.
\* The three are one step: only a session with the row lock can add a hold, and
\* the locks of one call are taken together.
HoldGranted(s, e) ==
  /\ e.row \in StockRows
  /\ RowFree(s, e.row)
  /\ Sufficient(s, e.row, e.qty)
  /\ HoldRowFree(s, cart[s], e.row)
  /\ Inserts(s, e.row) => VariantFree(s, e.row[1])
  /\ locked' = [locked EXCEPT ![s] = @ \union {e.row}]
  /\ written' = [written EXCEPT ![s][e.row] = NewHold(e.qty)]
  /\ todo' = [todo EXCEPT ![s] = @ \ {e}]
  /\ UNCHANGED <<tables, step, cart, totals, begun, taken>>

-----------------------------------------------------------------------------
(* Place: holds for a cart's items, one transaction, in REQUEST order *)

PlaceBegin(s, c, items) ==
  /\ MayStart(s, c)
  /\ step' = [step EXCEPT ![s] = "place"]
  /\ cart' = [cart EXCEPT ![s] = c]
  /\ todo' = [todo EXCEPT ![s] =
       {[row |-> <<items[i].variant, DefaultWarehouse>>,
         qty |-> items[i].qty, at |-> i] : i \in DOMAIN items}]
  /\ begun' = [begun EXCEPT ![s] = now]
  /\ UNCHANGED <<tables, totals, locked, taken, written>>

PlaceHold(s) ==
  /\ step[s] = "place"
  /\ \E e \in todo[s] : IsNext(s, e) /\ HoldGranted(s, e)

\* The item is reported "insufficient" and the loop goes on; the row lock
\* stays until the transaction ends.  A variant with no stock row locks nothing.
PlaceInsufficient(s) ==
  /\ step[s] = "place"
  /\ \E e \in todo[s] :
       /\ IsNext(s, e)
       /\ \/ /\ e.row \notin StockRows
             /\ UNCHANGED locked
          \/ /\ e.row \in StockRows
             /\ RowFree(s, e.row)
             /\ ~Sufficient(s, e.row, e.qty)
             /\ locked' = [locked EXCEPT ![s] = @ \union {e.row}]
       /\ todo' = [todo EXCEPT ![s] = @ \ {e}]
  /\ UNCHANGED <<tables, step, cart, totals, begun, taken, written>>

PlaceCommit(s) ==
  /\ step[s] = "place"
  /\ todo[s] = {}
  /\ holds' = HoldsWith(s, written[s])
  /\ EndTx(s)
  /\ UNCHANGED <<quantity, ordered, stocked, recounts, now>>

-----------------------------------------------------------------------------
(* Checkout: commitStock inside the transaction that inserts the order *)

QuantityWanted(lines, v) ==
  SumFunctionOnSet([i \in DOMAIN lines |-> lines[i].qty],
                   {i \in DOMAIN lines : lines[i].variant = v})

FreeAt(c, v, w) == IF <<v, w>> \in StockRows THEN Free(c, <<v, w>>, now) ELSE 0

FreeIn(c, v, W) == SumFunctionOnSet([w \in W |-> FreeAt(c, v, w)], W)

\* allocation.Plan summed over the lines of a variant: each warehouse, in fill
\* order, gives what it has of what the earlier ones left wanting.
Planned(c, lines) ==
  [r \in StockRows |->
     IF r[1] \in PastZero THEN 0
     ELSE LET earlier == {w \in Warehouses : FillRank[w] < FillRank[r[2]]}
              short == QuantityWanted(lines, r[1]) - FreeIn(c, r[1], earlier)
              free == Free(c, r, now)
          IN IF short <= 0 THEN 0 ELSE IF short < free THEN short ELSE free]

\* Plan returns no CannotFillError.
CanFill(c, lines) ==
  \A v \in Variants \ PastZero : QuantityWanted(lines, v) <= FreeIn(c, v, Warehouses)

FirstWarehouse == CHOOSE w \in Warehouses : \A x \in Warehouses : FillRank[w] <= FillRank[x]

\* Lines sold past zero, whole from the first warehouse, in LINE order.
PastZeroLines(lines) ==
  {[row |-> <<lines[i].variant, FirstWarehouse>>, qty |-> lines[i].qty, at |-> i] :
     i \in {j \in DOMAIN lines : /\ lines[j].variant \in PastZero
                                 /\ <<lines[j].variant, FirstWarehouse>> \in StockRows}}

\* BEGIN and the unlocked availability snapshot the plan is made from.  A cart
\* the snapshot cannot fill is refused, and nothing changes.
CheckoutBegin(s, c, lines) ==
  /\ MayStart(s, c)
  /\ CanFill(c, lines)
  /\ Planned(c, lines) \in [StockRows -> Nat]   \* always so: a type, not a guard
  /\ step' = [step EXCEPT ![s] = "pastZero"]
  /\ cart' = [cart EXCEPT ![s] = c]
  /\ totals' = [totals EXCEPT ![s] = Planned(c, lines)]
  /\ todo' = [todo EXCEPT ![s] = PastZeroLines(lines)]
  /\ begun' = [begun EXCEPT ![s] = now]
  /\ UNCHANGED <<tables, locked, taken, written>>

\* Mutant: the decrement is not clamped at zero.
PastZeroWhole(s, e) == e.qty

\* UPDATE ... SET quantity = GREATEST(quantity - ?, 0).
PastZeroTake(s, e) ==
  LET left == quantity[e.row] - taken[s][e.row]
  IN IF e.qty < left THEN e.qty ELSE left

CheckoutPastZero(s) ==
  /\ step[s] = "pastZero"
  /\ \E e \in todo[s] :
       /\ IsNext(s, e)
       /\ RowFree(s, e.row)
       /\ VariantUnshared(s, e.row[1])
       /\ locked' = [locked EXCEPT ![s] = @ \union {e.row}]
       /\ taken' = [taken EXCEPT ![s][e.row] = @ + PastZeroTake(s, e)]
       /\ todo' = [todo EXCEPT ![s] = @ \ {e}]
  /\ UNCHANGED <<tables, step, cart, totals, begun, written>>

\* Mutant: the rows of the plan in whatever order the map gives them.
PlanRowsUnsorted(s) ==
  {[row |-> r, qty |-> totals[s][r], at |-> 0] : r \in {q \in StockRows : totals[s][q] > 0}}

\* The rows of the plan, to be held in lock order.
PlanRows(s) ==
  {[row |-> r, qty |-> totals[s][r], at |-> LockRank[r]] :
     r \in {q \in StockRows : totals[s][q] > 0}}

\* Mutant: cart-time holds are left where they were placed.
StaleKept(s) == {}

\* Held rows of the cart the plan does not use.
Stale(s) == {r \in StockRows : holds[cart[s]][r].state = "held" /\ totals[s][r] = 0}

\* ReleaseExcept: before the plan's holds, and before Commit decrements every
\* hold the cart has.
CheckoutReleaseExcept(s) ==
  /\ step[s] = "pastZero"
  /\ todo[s] = {}
  /\ \A r \in Stale(s) : HoldRowFree(s, cart[s], r)
  /\ written' = [written EXCEPT ![s] =
       [r \in StockRows |->
          IF r \in Stale(s) THEN [holds[cart[s]][r] EXCEPT !.state = "released"]
          ELSE @[r]]]
  /\ step' = [step EXCEPT ![s] = "hold"]
  /\ todo' = [todo EXCEPT ![s] = PlanRows(s)]
  /\ UNCHANGED <<tables, cart, totals, begun, locked, taken>>

CheckoutHold(s) ==
  /\ step[s] = "hold"
  /\ \E e \in todo[s] : IsNext(s, e) /\ HoldGranted(s, e)

\* ErrInsufficientStock on the re-check: the order is rolled back.
CheckoutRefused(s) ==
  /\ step[s] = "hold"
  /\ \E e \in todo[s] : IsNext(s, e) /\ RowFree(s, e.row) /\ ~Sufficient(s, e.row, e.qty)
  /\ EndTx(s)
  /\ UNCHANGED tables

DecrementReady(s) ==
  /\ step[s] = "hold"
  /\ todo[s] = {}
  /\ \A r \in VisiblyHeld(s) : RowFree(s, r) /\ VariantUnshared(s, r[1])

\* CHECK (quantity >= 0).
NonNegative(s) == \A r \in VisiblyHeld(s) : taken[s][r] + Visible(s, r).qty <= quantity[r]

\* Commit, first statement: decrement every row the cart visibly holds.
CheckoutDecrement(s) ==
  /\ DecrementReady(s)
  /\ NonNegative(s)
  /\ locked' = [locked EXCEPT ![s] = @ \union VisiblyHeld(s)]
  /\ taken' = [taken EXCEPT ![s] =
       [r \in StockRows |-> IF r \in VisiblyHeld(s) THEN @[r] + Visible(s, r).qty ELSE @[r]]]
  /\ step' = [step EXCEPT ![s] = "flip"]
  /\ UNCHANGED <<tables, cart, todo, totals, begun, written>>

\* Commit, second statement, which sees holds committed since the first one;
\* then the order's transaction commits.
Flipped(s) ==
  [r \in StockRows |->
     IF r \in VisiblyHeld(s) THEN [Visible(s, r) EXCEPT !.state = "committed"]
     ELSE written[s][r]]

CheckoutCommit(s) ==
  /\ step[s] = "flip"
  /\ \A r \in VisiblyHeld(s) : HoldRowFree(s, cart[s], r)
  /\ holds' = HoldsWith(s, Flipped(s))
  /\ quantity' = [r \in StockRows |-> quantity[r] - taken[s][r]]
  /\ ordered' = [r \in StockRows |-> ordered[r] + totals[s][r]]
  /\ EndTx(s)
  /\ UNCHANGED <<stocked, recounts, now>>

-----------------------------------------------------------------------------
(* A transaction may end without committing at any statement: the quantity   *)
(* CHECK, a coupon or gift-card step of the same transaction, a lost         *)
(* connection, or Postgres choosing it as the victim of a lock cycle.        *)
Rollback(s) ==
  /\ ~Idle(s)
  /\ EndTx(s)
  /\ UNCHANGED tables

-----------------------------------------------------------------------------
(* Single-statement operations *)

\* DELETE of a cart's holds (CartHoldsHandler.Release).
Release(c) ==
  /\ SharedCart \/ \A o \in Sessions : cart[o] # c
  /\ \E r \in StockRows : holds[c][r].state = "held"
  /\ \A r \in StockRows : holds[c][r].state = "held" =>
       \A o \in Sessions : cart[o] = c => written[o][r] = Unwritten
  /\ holds' = [holds EXCEPT ![c] =
       [r \in StockRows |->
          IF @[r].state = "held" THEN [@[r] EXCEPT !.state = "released"] ELSE @[r]]]
  /\ UNCHANGED <<quantity, ordered, stocked, recounts, now, step, txState>>

\* Extend: only a hold that has not expired.
Extendable(c, r) == Live(holds[c][r], now)

Extend(c) ==
  /\ SharedCart \/ \A o \in Sessions : cart[o] # c
  /\ \E r \in StockRows : Extendable(c, r)
  /\ \A r \in StockRows : Extendable(c, r) =>
       \A o \in Sessions : cart[o] = c => written[o][r] = Unwritten
  /\ holds' = [holds EXCEPT ![c] =
       [r \in StockRows |->
          IF Extendable(c, r) THEN [@[r] EXCEPT !.expires = now + HoldTTL] ELSE @[r]]]
  /\ UNCHANGED <<quantity, ordered, stocked, recounts, now, step, txState>>

\* Mutant: the sweeper deletes holds that are about to expire.
SweptEarly(c, r) ==
  /\ holds[c][r].state = "held"
  /\ holds[c][r].expires <= now + SweepGrace
  /\ \A o \in Sessions : cart[o] = c => written[o][r] = Unwritten

\* Sweep: rows still 'held' that expired more than the grace ago, skipping the
\* ones a transaction has locked.  The batch is larger than the instance.
Swept(c, r) ==
  /\ holds[c][r].state = "held"
  /\ holds[c][r].expires + SweepGrace < now
  /\ \A o \in Sessions : cart[o] = c => written[o][r] = Unwritten

Sweep ==
  /\ \E c \in Carts : \E r \in StockRows : Swept(c, r)
  /\ holds' = [c \in Carts |-> [r \in StockRows |->
                 IF Swept(c, r) THEN NoHold ELSE holds[c][r]]]
  /\ UNCHANGED <<quantity, ordered, stocked, recounts, now, step, txState>>

\* UpdateVariantStockInTx: the admin's save overwrites the count, whatever was
\* sold or held meanwhile.
Recount(r, n) ==
  /\ recounts < MaxRecounts
  /\ n # quantity[r]
  /\ \A o \in Sessions :
       r \notin locked[o] /\ r[1] \notin UpdatedVariants(o) \union InsertedVariants(o)
  /\ quantity' = [quantity EXCEPT ![r] = n]
  /\ stocked' = [stocked EXCEPT ![r] = @ + (n - quantity[r])]
  /\ recounts' = recounts + 1
  /\ UNCHANGED <<holds, ordered, now, step, txState>>

Tick ==
  /\ now < MaxTime
  /\ now' = now + 1
  /\ UNCHANGED <<quantity, holds, ordered, stocked, recounts, step, txState>>

-----------------------------------------------------------------------------

Init ==
  /\ quantity = InitialQuantity
  /\ holds = [c \in Carts |-> [r \in StockRows |-> NoHold]]
  /\ ordered = Zeros
  /\ stocked = InitialQuantity
  /\ recounts = 0
  /\ now = 0
  /\ step = [s \in Sessions |-> "idle"]
  /\ cart = [s \in Sessions |-> None]
  /\ todo = [s \in Sessions |-> {}]
  /\ totals = [s \in Sessions |-> Zeros]
  /\ begun = [s \in Sessions |-> 0]
  /\ locked = [s \in Sessions |-> {}]
  /\ taken = [s \in Sessions |-> Zeros]
  /\ written = [s \in Sessions |-> NoWrites]

Place(s) ==
  \/ \E c \in Carts : \E items \in CartRequests : PlaceBegin(s, c, items)
  \/ PlaceHold(s)
  \/ PlaceInsufficient(s)
  \/ PlaceCommit(s)

Checkout(s) ==
  \/ \E c \in Carts : \E lines \in OrderRequests : CheckoutBegin(s, c, lines)
  \/ CheckoutPastZero(s)
  \/ CheckoutReleaseExcept(s)
  \/ CheckoutHold(s)
  \/ CheckoutRefused(s)
  \/ CheckoutDecrement(s)
  \/ CheckoutCommit(s)

Next ==
  \/ \E s \in Sessions : Place(s)
  \/ \E s \in Sessions : Checkout(s)
  \/ \E s \in Sessions : Rollback(s)
  \/ \E c \in Carts : Release(c)
  \/ \E c \in Carts : Extend(c)
  \/ Sweep
  \/ \E r \in StockRows : \E n \in 0 .. MaxRecount : Recount(r, n)
  \/ Tick

Spec == Init /\ [][Next]_vars

\* A connection runs its next statement, and Postgres grants a row lock in turn
\* to those who wait for it, so a statement that can run again and again runs.
Statement(s) ==
  \/ PlaceHold(s) \/ PlaceInsufficient(s) \/ PlaceCommit(s)
  \/ CheckoutPastZero(s) \/ CheckoutReleaseExcept(s) \/ CheckoutHold(s)
  \/ CheckoutRefused(s) \/ CheckoutDecrement(s) \/ CheckoutCommit(s)

Fairness == \A s \in Sessions : SF_vars(Statement(s))

FairSpec == Spec /\ Fairness

-----------------------------------------------------------------------------
(* Properties *)

Entry == [row : Variants \X Warehouses, qty : Nat, at : Nat]

\* Every variable has its type; no count goes below zero, which a decrement of
\* more than the row has would do.
TypeOK ==
  /\ quantity \in [StockRows -> Nat]
  /\ holds \in [Carts -> [StockRows -> HoldRow]]
  /\ ordered \in [StockRows -> Nat]
  /\ stocked \in [StockRows -> Int]
  /\ recounts \in Nat
  /\ now \in Nat
  /\ step \in [Sessions -> {"idle", "place", "pastZero", "hold", "flip"}]
  /\ cart \in [Sessions -> Carts \union {None}]
  /\ todo \in [Sessions -> SUBSET Entry]
  /\ totals \in [Sessions -> [StockRows -> Nat]]
  /\ begun \in [Sessions -> Nat]
  /\ locked \in [Sessions -> SUBSET StockRows]
  /\ taken \in [Sessions -> [StockRows -> Nat]]
  /\ written \in [Sessions -> [StockRows -> HoldRow \union {Unwritten}]]

\* Every decrement is made under the row's lock, by the one transaction that
\* has it, and never takes more than the row has (Hold's FOR UPDATE).
LockedDecrements ==
  \A s \in Sessions : \A r \in StockRows :
    taken[s][r] > 0 => /\ r \in locked[s]
                       /\ \A o \in Sessions \ {s} : r \notin locked[o]
                       /\ taken[s][r] <= quantity[r]

Gated == {r \in StockRows : r[1] \notin PastZero}

\* Every unit of a gated row is on the shelf or on exactly one committed order:
\* Commit decrements what the order allocates, no hold twice and none unsold.
StockConserved == \A r \in Gated : quantity[r] + ordered[r] = stocked[r]

\* Orders never take units the shelf does not give (issue 230, the oversell).
NeverOversold == \A r \in Gated : quantity[r] + ordered[r] <= stocked[r]

\* The units carts are promised are there: live holds never add up to more than
\* the count of their row (while no merchant lowers it).
LiveHoldsCovered == \A r \in Gated : HeldBy(Carts, r, now) <= quantity[r]

\* A live hold goes away only with its own cart's request or with the clock:
\* neither the sweeper nor anybody else's cart or order takes it.
LiveHoldsKept ==
  [][\A c \in Carts, r \in StockRows :
       Live(holds[c][r], now) /\ ~Live(holds'[c][r], now)
         => \/ \E s \in Sessions : cart[s] = c /\ ~Idle(s) /\ step'[s] = "idle"
            \/ Release(c)]_vars

\* Session s cannot take its next statement until t ends.
WaitsFor(s, t) ==
  LET Blocked(r) == r \in locked[t]
      HoldBlocked(r) == cart[t] = cart[s] /\ written[t][r] # Unwritten
      UpdateBlocked(r) == r[1] \in UpdatedVariants(t) \union InsertedVariants(t)
  IN \/ /\ step[s] \in {"place", "hold"}
        /\ \E e \in todo[s] :
             /\ IsNext(s, e) /\ e.row \in StockRows
             /\ \/ Blocked(e.row)
                \/ /\ Sufficient(s, e.row, e.qty)
                   /\ \/ HoldBlocked(e.row)
                      \/ Inserts(s, e.row) /\ e.row[1] \in UpdatedVariants(t)
     \/ /\ step[s] = "pastZero"
        /\ \E e \in todo[s] : IsNext(s, e) /\ (Blocked(e.row) \/ UpdateBlocked(e.row))
     \/ /\ step[s] = "pastZero" /\ todo[s] = {}
        /\ \E r \in Stale(s) : HoldBlocked(r)
     \/ /\ step[s] = "hold" /\ todo[s] = {}
        /\ \E r \in VisiblyHeld(s) : Blocked(r) \/ UpdateBlocked(r)
     \/ /\ step[s] = "flip"
        /\ \E r \in VisiblyHeld(s) : HoldBlocked(r)

\* No set of transactions waits for one another: "a fixed order rules it out"
\* (the sort of commitStock's keys before it locks them).
NoLockCycle ==
  \A D \in (SUBSET Sessions) \ {{}} :
    \E s \in D : \A t \in D \ {s} : ~WaitsFor(s, t)

\* Checkout s waits for a stock row its plan takes next and t has locked.
WaitsForPlanned(s, t) ==
  /\ step[s] = "hold"
  /\ \E e \in todo[s] : IsNext(s, e) /\ e.row \in locked[t]

\* Of checkouts that take the rows of their plans, one at least waits for no row of
\* another: the sort rules out the circle commitStock's comment names
\* (checkout_stock.go:226-239), with any layout of the store and any requests.
NoRowCycle ==
  \A D \in (SUBSET {s \in Sessions : step[s] = "hold"}) \ {{}} :
    \E s \in D : \A t \in D \ {s} : ~WaitsForPlanned(s, t)

\* The tables implement the abstract shelf, whatever the transactions do.
OnGated(f) == [r \in Gated |-> f[r]]

Shelf == INSTANCE Inventory WITH
           Rows <- Gated, onHand <- OnGated(quantity), sold <- OnGated(ordered),
           counted <- OnGated(stocked)

ShelfSpec == Shelf!Spec
=============================================================================
