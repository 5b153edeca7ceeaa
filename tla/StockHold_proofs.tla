-------------------------- MODULE StockHold_proofs --------------------------
(***************************************************************************)
(* Proofs about StockHold: its types, that every decrement is made under   *)
(* its row's lock, that no unit is lost, sold twice or promised twice when *)
(* a cart is in one request at a time, and that, even when requests share  *)
(* a cart, no more is sold than was in stock of a variant that does not    *)
(* sell past zero; and when the order of the locks keeps transactions from *)
(* waiting for one another.                                                *)
(***************************************************************************)
EXTENDS StockHold, Sums

-----------------------------------------------------------------------------
(* The inductive invariants *)

\* A row is locked by one transaction at most.
LocksExclusive ==
  \A s, o \in Sessions : s # o => locked[s] \cap locked[o] = {}

\* A decrement not yet committed is of a locked row and fits its count.
TakenUnderLock ==
  \A s \in Sessions : \A r \in StockRows :
    /\ taken[s][r] > 0 => r \in locked[s]
    /\ taken[s][r] <= quantity[r]

\* What a transaction has still to visit while it sells past zero.
PastZeroTodo ==
  \A s \in Sessions : step[s] = "pastZero" =>
    \A e \in todo[s] : e.row \in StockRows /\ e.row[1] \in PastZero

\* Who is in a transaction works for a cart.
BusyWithCart == \A s \in Sessions : ~Idle(s) => cart[s] \in Carts

LockInv == TypeOK /\ LocksExclusive /\ TakenUnderLock /\ PastZeroTodo /\ BusyWithCart

LEMMA RowsArePairs == ASSUME NEW r \in StockRows PROVE r \in Variants \X Warehouses
BY ConstantsAssumption DEF ConstantsAssumption

LEMMA RequestItems ==
  ASSUME NEW items \in CartRequests \union OrderRequests, NEW i \in DOMAIN items
  PROVE  i \in Nat /\ items[i].variant \in Variants /\ items[i].qty \in Nat
<1>1. items \in Seq(Item)
  BY ConstantsAssumption DEF ConstantsAssumption
<1>2. DOMAIN items = 1 .. Len(items) /\ Len(items) \in Nat
  BY <1>1
<1>3. items[i] \in Item
  BY <1>1, <1>2
<1>4. i \in Nat
  BY <1>2
<1> QED BY <1>3, <1>4 DEF Item

LEMMA HoldRowTypes ==
  /\ NoHold \in HoldRow
  /\ Unwritten \notin HoldRow
  /\ Zeros \in [StockRows -> Nat]
  /\ NoWrites \in [StockRows -> HoldRow \union {Unwritten}]
BY DEF NoHold, Unwritten, HoldRow, Zeros, NoWrites

LEMMA ReleasedRow ==
  ASSUME NEW h \in HoldRow
  PROVE  [h EXCEPT !.state = "released"] \in HoldRow
BY DEF HoldRow

\* The tables a transaction's end leaves to its session.
LEMMA EndTxTypes ==
  ASSUME TypeOK, NEW s \in Sessions, EndTx(s)
  PROVE  /\ step' \in [Sessions -> {"idle", "place", "pastZero", "hold", "flip"}]
         /\ cart' \in [Sessions -> Carts \union {None}]
         /\ todo' \in [Sessions -> SUBSET Entry]
         /\ totals' \in [Sessions -> [StockRows -> Nat]]
         /\ begun' \in [Sessions -> Nat]
         /\ locked' \in [Sessions -> SUBSET StockRows]
         /\ taken' \in [Sessions -> [StockRows -> Nat]]
         /\ written' \in [Sessions -> [StockRows -> HoldRow \union {Unwritten}]]
BY HoldRowTypes DEF TypeOK, EndTx

\* ... and leaves every session's part of the invariant as it was, or empty.
LEMMA EndTxLocks ==
  ASSUME TypeOK, LocksExclusive, PastZeroTodo, BusyWithCart, NEW s \in Sessions, EndTx(s)
  PROVE  /\ LocksExclusive'
         /\ PastZeroTodo'
         /\ BusyWithCart'
         /\ \A o \in Sessions \ {s} : taken'[o] = taken[o] /\ locked'[o] = locked[o]
         /\ taken'[s] = Zeros
BY DEF TypeOK, EndTx, LocksExclusive, PastZeroTodo, BusyWithCart, Idle

\* Transactions that end without a decrement keep the lock invariant.
LEMMA EndTxKeepsLockInv ==
  ASSUME LockInv, NEW s \in Sessions, EndTx(s), UNCHANGED <<quantity, ordered, stocked, recounts, now>>,
         holds' \in [Carts -> [StockRows -> HoldRow]]
  PROVE  LockInv'
<1>1. TypeOK'
  BY EndTxTypes DEF LockInv, TypeOK
<1>2. LocksExclusive' /\ PastZeroTodo' /\ BusyWithCart'
  BY EndTxLocks DEF LockInv
<1>3. TakenUnderLock'
  <2>1. /\ \A o \in Sessions \ {s} : taken'[o] = taken[o] /\ locked'[o] = locked[o]
        /\ taken'[s] = Zeros
    BY EndTxLocks DEF LockInv
  <2>2. quantity \in [StockRows -> Nat] /\ quantity' = quantity
    BY DEF LockInv, TypeOK
  <2> QED BY <2>1, <2>2 DEF LockInv, TakenUnderLock, Zeros
<1> QED BY <1>1, <1>2, <1>3 DEF LockInv

\* Committing a session's writes leaves rows of the table's type.
LEMMA HoldsWithType ==
  ASSUME TypeOK, NEW s \in Sessions, cart[s] \in Carts,
         NEW w \in [StockRows -> HoldRow \union {Unwritten}]
  PROVE  HoldsWith(s, w) \in [Carts -> [StockRows -> HoldRow]]
BY HoldRowTypes DEF TypeOK, HoldsWith

LEMMA HoldsWithAlwaysType ==
  ASSUME TypeOK, NEW s \in Sessions,
         NEW w \in [StockRows -> HoldRow \union {Unwritten}]
  PROVE  HoldsWith(s, w) \in [Carts -> [StockRows -> HoldRow]]
<1>1. CASE cart[s] \in Carts
  BY <1>1, HoldsWithType
<1>2. CASE cart[s] \notin Carts
  BY <1>2, HoldRowTypes DEF TypeOK, HoldsWith
<1> QED BY <1>1, <1>2

-----------------------------------------------------------------------------
(* Each action keeps the lock invariant *)

LEMMA HoldGrantedLocks ==
  ASSUME LockInv, NEW s \in Sessions, step[s] \in {"place", "hold"},
         NEW e \in todo[s], HoldGranted(s, e)
  PROVE  LockInv'
<1>0. e \in Entry /\ e.row \in StockRows /\ e.qty \in Nat /\ now + HoldTTL \in Nat
  BY ConstantsAssumption DEF LockInv, TypeOK, Entry, HoldGranted, ConstantsAssumption
<1>1. NewHold(e.qty) \in HoldRow
  BY <1>0 DEF NewHold, HoldRow
<1>2. TypeOK'
  BY <1>0, <1>1 DEF LockInv, TypeOK, HoldGranted, tables
<1>3. LocksExclusive'
  BY <1>0 DEF LockInv, TypeOK, LocksExclusive, HoldGranted, RowFree
<1>4. TakenUnderLock'
  BY <1>0 DEF LockInv, TypeOK, TakenUnderLock, HoldGranted, tables
<1>5. PastZeroTodo'
  BY DEF LockInv, TypeOK, PastZeroTodo, HoldGranted
<1>20. BusyWithCart'
  BY DEF LockInv, BusyWithCart, Idle, HoldGranted
<1> QED BY <1>2, <1>3, <1>4, <1>5, <1>20 DEF LockInv

LEMMA PlaceBeginLocks ==
  ASSUME LockInv, NEW s \in Sessions, NEW c \in Carts, NEW items \in CartRequests,
         PlaceBegin(s, c, items)
  PROVE  LockInv'
<1>1. \A i \in DOMAIN items :
        [row |-> <<items[i].variant, DefaultWarehouse>>, qty |-> items[i].qty, at |-> i] \in Entry
  BY RequestItems, ConstantsAssumption DEF Entry, ConstantsAssumption
<1>2. TypeOK'
  BY <1>1 DEF LockInv, TypeOK, PlaceBegin, tables
<1>3. LocksExclusive' /\ TakenUnderLock'
  BY DEF LockInv, TypeOK, LocksExclusive, TakenUnderLock, PlaceBegin, tables
<1>4. PastZeroTodo'
  BY DEF LockInv, TypeOK, PastZeroTodo, PlaceBegin
<1>20. BusyWithCart'
  BY DEF LockInv, TypeOK, BusyWithCart, Idle, PlaceBegin
<1> QED BY <1>2, <1>3, <1>4, <1>20 DEF LockInv

LEMMA PlaceInsufficientLocks ==
  ASSUME LockInv, NEW s \in Sessions, PlaceInsufficient(s)
  PROVE  LockInv'
<1>1. PICK e \in todo[s] :
        /\ \/ UNCHANGED locked
           \/ /\ e.row \in StockRows
              /\ RowFree(s, e.row)
              /\ locked' = [locked EXCEPT ![s] = @ \union {e.row}]
        /\ todo' = [todo EXCEPT ![s] = @ \ {e}]
  BY DEF PlaceInsufficient
<1> DEFINE Locked == /\ locked' \in [Sessions -> SUBSET StockRows]
                     /\ \A o \in Sessions : locked[o] \subseteq locked'[o]
                     /\ LocksExclusive'
<1>a. ASSUME UNCHANGED locked PROVE Locked
  BY <1>a DEF LockInv, TypeOK, LocksExclusive
<1>b. ASSUME /\ e.row \in StockRows
             /\ RowFree(s, e.row)
             /\ locked' = [locked EXCEPT ![s] = @ \union {e.row}]
      PROVE  Locked
  BY <1>b DEF LockInv, TypeOK, LocksExclusive, RowFree
<1>2. Locked
  BY <1>1, <1>a, <1>b
<1>3. TypeOK'
  BY <1>1, <1>2 DEF LockInv, TypeOK, PlaceInsufficient, tables
<1>6. TakenUnderLock'
  BY <1>2 DEF LockInv, TypeOK, TakenUnderLock, PlaceInsufficient, tables
<1>5. PastZeroTodo'
  BY <1>1 DEF LockInv, TypeOK, PastZeroTodo, PlaceInsufficient
<1>7. BusyWithCart'
  BY DEF LockInv, BusyWithCart, Idle, PlaceInsufficient
<1> QED BY <1>2, <1>3, <1>5, <1>6, <1>7 DEF LockInv

LEMMA CheckoutBeginLocks ==
  ASSUME LockInv, NEW s \in Sessions, NEW c \in Carts, NEW lines \in OrderRequests,
         CheckoutBegin(s, c, lines)
  PROVE  LockInv'
<1>1. ASSUME NEW e \in PastZeroLines(lines)
      PROVE  e \in Entry /\ e.row \in StockRows /\ e.row[1] \in PastZero
  <2>1. PICK i \in DOMAIN lines :
          /\ lines[i].variant \in PastZero
          /\ <<lines[i].variant, FirstWarehouse>> \in StockRows
          /\ e = [row |-> <<lines[i].variant, FirstWarehouse>>, qty |-> lines[i].qty, at |-> i]
    BY DEF PastZeroLines
  <2>2. lines[i].qty \in Nat /\ i \in Nat
    BY RequestItems
  <2> QED BY <2>1, <2>2, RowsArePairs DEF Entry
<1>2. /\ PastZeroLines(lines) \subseteq Entry
      /\ \A e \in PastZeroLines(lines) : e.row \in StockRows /\ e.row[1] \in PastZero
  BY <1>1
<1>3. TypeOK'
  BY <1>2 DEF LockInv, TypeOK, CheckoutBegin, tables
<1>4. LocksExclusive' /\ TakenUnderLock'
  BY DEF LockInv, TypeOK, LocksExclusive, TakenUnderLock, CheckoutBegin, tables
<1>5. PastZeroTodo'
  BY <1>2 DEF LockInv, TypeOK, PastZeroTodo, CheckoutBegin
<1>20. BusyWithCart'
  BY DEF LockInv, TypeOK, BusyWithCart, Idle, CheckoutBegin
<1> QED BY <1>3, <1>4, <1>5, <1>20 DEF LockInv

LEMMA CheckoutPastZeroLocks ==
  ASSUME LockInv, NEW s \in Sessions, CheckoutPastZero(s)
  PROVE  LockInv'
<1>1. PICK e \in todo[s] :
        /\ RowFree(s, e.row)
        /\ locked' = [locked EXCEPT ![s] = @ \union {e.row}]
        /\ taken' = [taken EXCEPT ![s][e.row] = @ + PastZeroTake(s, e)]
        /\ todo' = [todo EXCEPT ![s] = @ \ {e}]
  BY DEF CheckoutPastZero
<1>2. e.row \in StockRows /\ e.qty \in Nat
  BY <1>1 DEF LockInv, TypeOK, PastZeroTodo, CheckoutPastZero, Entry
<1>3. /\ taken[s][e.row] \in Nat /\ quantity[e.row] \in Nat
      /\ taken[s][e.row] <= quantity[e.row]
  BY <1>2 DEF LockInv, TypeOK, TakenUnderLock
<1>4. /\ taken[s][e.row] + PastZeroTake(s, e) \in Nat
      /\ taken[s][e.row] + PastZeroTake(s, e) <= quantity[e.row]
  BY <1>2, <1>3 DEF PastZeroTake
<1>5. TypeOK'
  BY <1>1, <1>2, <1>4 DEF LockInv, TypeOK, CheckoutPastZero, tables
<1>6. LocksExclusive'
  BY <1>1, <1>2 DEF LockInv, TypeOK, LocksExclusive, RowFree
<1>7. TakenUnderLock'
  BY <1>1, <1>2, <1>4 DEF LockInv, TypeOK, TakenUnderLock, CheckoutPastZero, tables
<1>8. PastZeroTodo'
  BY <1>1 DEF LockInv, TypeOK, PastZeroTodo, CheckoutPastZero
<1>20. BusyWithCart'
  BY DEF LockInv, BusyWithCart, Idle, CheckoutPastZero
<1> QED BY <1>5, <1>6, <1>7, <1>8, <1>20 DEF LockInv

LEMMA CheckoutReleaseExceptLocks ==
  ASSUME LockInv, NEW s \in Sessions, CheckoutReleaseExcept(s)
  PROVE  LockInv'
<1>0. cart[s] \in Carts
  BY DEF LockInv, BusyWithCart, Idle, CheckoutReleaseExcept
<1>1. PlanRows(s) \subseteq Entry
  BY RowsArePairs, ConstantsAssumption DEF LockInv, TypeOK, PlanRows, Entry, ConstantsAssumption
<1>2. ASSUME NEW r \in StockRows
      PROVE  (IF r \in Stale(s) THEN [holds[cart[s]][r] EXCEPT !.state = "released"]
              ELSE written[s][r]) \in HoldRow \union {Unwritten}
  BY <1>0, ReleasedRow DEF LockInv, TypeOK
<1>3. TypeOK'
  BY <1>1, <1>2 DEF LockInv, TypeOK, CheckoutReleaseExcept, tables
<1>4. LocksExclusive' /\ TakenUnderLock'
  BY DEF LockInv, TypeOK, LocksExclusive, TakenUnderLock, CheckoutReleaseExcept, tables
<1>5. PastZeroTodo'
  BY DEF LockInv, TypeOK, PastZeroTodo, CheckoutReleaseExcept
<1>20. BusyWithCart'
  BY DEF LockInv, TypeOK, BusyWithCart, Idle, CheckoutReleaseExcept
<1> QED BY <1>3, <1>4, <1>5, <1>20 DEF LockInv

LEMMA CheckoutDecrementLocks ==
  ASSUME LockInv, NEW s \in Sessions, CheckoutDecrement(s)
  PROVE  LockInv'
<1>0. cart[s] \in Carts
  BY DEF LockInv, BusyWithCart, Idle, CheckoutDecrement, DecrementReady
<1>1. ASSUME NEW r \in VisiblyHeld(s)
      PROVE  /\ r \in StockRows /\ Visible(s, r).qty \in Nat
             /\ RowFree(s, r)
             /\ taken[s][r] + Visible(s, r).qty <= quantity[r]
  BY <1>0 DEF LockInv, TypeOK, CheckoutDecrement, DecrementReady, NonNegative, VisiblyHeld, Visible,
         HoldRow, Unwritten
<1>2. VisiblyHeld(s) \subseteq StockRows
  BY DEF VisiblyHeld
<1>3. TypeOK'
  BY <1>1, <1>2 DEF LockInv, TypeOK, CheckoutDecrement, DecrementReady, tables
<1>4. LocksExclusive'
  BY <1>1, <1>2 DEF LockInv, TypeOK, LocksExclusive, RowFree, CheckoutDecrement
<1>5. TakenUnderLock'
  BY <1>1, <1>2 DEF LockInv, TypeOK, TakenUnderLock, CheckoutDecrement, tables
<1>6. PastZeroTodo'
  BY DEF LockInv, TypeOK, PastZeroTodo, CheckoutDecrement
<1>20. BusyWithCart'
  BY DEF LockInv, TypeOK, BusyWithCart, Idle, CheckoutDecrement, DecrementReady
<1> QED BY <1>3, <1>4, <1>5, <1>6, <1>20 DEF LockInv

LEMMA CheckoutCommitLocks ==
  ASSUME LockInv, NEW s \in Sessions, CheckoutCommit(s)
  PROVE  LockInv'
<1>1. cart[s] \in Carts
  BY DEF LockInv, BusyWithCart, Idle, CheckoutCommit
<1>2. Flipped(s) \in [StockRows -> HoldRow \union {Unwritten}]
  <2>1. ASSUME NEW r \in StockRows, r \in VisiblyHeld(s)
        PROVE  [Visible(s, r) EXCEPT !.state = "committed"] \in HoldRow
    <3>1. Visible(s, r) \in HoldRow
      BY <1>1 DEF LockInv, TypeOK, Visible
    <3> QED BY <3>1 DEF HoldRow
  <2> QED BY <2>1 DEF LockInv, TypeOK, Flipped
<1>3. holds' \in [Carts -> [StockRows -> HoldRow]]
  BY <1>1, <1>2, HoldsWithType DEF LockInv, CheckoutCommit
<1>4. \A r \in StockRows : quantity[r] - taken[s][r] \in Nat
  BY DEF LockInv, TypeOK, TakenUnderLock
<1>5. /\ quantity' \in [StockRows -> Nat]
      /\ ordered' \in [StockRows -> Nat]
      /\ UNCHANGED <<stocked, recounts, now>>
  BY <1>4 DEF LockInv, TypeOK, CheckoutCommit
<1>6. TypeOK'
  BY <1>3, <1>5, EndTxTypes DEF LockInv, TypeOK, CheckoutCommit
<1>7. /\ LocksExclusive' /\ PastZeroTodo' /\ BusyWithCart'
      /\ \A o \in Sessions \ {s} : taken'[o] = taken[o] /\ locked'[o] = locked[o]
      /\ taken'[s] = Zeros
  BY EndTxLocks DEF LockInv, CheckoutCommit
<1>8. TakenUnderLock'
  <2> SUFFICES ASSUME NEW o \in Sessions, NEW r \in StockRows
               PROVE  (taken[o][r] > 0 => r \in locked[o])' /\ (taken[o][r] <= quantity[r])'
    BY DEF TakenUnderLock
  <2>1. quantity'[r] = quantity[r] - taken[s][r] /\ quantity'[r] \in Nat
    BY <1>4 DEF CheckoutCommit
  <2>2. CASE o = s
    BY <2>1, <2>2, <1>7 DEF Zeros
  <2>3. CASE o # s
    <3>1. taken[o][r] > 0 => taken[s][r] = 0
      BY <2>3 DEF LockInv, TypeOK, TakenUnderLock, LocksExclusive
    <3>2. taken[o][r] \in Nat /\ taken[s][r] \in Nat /\ quantity[r] \in Nat
      BY DEF LockInv, TypeOK
    <3>3. taken'[o][r] = taken[o][r] /\ locked'[o] = locked[o]
      BY <2>3, <1>7
    <3> QED BY <2>1, <3>1, <3>2, <3>3 DEF LockInv, TakenUnderLock
  <2> QED BY <2>2, <2>3
<1> QED BY <1>6, <1>7, <1>8 DEF LockInv

\* The single-statement operations change rows no transaction has decremented.
LEMMA HoldUpdatesLocks ==
  ASSUME LockInv, holds' \in [Carts -> [StockRows -> HoldRow]],
         UNCHANGED <<quantity, ordered, stocked, recounts, now, step, txState>>
  PROVE  LockInv'
BY DEF LockInv, TypeOK, LocksExclusive, TakenUnderLock, PastZeroTodo, BusyWithCart, Idle, txState

LEMMA ReleaseTypes ==
  ASSUME LockInv, NEW c \in Carts, Release(c)
  PROVE  holds' \in [Carts -> [StockRows -> HoldRow]]
BY ReleasedRow DEF LockInv, TypeOK, Release

LEMMA ExtendTypes ==
  ASSUME LockInv, NEW c \in Carts, Extend(c)
  PROVE  holds' \in [Carts -> [StockRows -> HoldRow]]
<1>1. now + HoldTTL \in Nat
  BY ConstantsAssumption DEF ConstantsAssumption, LockInv, TypeOK
<1>2. ASSUME NEW h \in HoldRow
      PROVE  [h EXCEPT !.expires = now + HoldTTL] \in HoldRow
  BY <1>1 DEF HoldRow
<1> QED BY <1>2 DEF LockInv, TypeOK, Extend

LEMMA SweepTypes ==
  ASSUME LockInv, Sweep
  PROVE  holds' \in [Carts -> [StockRows -> HoldRow]]
BY HoldRowTypes DEF LockInv, TypeOK, Sweep

LEMMA RecountLocks ==
  ASSUME LockInv, NEW r \in StockRows, NEW n \in 0 .. MaxRecount, Recount(r, n)
  PROVE  LockInv'
<1>1. n \in Nat /\ n - quantity[r] \in Int
  BY ConstantsAssumption DEF ConstantsAssumption, LockInv, TypeOK
<1>2. TypeOK'
  BY <1>1 DEF LockInv, TypeOK, Recount, txState
<1>3. TakenUnderLock'
  BY <1>1 DEF LockInv, TypeOK, TakenUnderLock, Recount, txState
<1>4. LocksExclusive' /\ PastZeroTodo' /\ BusyWithCart'
  BY DEF LockInv, LocksExclusive, PastZeroTodo, BusyWithCart, Idle, Recount, txState
<1> QED BY <1>2, <1>3, <1>4 DEF LockInv

LEMMA TickLocks ==
  ASSUME LockInv, Tick
  PROVE  LockInv'
BY DEF LockInv, TypeOK, LocksExclusive, TakenUnderLock, PastZeroTodo, BusyWithCart, Idle, Tick,
       txState

LEMMA InitLocks == Init => LockInv
<1> SUFFICES ASSUME Init PROVE LockInv
  OBVIOUS
<1>1. TypeOK
  BY HoldRowTypes, ConstantsAssumption DEF Init, TypeOK, ConstantsAssumption
<1>2. LocksExclusive /\ PastZeroTodo /\ BusyWithCart
  BY DEF Init, LocksExclusive, PastZeroTodo, BusyWithCart, Idle
<1>3. TakenUnderLock
  BY ConstantsAssumption DEF Init, TakenUnderLock, Zeros, ConstantsAssumption
<1> QED BY <1>1, <1>2, <1>3 DEF LockInv

LEMMA NextLocks == LockInv /\ [Next]_vars => LockInv'
<1> SUFFICES ASSUME LockInv, [Next]_vars PROVE LockInv'
  OBVIOUS
<1>1. ASSUME NEW s \in Sessions, Place(s) PROVE LockInv'
  <2>1. CASE \E c \in Carts : \E items \in CartRequests : PlaceBegin(s, c, items)
    BY <2>1, PlaceBeginLocks
  <2>2. CASE PlaceHold(s)
    BY <2>2, HoldGrantedLocks DEF PlaceHold
  <2>3. CASE PlaceInsufficient(s)
    BY <2>3, PlaceInsufficientLocks
  <2>4. CASE PlaceCommit(s)
    <3>1. holds' \in [Carts -> [StockRows -> HoldRow]]
      BY <2>4, HoldsWithAlwaysType DEF PlaceCommit, LockInv, TypeOK
    <3> QED BY <2>4, <3>1, EndTxKeepsLockInv DEF PlaceCommit
  <2> QED BY <1>1, <2>1, <2>2, <2>3, <2>4 DEF Place
<1>2. ASSUME NEW s \in Sessions, Checkout(s) PROVE LockInv'
  <2>1. CASE \E c \in Carts : \E lines \in OrderRequests : CheckoutBegin(s, c, lines)
    BY <2>1, CheckoutBeginLocks
  <2>2. CASE CheckoutPastZero(s)
    BY <2>2, CheckoutPastZeroLocks
  <2>3. CASE CheckoutReleaseExcept(s)
    BY <2>3, CheckoutReleaseExceptLocks
  <2>4. CASE CheckoutHold(s)
    BY <2>4, HoldGrantedLocks DEF CheckoutHold
  <2>5. CASE CheckoutRefused(s)
    BY <2>5, EndTxKeepsLockInv DEF CheckoutRefused, tables, LockInv, TypeOK
  <2>6. CASE CheckoutDecrement(s)
    BY <2>6, CheckoutDecrementLocks
  <2>7. CASE CheckoutCommit(s)
    BY <2>7, CheckoutCommitLocks
  <2> QED BY <1>2, <2>1, <2>2, <2>3, <2>4, <2>5, <2>6, <2>7 DEF Checkout
<1>3. ASSUME NEW s \in Sessions, Rollback(s) PROVE LockInv'
  BY <1>3, EndTxKeepsLockInv DEF Rollback, tables, LockInv, TypeOK
<1>4. ASSUME NEW c \in Carts, Release(c) PROVE LockInv'
  BY <1>4, ReleaseTypes, HoldUpdatesLocks DEF Release
<1>5. ASSUME NEW c \in Carts, Extend(c) PROVE LockInv'
  BY <1>5, ExtendTypes, HoldUpdatesLocks DEF Extend
<1>6. CASE Sweep
  BY <1>6, SweepTypes, HoldUpdatesLocks DEF Sweep
<1>7. ASSUME NEW r \in StockRows, NEW n \in 0 .. MaxRecount, Recount(r, n) PROVE LockInv'
  BY <1>7, RecountLocks
<1>8. CASE Tick
  BY <1>8, TickLocks
<1>9. CASE UNCHANGED vars
  BY <1>9 DEF vars, LockInv, TypeOK, LocksExclusive, TakenUnderLock, PastZeroTodo, BusyWithCart,
              Idle
<1> QED BY <1>1, <1>2, <1>3, <1>4, <1>5, <1>6, <1>7, <1>8, <1>9 DEF Next

LEMMA LockInvAlways == Spec => []LockInv
<1>1. Init => LockInv
  BY InitLocks
<1>2. LockInv /\ [Next]_vars => LockInv'
  BY NextLocks
<1> QED BY <1>1, <1>2, PTL DEF Spec

\* Every variable keeps its type, and no stock count goes below zero.
THEOREM TypeCorrect == Spec => []TypeOK
<1>1. LockInv => TypeOK
  BY DEF LockInv
<1> QED BY <1>1, LockInvAlways, PTL

\* Every uncommitted decrement is of a row its transaction alone has locked
\* and takes no more than the row has, however statements interleave.
THEOREM DecrementsUnderLock == Spec => []LockedDecrements
<1>1. LockInv => LockedDecrements
  BY DEF LockInv, TypeOK, LocksExclusive, TakenUnderLock, LockedDecrements
<1> QED BY <1>1, LockInvAlways, PTL

-----------------------------------------------------------------------------
(* Conservation, when a cart is in one request at a time *)

OneRequestPerCart ==
  \A s, o \in Sessions : s # o /\ cart[s] # None => cart[s] # cart[o]

\* What a checkout in its "hold" step has held, or has still to hold, is its
\* plan and nothing else; no gated row is decremented before the plan is.
PlanKeptBy(s) ==
  /\ step[s] # "flip" => \A r \in Gated : taken[s][r] = 0
  /\ step[s] = "flip" => \A r \in Gated : taken[s][r] = totals[s][r]
  /\ step[s] \in {"idle", "pastZero"} => written[s] = NoWrites
  /\ step[s] = "hold" =>
       /\ \A e \in todo[s] : e.row \in StockRows /\ e.qty = totals[s][e.row] /\ e.qty > 0
       /\ \A r \in StockRows : totals[s][r] > 0 =>
            \/ \E e \in todo[s] : e.row = r
            \/ written[s][r].state = "held" /\ written[s][r].qty = totals[s][r]
       /\ \A r \in StockRows : totals[s][r] = 0 => Visible(s, r).state # "held"

PlanKept == \A s \in Sessions : PlanKeptBy(s)

ConservationInv == LockInv /\ OneRequestPerCart /\ PlanKept /\ StockConserved

\* Session o and the holds of its cart are as they were.
Untouched(o) ==
  /\ step'[o] = step[o] /\ cart'[o] = cart[o] /\ todo'[o] = todo[o]
  /\ totals'[o] = totals[o] /\ taken'[o] = taken[o] /\ written'[o] = written[o]
  /\ ~Idle(o) => holds'[cart[o]] = holds[cart[o]]

LEMMA UntouchedKeepsPlan ==
  ASSUME NEW o \in Sessions, PlanKeptBy(o), Untouched(o)
  PROVE  PlanKeptBy(o)'
BY DEF PlanKeptBy, Untouched, Visible, Idle

\* One session moves: its own plan and everybody else's untouched part.
LEMMA OneSessionMoves ==
  ASSUME PlanKept, NEW s \in Sessions, PlanKeptBy(s)', \A o \in Sessions \ {s} : Untouched(o)
  PROVE  PlanKept'
<1> SUFFICES ASSUME NEW o \in Sessions PROVE PlanKeptBy(o)'
  BY DEF PlanKept
<1>1. CASE o = s
  BY <1>1
<1>2. CASE o # s
  BY <1>2, UntouchedKeepsPlan DEF PlanKept
<1> QED BY <1>1, <1>2

\* A transaction that ends has no plan any more.
LEMMA EndTxPlan ==
  ASSUME TypeOK, NEW s \in Sessions, EndTx(s)
  PROVE  PlanKeptBy(s)'
BY DEF TypeOK, EndTx, PlanKeptBy, Zeros, Gated

LEMMA EndTxOthers ==
  ASSUME LockInv, OneRequestPerCart, NEW s \in Sessions, EndTx(s),
         \A c \in Carts : c # cart[s] => holds'[c] = holds[c]
  PROVE  /\ \A o \in Sessions \ {s} : Untouched(o)
         /\ OneRequestPerCart'
<1>1. ASSUME NEW o \in Sessions \ {s}
      PROVE  Untouched(o)
  <2>1. ~Idle(o) => cart[o] \in Carts /\ cart[o] # cart[s]
    BY ConstantsAssumption DEF ConstantsAssumption, LockInv, BusyWithCart, OneRequestPerCart
  <2> QED BY <2>1 DEF LockInv, TypeOK, EndTx, Untouched
<1>2. OneRequestPerCart'
  BY DEF LockInv, TypeOK, EndTx, OneRequestPerCart
<1> QED BY <1>1, <1>2

LEMMA HoldGrantedPlan ==
  ASSUME ConservationInv, NEW s \in Sessions, step[s] \in {"place", "hold"},
         NEW e \in todo[s], HoldGranted(s, e)
  PROVE  OneRequestPerCart' /\ PlanKept' /\ StockConserved'
<1> USE DEF ConservationInv, LockInv
<1>1. \A o \in Sessions \ {s} : Untouched(o)
  BY DEF HoldGranted, tables, TypeOK, Untouched
<1>2. PlanKeptBy(s)'
  <2>1. /\ e.row \in StockRows
        /\ todo'[s] = todo[s] \ {e}
        /\ written'[s] = [written[s] EXCEPT ![e.row] = NewHold(e.qty)]
        /\ UNCHANGED <<holds, step, cart, totals, taken>>
    BY DEF HoldGranted, tables, TypeOK
  <2>2. NewHold(e.qty).state = "held" /\ NewHold(e.qty).qty = e.qty
    BY DEF NewHold
  <2>3. written[s] \in [StockRows -> HoldRow \union {Unwritten}]
    BY DEF TypeOK
  <2>4. CASE step[s] = "place"
    BY <2>1, <2>4 DEF PlanKept, PlanKeptBy
  <2>5. CASE step[s] = "hold"
    <3>1. e.qty = totals[s][e.row] /\ e.qty > 0
      BY <2>5 DEF PlanKept, PlanKeptBy
    <3>2. ASSUME NEW r \in StockRows, totals[s][r] > 0
          PROVE  \/ \E f \in todo'[s] : f.row = r
                 \/ written'[s][r].state = "held" /\ written'[s][r].qty = totals[s][r]
      <4>1. CASE r = e.row
        BY <4>1, <2>1, <2>2, <2>3, <3>1
      <4>2. CASE r # e.row
        BY <4>2, <2>1, <2>3, <2>5, <3>2 DEF PlanKept, PlanKeptBy
      <4> QED BY <4>1, <4>2
    <3>3. ASSUME NEW r \in StockRows, totals[s][r] = 0
          PROVE  Visible(s, r)'.state # "held"
      <4>1. r # e.row
        BY <3>1, <3>3
      <4>2. Visible(s, r)' = Visible(s, r)
        BY <4>1, <2>1, <2>3 DEF Visible
      <4> QED BY <4>2, <2>5, <3>3 DEF PlanKept, PlanKeptBy
    <3>4. \A f \in todo'[s] : f.row \in StockRows /\ f.qty = totals[s][f.row] /\ f.qty > 0
      BY <2>1, <2>5 DEF PlanKept, PlanKeptBy
    <3>5. \A r \in Gated : taken[s][r] = 0
      BY <2>5 DEF PlanKept, PlanKeptBy
    <3> QED BY <2>1, <2>5, <3>2, <3>3, <3>4, <3>5 DEF PlanKeptBy
  <2> QED BY <2>4, <2>5
<1>3. PlanKept'
  BY <1>1, <1>2, OneSessionMoves
<1>4. OneRequestPerCart' /\ StockConserved'
  BY DEF HoldGranted, tables, OneRequestPerCart, StockConserved
<1> QED BY <1>3, <1>4

LEMMA PlaceBeginPlan ==
  ASSUME ~SharedCart, ConservationInv, NEW s \in Sessions, NEW c \in Carts,
         NEW items \in CartRequests, PlaceBegin(s, c, items)
  PROVE  OneRequestPerCart' /\ PlanKept' /\ StockConserved'
<1> USE DEF ConservationInv, LockInv
<1>1. \A o \in Sessions \ {s} : Untouched(o)
  BY DEF PlaceBegin, tables, TypeOK, Untouched
<1>2. PlanKeptBy(s)'
  BY DEF PlaceBegin, MayStart, Idle, tables, TypeOK, PlanKept, PlanKeptBy
<1>3. PlanKept'
  BY <1>1, <1>2, OneSessionMoves
<1>4. OneRequestPerCart'
  BY DEF PlaceBegin, MayStart, TypeOK, OneRequestPerCart
<1>5. StockConserved'
  BY DEF PlaceBegin, tables, StockConserved
<1> QED BY <1>3, <1>4, <1>5

LEMMA PlaceInsufficientPlan ==
  ASSUME ConservationInv, NEW s \in Sessions, PlaceInsufficient(s)
  PROVE  OneRequestPerCart' /\ PlanKept' /\ StockConserved'
<1> USE DEF ConservationInv, LockInv
<1>1. PICK e : todo' = [todo EXCEPT ![s] = @ \ {e}]
  BY DEF PlaceInsufficient
<1>2. \A o \in Sessions \ {s} : Untouched(o)
  BY <1>1 DEF PlaceInsufficient, tables, TypeOK, Untouched
<1>3. PlanKeptBy(s)'
  BY DEF PlaceInsufficient, tables, TypeOK, PlanKept, PlanKeptBy
<1>4. PlanKept'
  BY <1>2, <1>3, OneSessionMoves
<1>5. OneRequestPerCart' /\ StockConserved'
  BY DEF PlaceInsufficient, tables, OneRequestPerCart, StockConserved
<1> QED BY <1>4, <1>5

LEMMA CheckoutBeginPlan ==
  ASSUME ~SharedCart, ConservationInv, NEW s \in Sessions, NEW c \in Carts,
         NEW lines \in OrderRequests, CheckoutBegin(s, c, lines)
  PROVE  OneRequestPerCart' /\ PlanKept' /\ StockConserved'
<1> USE DEF ConservationInv, LockInv
<1>1. \A o \in Sessions \ {s} : Untouched(o)
  BY DEF CheckoutBegin, tables, TypeOK, Untouched
<1>2. PlanKeptBy(s)'
  BY DEF CheckoutBegin, MayStart, Idle, tables, TypeOK, PlanKept, PlanKeptBy
<1>3. PlanKept'
  BY <1>1, <1>2, OneSessionMoves
<1>4. OneRequestPerCart'
  BY DEF CheckoutBegin, MayStart, TypeOK, OneRequestPerCart
<1>5. StockConserved'
  BY DEF CheckoutBegin, tables, StockConserved
<1> QED BY <1>3, <1>4, <1>5

LEMMA CheckoutPastZeroPlan ==
  ASSUME ConservationInv, NEW s \in Sessions, CheckoutPastZero(s)
  PROVE  OneRequestPerCart' /\ PlanKept' /\ StockConserved'
<1> USE DEF ConservationInv, LockInv
<1>1. PICK e \in todo[s] :
        /\ taken' = [taken EXCEPT ![s][e.row] = @ + PastZeroTake(s, e)]
        /\ todo' = [todo EXCEPT ![s] = @ \ {e}]
  BY DEF CheckoutPastZero
<1>2. \A o \in Sessions \ {s} : Untouched(o)
  BY <1>1 DEF CheckoutPastZero, tables, TypeOK, Untouched
<1>3. PlanKeptBy(s)'
  <2>1. step[s] = "pastZero" /\ UNCHANGED <<step, cart, totals, written>>
    BY DEF CheckoutPastZero
  <2>2. e.row[1] \in PastZero
    BY <2>1 DEF PastZeroTodo
  <2>3. \A r \in Gated : taken'[s][r] = taken[s][r]
    BY <1>1, <2>2 DEF Gated, TypeOK
  <2> QED BY <2>1, <2>3 DEF PlanKept, PlanKeptBy
<1>4. PlanKept'
  BY <1>2, <1>3, OneSessionMoves
<1>5. OneRequestPerCart' /\ StockConserved'
  BY DEF CheckoutPastZero, tables, OneRequestPerCart, StockConserved
<1> QED BY <1>4, <1>5

LEMMA CheckoutReleaseExceptPlan ==
  ASSUME ConservationInv, NEW s \in Sessions, CheckoutReleaseExcept(s)
  PROVE  OneRequestPerCart' /\ PlanKept' /\ StockConserved'
<1> USE DEF ConservationInv, LockInv
<1>1. \A o \in Sessions \ {s} : Untouched(o)
  BY DEF CheckoutReleaseExcept, tables, TypeOK, Untouched
<1>2. PlanKeptBy(s)'
  <2>1. /\ step[s] = "pastZero" /\ step'[s] = "hold"
        /\ todo'[s] = PlanRows(s)
        /\ written'[s] = [r \in StockRows |->
              IF r \in Stale(s) THEN [holds[cart[s]][r] EXCEPT !.state = "released"]
              ELSE written[s][r]]
        /\ UNCHANGED <<holds, cart, totals, taken>>
    BY DEF CheckoutReleaseExcept, tables, TypeOK
  <2>2. written[s] = NoWrites /\ \A r \in Gated : taken[s][r] = 0
    BY <2>1 DEF PlanKept, PlanKeptBy
  <2>3. \A e \in PlanRows(s) : e.row \in StockRows /\ e.qty = totals[s][e.row] /\ e.qty > 0
    BY DEF PlanRows
  <2>4. \A r \in StockRows : totals[s][r] > 0 => \E e \in PlanRows(s) : e.row = r
    <3> SUFFICES ASSUME NEW r \in StockRows, totals[s][r] > 0
                 PROVE  \E e \in PlanRows(s) : e.row = r
      OBVIOUS
    <3>1. [row |-> r, qty |-> totals[s][r], at |-> LockRank[r]] \in PlanRows(s)
      BY DEF PlanRows
    <3> QED BY <3>1
  <2>5. ASSUME NEW r \in StockRows, totals[s][r] = 0
        PROVE  Visible(s, r)'.state # "held"
    <3>0. cart[s] \in Carts /\ holds[cart[s]][r] \in HoldRow
      BY <2>1 DEF BusyWithCart, Idle, TypeOK
    <3>1. CASE r \in Stale(s)
      <4>1. written'[s][r] = [holds[cart[s]][r] EXCEPT !.state = "released"]
        BY <2>1, <3>1
      <4>2. written'[s][r].state = "released"
        BY <3>0, <4>1 DEF HoldRow
      <4> QED BY <4>2 DEF Visible, Unwritten
    <3>2. CASE r \notin Stale(s)
      <4>1. holds[cart[s]][r].state # "held"
        BY <2>5, <3>2 DEF Stale
      <4>2. Visible(s, r)' = holds[cart[s]][r]
        BY <2>1, <2>2, <3>2 DEF Visible, NoWrites
      <4> QED BY <4>1, <4>2
    <3> QED BY <3>1, <3>2
  <2> QED BY <2>1, <2>2, <2>3, <2>4, <2>5 DEF PlanKeptBy
<1>3. PlanKept'
  BY <1>1, <1>2, OneSessionMoves
<1>4. OneRequestPerCart' /\ StockConserved'
  BY DEF CheckoutReleaseExcept, tables, OneRequestPerCart, StockConserved
<1> QED BY <1>3, <1>4

LEMMA CheckoutDecrementPlan ==
  ASSUME ConservationInv, NEW s \in Sessions, CheckoutDecrement(s)
  PROVE  OneRequestPerCart' /\ PlanKept' /\ StockConserved'
<1> USE DEF ConservationInv, LockInv
<1>1. \A o \in Sessions \ {s} : Untouched(o)
  BY DEF CheckoutDecrement, tables, TypeOK, Untouched
<1>2. PlanKeptBy(s)'
  <2>1. /\ step[s] = "hold" /\ todo[s] = {} /\ step'[s] = "flip"
        /\ taken'[s] = [r \in StockRows |->
              IF r \in VisiblyHeld(s) THEN taken[s][r] + Visible(s, r).qty ELSE taken[s][r]]
        /\ UNCHANGED <<cart, totals, written>>
    BY DEF CheckoutDecrement, DecrementReady, tables, TypeOK
  <2>2. ASSUME NEW r \in Gated
        PROVE  taken'[s][r] = totals[s][r]
    <3>0. r \in StockRows /\ PlanKeptBy(s)
      BY DEF Gated, PlanKept
    <3>1. taken[s][r] = 0 /\ totals[s][r] \in Nat
      BY <2>1, <3>0 DEF PlanKeptBy, TypeOK
    <3>2. CASE totals[s][r] > 0
      <4>1. written[s][r].state = "held" /\ written[s][r].qty = totals[s][r]
        BY <2>1, <3>0, <3>2 DEF PlanKeptBy
      <4>2. Visible(s, r) = written[s][r]
        BY <4>1 DEF Visible, Unwritten
      <4> QED BY <2>1, <3>0, <3>1, <4>1, <4>2 DEF VisiblyHeld
    <3>3. CASE totals[s][r] = 0
      BY <2>1, <3>0, <3>1, <3>3 DEF PlanKeptBy, VisiblyHeld
    <3> QED BY <3>1, <3>2, <3>3
  <2> QED BY <2>1, <2>2 DEF PlanKeptBy
<1>3. PlanKept'
  BY <1>1, <1>2, OneSessionMoves
<1>4. OneRequestPerCart' /\ StockConserved'
  BY DEF CheckoutDecrement, tables, OneRequestPerCart, StockConserved
<1> QED BY <1>3, <1>4

LEMMA HoldsWithOthers ==
  ASSUME TypeOK, NEW s \in Sessions, NEW w, NEW c \in Carts, c # cart[s]
  PROVE  HoldsWith(s, w)[c] = holds[c]
BY DEF TypeOK, HoldsWith

LEMMA CheckoutCommitPlan ==
  ASSUME ConservationInv, NEW s \in Sessions, CheckoutCommit(s)
  PROVE  OneRequestPerCart' /\ PlanKept' /\ StockConserved'
<1> USE DEF ConservationInv, LockInv
<1>1. EndTx(s) /\ \A c \in Carts : c # cart[s] => holds'[c] = holds[c]
  BY HoldsWithOthers DEF CheckoutCommit
<1>2. PlanKept' /\ OneRequestPerCart'
  BY <1>1, EndTxPlan, EndTxOthers, OneSessionMoves
<1>3. ASSUME NEW r \in Gated
      PROVE  quantity'[r] + ordered'[r] = stocked'[r]
  <2>1. r \in StockRows /\ taken[s][r] = totals[s][r]
    BY DEF Gated, CheckoutCommit, PlanKept, PlanKeptBy
  <2>2. /\ quantity'[r] = quantity[r] - taken[s][r]
        /\ ordered'[r] = ordered[r] + totals[s][r]
        /\ stocked'[r] = stocked[r]
    BY <2>1 DEF CheckoutCommit
  <2>3. quantity[r] \in Nat /\ ordered[r] \in Nat /\ taken[s][r] \in Nat /\ totals[s][r] \in Nat
    BY <2>1 DEF TypeOK
  <2> QED BY <2>1, <2>2, <2>3 DEF StockConserved
<1> QED BY <1>2, <1>3 DEF StockConserved, Gated

\* A transaction that ends and changes no count.
LEMMA EndWithoutDecrementPlan ==
  ASSUME ConservationInv, NEW s \in Sessions, EndTx(s), UNCHANGED <<quantity, ordered, stocked>>,
         \A c \in Carts : c # cart[s] => holds'[c] = holds[c]
  PROVE  OneRequestPerCart' /\ PlanKept' /\ StockConserved'
<1> USE DEF ConservationInv, LockInv
<1>1. PlanKept' /\ OneRequestPerCart'
  BY EndTxPlan, EndTxOthers, OneSessionMoves
<1>2. StockConserved'
  BY DEF StockConserved
<1> QED BY <1>1, <1>2

\* A request of a cart nobody else works for.
LEMMA IdleCartPlan ==
  ASSUME ConservationInv, NEW c \in Carts, \A o \in Sessions : cart[o] # c,
         \A d \in Carts : d # c => holds'[d] = holds[d],
         UNCHANGED <<quantity, ordered, stocked, recounts, now, step, txState>>
  PROVE  OneRequestPerCart' /\ PlanKept' /\ StockConserved'
<1> USE DEF ConservationInv, LockInv
<1>1. \A o \in Sessions : Untouched(o)
  BY DEF txState, Untouched, BusyWithCart
<1>2. PlanKept'
  BY <1>1, UntouchedKeepsPlan DEF PlanKept
<1>3. OneRequestPerCart' /\ StockConserved'
  BY DEF txState, OneRequestPerCart, StockConserved
<1> QED BY <1>2, <1>3

LEMMA SweepPlan ==
  ASSUME ConservationInv, Sweep
  PROVE  OneRequestPerCart' /\ PlanKept' /\ StockConserved'
<1> USE DEF ConservationInv, LockInv
<1>1. ASSUME NEW s \in Sessions PROVE PlanKeptBy(s)'
  <2>1. ASSUME NEW r \in StockRows, step[s] = "hold", Visible(s, r).state # "held"
        PROVE  Visible(s, r)'.state # "held"
    <3>1. cart[s] \in Carts
      BY <2>1 DEF BusyWithCart, Idle
    <3>2. CASE written[s][r] # Unwritten
      BY <2>1, <3>2 DEF Visible, Sweep, txState
    <3>3. CASE written[s][r] = Unwritten
      <4>1. holds[cart[s]][r].state # "held"
        BY <2>1, <3>3 DEF Visible
      <4>2. holds'[cart[s]][r] = holds[cart[s]][r]
        BY <3>1, <4>1 DEF Sweep, Swept
      <4> QED BY <3>3, <4>1, <4>2 DEF Visible, Sweep, txState
    <3> QED BY <3>2, <3>3
  <2> QED BY <2>1 DEF PlanKept, PlanKeptBy, Sweep, txState
<1>2. OneRequestPerCart' /\ StockConserved'
  BY DEF Sweep, txState, OneRequestPerCart, StockConserved
<1> QED BY <1>1, <1>2 DEF PlanKept

LEMMA RecountPlan ==
  ASSUME ConservationInv, NEW r \in StockRows, NEW n \in 0 .. MaxRecount, Recount(r, n)
  PROVE  OneRequestPerCart' /\ PlanKept' /\ StockConserved'
<1> USE DEF ConservationInv, LockInv
<1>1. OneRequestPerCart' /\ PlanKept'
  BY UntouchedKeepsPlan DEF Recount, txState, OneRequestPerCart, PlanKept, Untouched
<1>2. ASSUME NEW q \in Gated
      PROVE  quantity'[q] + ordered'[q] = stocked'[q]
  <2>1. q \in StockRows /\ n \in Int
    BY DEF Gated
  <2>2. /\ quantity \in [StockRows -> Nat] /\ stocked \in [StockRows -> Int]
        /\ ordered \in [StockRows -> Nat]
    BY DEF TypeOK
  <2>3. /\ quantity' = [quantity EXCEPT ![r] = n]
        /\ stocked' = [stocked EXCEPT ![r] = @ + (n - quantity[r])]
        /\ ordered' = ordered
    BY DEF Recount
  <2>4. quantity[q] + ordered[q] = stocked[q]
    BY DEF StockConserved
  <2> QED BY <2>1, <2>2, <2>3, <2>4
<1> QED BY <1>1, <1>2 DEF StockConserved, Gated

LEMMA InitConserved == Init => ConservationInv
<1> SUFFICES ASSUME Init PROVE ConservationInv
  OBVIOUS
<1>1. OneRequestPerCart
  BY DEF Init, OneRequestPerCart
<1>2. PlanKept
  BY DEF Init, PlanKept, PlanKeptBy, Zeros, Gated
<1>3. StockConserved
  BY ConstantsAssumption DEF Init, StockConserved, Gated, Zeros, ConstantsAssumption
<1> QED BY <1>1, <1>2, <1>3, InitLocks DEF ConservationInv

LEMMA NextConserved ==
  ASSUME ~SharedCart, ConservationInv, [Next]_vars
  PROVE  ConservationInv'
<1> DEFINE Kept == OneRequestPerCart' /\ PlanKept' /\ StockConserved'
<1>0. TypeOK /\ LockInv'
  BY NextLocks DEF ConservationInv, LockInv
<1>1. ASSUME NEW s \in Sessions, Place(s) PROVE Kept
  <2>1. CASE \E c \in Carts : \E items \in CartRequests : PlaceBegin(s, c, items)
    BY <2>1, PlaceBeginPlan
  <2>2. CASE PlaceHold(s)
    BY <2>2, HoldGrantedPlan DEF PlaceHold
  <2>3. CASE PlaceInsufficient(s)
    BY <2>3, PlaceInsufficientPlan
  <2>4. CASE PlaceCommit(s)
    BY <1>0, <2>4, HoldsWithOthers, EndWithoutDecrementPlan DEF PlaceCommit
  <2> QED BY <1>1, <2>1, <2>2, <2>3, <2>4 DEF Place
<1>2. ASSUME NEW s \in Sessions, Checkout(s) PROVE Kept
  <2>1. CASE \E c \in Carts : \E lines \in OrderRequests : CheckoutBegin(s, c, lines)
    BY <2>1, CheckoutBeginPlan
  <2>2. CASE CheckoutPastZero(s)
    BY <2>2, CheckoutPastZeroPlan
  <2>3. CASE CheckoutReleaseExcept(s)
    BY <2>3, CheckoutReleaseExceptPlan
  <2>4. CASE CheckoutHold(s)
    BY <2>4, HoldGrantedPlan DEF CheckoutHold
  <2>5. CASE CheckoutRefused(s)
    BY <2>5, EndWithoutDecrementPlan DEF CheckoutRefused, tables
  <2>6. CASE CheckoutDecrement(s)
    BY <2>6, CheckoutDecrementPlan
  <2>7. CASE CheckoutCommit(s)
    BY <2>7, CheckoutCommitPlan
  <2> QED BY <1>2, <2>1, <2>2, <2>3, <2>4, <2>5, <2>6, <2>7 DEF Checkout
<1>3. ASSUME NEW s \in Sessions, Rollback(s) PROVE Kept
  BY <1>3, EndWithoutDecrementPlan DEF Rollback, tables
<1>4. ASSUME NEW c \in Carts, Release(c) PROVE Kept
  BY <1>0, <1>4, IdleCartPlan DEF Release, TypeOK
<1>5. ASSUME NEW c \in Carts, Extend(c) PROVE Kept
  BY <1>0, <1>5, IdleCartPlan DEF Extend, TypeOK
<1>6. ASSUME Sweep PROVE Kept
  BY <1>6, SweepPlan
<1>7. ASSUME NEW r \in StockRows, NEW n \in 0 .. MaxRecount, Recount(r, n) PROVE Kept
  BY <1>7, RecountPlan
<1>8. ASSUME Tick PROVE Kept
  BY <1>8, UntouchedKeepsPlan DEF Tick, txState, ConservationInv, OneRequestPerCart, PlanKept,
                                  StockConserved, Untouched
<1>9. ASSUME UNCHANGED vars PROVE Kept
  BY <1>9, UntouchedKeepsPlan DEF vars, ConservationInv, OneRequestPerCart, PlanKept,
                                  StockConserved, Untouched
<1>10. Kept
  BY <1>1, <1>2, <1>3, <1>4, <1>5, <1>6, <1>7, <1>8, <1>9 DEF Next
<1> QED BY <1>0, <1>10 DEF ConservationInv

\* When a cart is in one request at a time, every unit of a row that gates
\* sales is on the shelf or on exactly one committed order: whatever holds,
\* expiries, retargeted plans, rollbacks and recounts come in between.
THEOREM UnitsConserved ==
  ASSUME ~SharedCart
  PROVE  Spec => []StockConserved
<1>1. Init => ConservationInv
  BY InitConserved
<1>2. ConservationInv /\ [Next]_vars => ConservationInv'
  BY NextConserved
<1>3. ConservationInv => StockConserved
  BY DEF ConservationInv
<1> QED BY <1>1, <1>2, <1>3, PTL DEF Spec

-----------------------------------------------------------------------------
(* No oversell, whoever shares a cart *)

\* What an order allocates of a gated row its transaction has held, has still to
\* hold, or has decremented: this is about the session's own state only.
CoveredBy(s) ==
  /\ step[s] = "hold" =>
       /\ \A e \in todo[s] : e.row \in StockRows /\ e.qty = totals[s][e.row]
       /\ \A r \in StockRows : totals[s][r] > 0 =>
            \/ \E e \in todo[s] : e.row = r
            \/ written[s][r].state = "held" /\ written[s][r].qty = totals[s][r]
  /\ step[s] = "flip" => \A r \in Gated : totals[s][r] <= taken[s][r]

SoldIsTaken == \A s \in Sessions : CoveredBy(s)

OversellInv == LockInv /\ SoldIsTaken /\ NeverOversold

OwnState(s) == <<step[s], todo[s], totals[s], taken[s], written[s]>>

LEMMA OwnStateCovers ==
  ASSUME NEW s \in Sessions, CoveredBy(s), OwnState(s)' = OwnState(s)
  PROVE  CoveredBy(s)'
BY DEF CoveredBy, OwnState

LEMMA OneSessionCovers ==
  ASSUME SoldIsTaken, NEW s \in Sessions, CoveredBy(s)',
         \A o \in Sessions \ {s} : OwnState(o)' = OwnState(o)
  PROVE  SoldIsTaken'
<1> SUFFICES ASSUME NEW o \in Sessions PROVE CoveredBy(o)'
  BY DEF SoldIsTaken
<1>1. CASE o = s
  BY <1>1
<1>2. CASE o # s
  BY <1>2, OwnStateCovers DEF SoldIsTaken
<1> QED BY <1>1, <1>2

\* Steps that leave the counts and in which s neither holds nor decrements.
LEMMA EndTxCovers ==
  ASSUME OversellInv, NEW s \in Sessions, EndTx(s)
  PROVE  SoldIsTaken'
<1>1. \A o \in Sessions \ {s} : OwnState(o)' = OwnState(o)
  BY DEF OversellInv, LockInv, TypeOK, EndTx, OwnState
<1>2. CoveredBy(s)'
  BY DEF OversellInv, LockInv, TypeOK, EndTx, CoveredBy
<1> QED BY <1>1, <1>2, OneSessionCovers DEF OversellInv

LEMMA HoldGrantedCovers ==
  ASSUME OversellInv, NEW s \in Sessions, step[s] \in {"place", "hold"},
         NEW e \in todo[s], HoldGranted(s, e)
  PROVE  SoldIsTaken'
<1>1. \A o \in Sessions \ {s} : OwnState(o)' = OwnState(o)
  BY DEF HoldGranted, tables, OversellInv, LockInv, TypeOK, OwnState
<1>2. CoveredBy(s)'
  <2>1. /\ e.row \in StockRows
        /\ todo'[s] = todo[s] \ {e}
        /\ written'[s] = [written[s] EXCEPT ![e.row] = NewHold(e.qty)]
        /\ written[s] \in [StockRows -> HoldRow \union {Unwritten}]
        /\ UNCHANGED <<step, totals, taken>>
    BY DEF HoldGranted, tables, OversellInv, LockInv, TypeOK
  <2>2. NewHold(e.qty).state = "held" /\ NewHold(e.qty).qty = e.qty
    BY DEF NewHold
  <2>3. CoveredBy(s)
    BY DEF OversellInv, SoldIsTaken
  <2>4. ASSUME step[s] = "hold", NEW r \in StockRows, totals[s][r] > 0
        PROVE  \/ \E f \in todo'[s] : f.row = r
               \/ written'[s][r].state = "held" /\ written'[s][r].qty = totals[s][r]
    <3>1. CASE r = e.row
      BY <2>1, <2>2, <2>3, <2>4, <3>1 DEF CoveredBy
    <3>2. CASE r # e.row
      BY <2>1, <2>3, <2>4, <3>2 DEF CoveredBy
    <3> QED BY <3>1, <3>2
  <2> QED BY <2>1, <2>3, <2>4 DEF CoveredBy
<1> QED BY <1>1, <1>2, OneSessionCovers DEF OversellInv

LEMMA ReleaseExceptCovers ==
  ASSUME OversellInv, NEW s \in Sessions, CheckoutReleaseExcept(s)
  PROVE  SoldIsTaken'
<1>1. \A o \in Sessions \ {s} : OwnState(o)' = OwnState(o)
  BY DEF CheckoutReleaseExcept, tables, OversellInv, LockInv, TypeOK, OwnState
<1>2. step'[s] = "hold" /\ todo'[s] = PlanRows(s) /\ totals' = totals
  BY DEF CheckoutReleaseExcept, OversellInv, LockInv, TypeOK
<1>3. CoveredBy(s)'
  <2>1. step'[s] # "flip"
    BY <1>2
  <2>2. ASSUME NEW f \in PlanRows(s)
        PROVE  f.row \in StockRows /\ f.qty = totals'[s][f.row]
    BY <1>2, <2>2 DEF PlanRows
  <2>3. ASSUME NEW r \in StockRows, totals'[s][r] > 0
        PROVE  \E f \in PlanRows(s) : f.row = r
    <3> DEFINE g == [row |-> r, qty |-> totals[s][r], at |-> LockRank[r]]
    <3>1. g \in PlanRows(s)
      BY <1>2, <2>3 DEF PlanRows
    <3>2. g.row = r
      OBVIOUS
    <3> HIDE DEF g
    <3> QED BY <3>1, <3>2
  <2> QED BY <1>2, <2>1, <2>2, <2>3 DEF CoveredBy
<1> QED BY <1>1, <1>3, OneSessionCovers DEF OversellInv

LEMMA DecrementCovers ==
  ASSUME OversellInv, NEW s \in Sessions, CheckoutDecrement(s)
  PROVE  SoldIsTaken'
<1> USE DEF OversellInv, LockInv
<1>1. \A o \in Sessions \ {s} : OwnState(o)' = OwnState(o)
  BY DEF CheckoutDecrement, tables, TypeOK, OwnState
<1>2. /\ step[s] = "hold" /\ todo[s] = {} /\ step'[s] = "flip" /\ totals' = totals
      /\ taken'[s] = [r \in StockRows |-> IF r \in VisiblyHeld(s)
                        THEN taken[s][r] + Visible(s, r).qty ELSE taken[s][r]]
  BY DEF CheckoutDecrement, DecrementReady, TypeOK
<1>3. ASSUME NEW r \in StockRows PROVE totals[s][r] <= taken'[s][r]
  <2>1. totals[s][r] \in Nat /\ taken[s][r] \in Nat
    BY DEF TypeOK
  <2>2. CASE totals[s][r] > 0
    <3>1. written[s][r].state = "held" /\ written[s][r].qty = totals[s][r]
      BY <1>2, <2>2 DEF SoldIsTaken, CoveredBy
    <3>2. Visible(s, r) = written[s][r] /\ r \in VisiblyHeld(s)
      BY <3>1 DEF Visible, VisiblyHeld, Unwritten
    <3> QED BY <1>2, <2>1, <3>1, <3>2
  <2>3. CASE totals[s][r] = 0
    <3>1. Visible(s, r) \in HoldRow \/ r \notin VisiblyHeld(s)
      BY DEF Visible, VisiblyHeld, TypeOK, BusyWithCart, Idle, Unwritten, CheckoutDecrement, DecrementReady
    <3>2. r \in VisiblyHeld(s) => Visible(s, r).qty \in Nat
      BY <3>1 DEF HoldRow
    <3> QED BY <1>2, <2>1, <2>3, <3>2
  <2> QED BY <2>1, <2>2, <2>3
<1>4. CoveredBy(s)'
  BY <1>2, <1>3 DEF CoveredBy, Gated
<1> QED BY <1>1, <1>4, OneSessionCovers

\* An order takes from the shelf at least what it allocates.
LEMMA CommitNeverOversells ==
  ASSUME OversellInv, NEW s \in Sessions, CheckoutCommit(s)
  PROVE  SoldIsTaken' /\ NeverOversold'
<1>1. ASSUME NEW r \in Gated
      PROVE  quantity'[r] + ordered'[r] <= stocked'[r]
  <2>1. r \in StockRows /\ totals[s][r] <= taken[s][r]
    BY DEF Gated, CheckoutCommit, OversellInv, SoldIsTaken, CoveredBy
  <2>2. /\ quantity'[r] = quantity[r] - taken[s][r]
        /\ ordered'[r] = ordered[r] + totals[s][r]
        /\ stocked'[r] = stocked[r]
    BY <2>1 DEF CheckoutCommit
  <2>3. /\ quantity[r] \in Nat /\ ordered[r] \in Nat /\ taken[s][r] \in Nat /\ totals[s][r] \in Nat
        /\ stocked[r] \in Int /\ quantity[r] + ordered[r] <= stocked[r]
    BY <2>1 DEF OversellInv, LockInv, TypeOK, NeverOversold
  <2> QED BY <2>1, <2>2, <2>3
<1> QED BY <1>1, EndTxCovers DEF CheckoutCommit, NeverOversold, Gated

LEMMA RecountNeverOversells ==
  ASSUME OversellInv, NEW r \in StockRows, NEW n \in 0 .. MaxRecount, Recount(r, n)
  PROVE  SoldIsTaken' /\ NeverOversold'
<1> USE DEF OversellInv, LockInv
<1>1. SoldIsTaken'
  BY OwnStateCovers DEF Recount, txState, SoldIsTaken, OwnState
<1>2. ASSUME NEW q \in Gated
      PROVE  quantity'[q] + ordered'[q] <= stocked'[q]
  <2>1. q \in StockRows /\ n \in Int
    BY DEF Gated
  <2>2. /\ quantity \in [StockRows -> Nat] /\ stocked \in [StockRows -> Int]
        /\ ordered \in [StockRows -> Nat]
    BY DEF TypeOK
  <2>3. /\ quantity' = [quantity EXCEPT ![r] = n]
        /\ stocked' = [stocked EXCEPT ![r] = @ + (n - quantity[r])]
        /\ ordered' = ordered
    BY DEF Recount
  <2>4. quantity[q] + ordered[q] <= stocked[q]
    BY DEF NeverOversold
  <2> QED BY <2>1, <2>2, <2>3, <2>4
<1> QED BY <1>1, <1>2 DEF NeverOversold, Gated

LEMMA NextNeverOversells == OversellInv /\ [Next]_vars => OversellInv'
<1> SUFFICES ASSUME OversellInv, [Next]_vars PROVE OversellInv'
  OBVIOUS
<1> DEFINE Kept == SoldIsTaken' /\ NeverOversold'
<1>0. LockInv'
  BY NextLocks DEF OversellInv
<1>1. ASSUME SoldIsTaken', UNCHANGED <<quantity, ordered, stocked>> PROVE Kept
  BY <1>1 DEF OversellInv, NeverOversold, Gated
<1>2. ASSUME UNCHANGED <<quantity, ordered, stocked, step, todo, totals, taken, written>> PROVE Kept
  BY <1>1, <1>2, OwnStateCovers DEF OversellInv, SoldIsTaken, OwnState
<1>3. ASSUME NEW s \in Sessions, EndTx(s), UNCHANGED <<quantity, ordered, stocked>> PROVE Kept
  BY <1>1, <1>3, EndTxCovers
<1>4. ASSUME NEW s \in Sessions, UNCHANGED <<quantity, ordered, stocked>>,
             step'[s] \in {"place", "pastZero"},
             \A o \in Sessions \ {s} : OwnState(o)' = OwnState(o)
      PROVE  Kept
  <2>1. CoveredBy(s)'
    BY <1>4 DEF CoveredBy
  <2> QED BY <1>1, <1>4, <2>1, OneSessionCovers DEF OversellInv
<1>5. ASSUME NEW s \in Sessions, Place(s) PROVE Kept
  <2>1. ASSUME NEW c \in Carts, NEW items \in CartRequests, PlaceBegin(s, c, items) PROVE Kept
    BY <1>4, <2>1 DEF PlaceBegin, tables, OwnState, OversellInv, LockInv, TypeOK
  <2>2. CASE PlaceHold(s)
    BY <1>1, <2>2, HoldGrantedCovers DEF PlaceHold, HoldGranted, tables
  <2>3. CASE PlaceInsufficient(s)
    <3>1. PICK e : todo' = [todo EXCEPT ![s] = @ \ {e}]
      BY <2>3 DEF PlaceInsufficient
    <3> QED BY <1>4, <2>3, <3>1 DEF PlaceInsufficient, tables, OwnState, OversellInv, LockInv, TypeOK
  <2>4. CASE PlaceCommit(s)
    BY <1>3, <2>4 DEF PlaceCommit
  <2> QED BY <1>5, <2>1, <2>2, <2>3, <2>4 DEF Place
<1>6. ASSUME NEW s \in Sessions, Checkout(s) PROVE Kept
  <2>1. ASSUME NEW c \in Carts, NEW lines \in OrderRequests, CheckoutBegin(s, c, lines) PROVE Kept
    BY <1>4, <2>1 DEF CheckoutBegin, tables, OwnState, OversellInv, LockInv, TypeOK
  <2>2. CASE CheckoutPastZero(s)
    <3>1. PICK e \in todo[s] :
            /\ taken' = [taken EXCEPT ![s][e.row] = @ + PastZeroTake(s, e)]
            /\ todo' = [todo EXCEPT ![s] = @ \ {e}]
      BY <2>2 DEF CheckoutPastZero
    <3> QED BY <1>4, <2>2, <3>1 DEF CheckoutPastZero, tables, OwnState, OversellInv, LockInv, TypeOK
  <2>3. CASE CheckoutReleaseExcept(s)
    BY <1>1, <2>3, ReleaseExceptCovers DEF CheckoutReleaseExcept, tables
  <2>4. CASE CheckoutHold(s)
    BY <1>1, <2>4, HoldGrantedCovers DEF CheckoutHold, HoldGranted, tables
  <2>5. CASE CheckoutRefused(s)
    BY <1>3, <2>5 DEF CheckoutRefused, tables
  <2>6. CASE CheckoutDecrement(s)
    BY <1>1, <2>6, DecrementCovers DEF CheckoutDecrement, tables
  <2>7. CASE CheckoutCommit(s)
    BY <2>7, CommitNeverOversells
  <2> QED BY <1>6, <2>1, <2>2, <2>3, <2>4, <2>5, <2>6, <2>7 DEF Checkout
<1>7. ASSUME NEW s \in Sessions, Rollback(s) PROVE Kept
  BY <1>3, <1>7 DEF Rollback, tables
<1>8. ASSUME (\E c \in Carts : Release(c) \/ Extend(c)) \/ Sweep \/ Tick \/ UNCHANGED vars PROVE Kept
  BY <1>2, <1>8 DEF Release, Extend, Sweep, Tick, vars, txState
<1>9. ASSUME NEW r \in StockRows, NEW n \in 0 .. MaxRecount, Recount(r, n) PROVE Kept
  BY <1>9, RecountNeverOversells
<1>10. Kept
  BY <1>5, <1>6, <1>7, <1>8, <1>9 DEF Next
<1> QED BY <1>0, <1>10 DEF OversellInv

\* Orders never take more units of a gated row than the shelf gives up, even when
\* a shopper has several requests of one cart in flight: what an order allocates
\* it has decremented, under the row's lock.
THEOREM NothingOversold == Spec => []NeverOversold
<1>1. Init => OversellInv
  <2> SUFFICES ASSUME Init PROVE OversellInv
    OBVIOUS
  <2>1. SoldIsTaken
    BY DEF Init, SoldIsTaken, CoveredBy
  <2>2. NeverOversold
    BY ConstantsAssumption DEF Init, NeverOversold, Gated, Zeros, ConstantsAssumption
  <2> QED BY <2>1, <2>2, InitLocks DEF OversellInv
<1>2. OversellInv => NeverOversold
  BY DEF OversellInv
<1> QED BY <1>1, <1>2, NextNeverOversells, PTL DEF Spec

-----------------------------------------------------------------------------
(* The abstract shelf *)

Counts == <<quantity, ordered, stocked>>

LEMMA CommitSells ==
  ASSUME ConservationInv, ConservationInv', NEW s \in Sessions, CheckoutCommit(s)
  PROVE  Shelf!Sell
<1> USE DEF ConservationInv, LockInv, OnGated
<1>1. Gated \subseteq StockRows
  BY DEF Gated
<1>2. OnGated(quantity)' \in [Gated -> Nat] /\ OnGated(ordered)' \in [Gated -> Nat]
  BY <1>1 DEF TypeOK
<1>3. ASSUME NEW r \in Gated
      PROVE  /\ ordered[r] <= ordered'[r]
             /\ quantity'[r] + ordered'[r] = quantity[r] + ordered[r]
  <2>1. /\ r \in StockRows /\ ordered[r] \in Nat /\ totals[s][r] \in Nat
        /\ ordered'[r] = ordered[r] + totals[s][r]
    BY <1>1 DEF TypeOK, CheckoutCommit
  <2>2. quantity[r] + ordered[r] = stocked[r]
    BY DEF StockConserved
  <2>3. quantity'[r] + ordered'[r] = stocked'[r] /\ stocked'[r] = stocked[r]
    BY DEF StockConserved, CheckoutCommit, Gated
  <2> QED BY <2>1, <2>2, <2>3
<1>4. OnGated(stocked)' = OnGated(stocked)
  BY DEF CheckoutCommit, Gated
<1> QED BY <1>2, <1>3, <1>4 DEF Shelf!Sell

LEMMA RecountRecounts ==
  ASSUME ConservationInv, NEW r \in StockRows, NEW n \in 0 .. MaxRecount, Recount(r, n)
  PROVE  Shelf!Recount \/ UNCHANGED Shelf!vars
<1> USE DEF ConservationInv, LockInv
<1>1. n \in Nat
  BY ConstantsAssumption DEF ConstantsAssumption
<1>2. /\ quantity' = [quantity EXCEPT ![r] = n]
      /\ stocked' = [stocked EXCEPT ![r] = @ + (n - quantity[r])]
      /\ ordered' = ordered
  BY DEF Recount
<1>3. /\ quantity \in [StockRows -> Nat] /\ stocked \in [StockRows -> Int]
      /\ Gated \subseteq StockRows /\ Gated' = Gated
  BY DEF TypeOK, Gated
<1>4. CASE r \notin Gated
  <2>1. OnGated(quantity)' = OnGated(quantity) /\ OnGated(stocked)' = OnGated(stocked)
    BY <1>2, <1>3, <1>4 DEF OnGated
  <2> QED BY <2>1, <1>2, <1>3 DEF Shelf!vars, OnGated
<1>5. CASE r \in Gated
  <2>1. /\ OnGated(quantity)' = [OnGated(quantity) EXCEPT ![r] = n]
        /\ OnGated(quantity)'[r] = n
        /\ OnGated(stocked)' = [OnGated(stocked) EXCEPT ![r] = @ + (n - OnGated(quantity)[r])]
        /\ OnGated(ordered)' = OnGated(ordered)
    BY <1>2, <1>3, <1>5 DEF OnGated
  <2> QED BY <2>1, <1>1, <1>5 DEF Shelf!Recount
<1> QED BY <1>4, <1>5

\* Nothing else moves a count.
LEMMA OthersKeepCounts ==
  ASSUME [Next]_vars,
         ~\E s \in Sessions : CheckoutCommit(s),
         ~\E r \in StockRows : \E n \in 0 .. MaxRecount : Recount(r, n)
  PROVE  UNCHANGED Counts
<1> USE DEF Counts, tables
<1>1. ASSUME NEW s \in Sessions, Place(s) PROVE UNCHANGED Counts
  BY <1>1 DEF Place, PlaceBegin, PlaceHold, HoldGranted, PlaceInsufficient, PlaceCommit
<1>2. ASSUME NEW s \in Sessions, Checkout(s) PROVE UNCHANGED Counts
  BY <1>2 DEF Checkout, CheckoutBegin, CheckoutPastZero, CheckoutReleaseExcept, CheckoutHold,
              HoldGranted, CheckoutRefused, CheckoutDecrement
<1>3. ASSUME NEW s \in Sessions, Rollback(s) PROVE UNCHANGED Counts
  BY <1>3 DEF Rollback
<1>4. ASSUME NEW c \in Carts, Release(c) \/ Extend(c) PROVE UNCHANGED Counts
  BY <1>4 DEF Release, Extend
<1>5. ASSUME Sweep \/ Tick \/ UNCHANGED vars PROVE UNCHANGED Counts
  BY <1>5 DEF Sweep, Tick, vars
<1> QED BY <1>1, <1>2, <1>3, <1>4, <1>5 DEF Next

\* The tables, with all their holds, locks and half-done transactions, promise
\* what the abstract shelf does: an order takes all its units at once, from
\* units that are there, and only the merchant changes how many there are.
THEOREM ImplementsShelf ==
  ASSUME ~SharedCart
  PROVE  Spec => ShelfSpec
<1>1. Init => Shelf!Init
  BY ConstantsAssumption DEF Init, Shelf!Init, OnGated, Gated, Zeros, ConstantsAssumption
<1>2. ConservationInv /\ ConservationInv' /\ [Next]_vars => [Shelf!Next]_Shelf!vars
  <2> SUFFICES ASSUME ConservationInv, ConservationInv', [Next]_vars
               PROVE  [Shelf!Next]_Shelf!vars
    OBVIOUS
  <2>1. CASE \E s \in Sessions : CheckoutCommit(s)
    BY <2>1, CommitSells DEF Shelf!Next
  <2>2. CASE \E r \in StockRows : \E n \in 0 .. MaxRecount : Recount(r, n)
    BY <2>2, RecountRecounts DEF Shelf!Next
  <2>3. CASE UNCHANGED Counts
    BY <2>3 DEF Counts, Shelf!vars, OnGated, Gated
  <2> QED BY <2>1, <2>2, <2>3, OthersKeepCounts
<1>3. Init => ConservationInv
  BY InitConserved
<1>4. ConservationInv /\ [Next]_vars => ConservationInv'
  BY NextConserved
<1> QED BY <1>1, <1>2, <1>3, <1>4, PTL DEF Spec, ShelfSpec, Shelf!Spec

-----------------------------------------------------------------------------
(* Live holds *)

\* What LiveHoldsKept says of one step, one cart and one row.
KeptBy(c, r) ==
  Live(holds[c][r], now) /\ ~Live(holds'[c][r], now)
    => \/ \E s \in Sessions : cart[s] = c /\ ~Idle(s) /\ step'[s] = "idle"
       \/ Release(c)

LEMMA EndTxKeepsOtherHolds ==
  ASSUME LockInv, NEW s \in Sessions, ~Idle(s), EndTx(s),
         \A d \in Carts : d # cart[s] => holds'[d] = holds[d],
         NEW c \in Carts, NEW r \in StockRows
  PROVE  KeptBy(c, r)
<1>1. step'[s] = "idle"
  BY DEF EndTx, LockInv, TypeOK
<1> QED BY <1>1 DEF KeptBy

\* Nobody but the cart's own requests takes a live hold away: not the sweeper,
\* not another cart's Place or checkout, not a merchant's recount.
THEOREM LiveHoldsSafe ==
  ASSUME HoldTTL > 0
  PROVE  Spec => LiveHoldsKept
<1>1. ASSUME LockInv, [Next]_vars, NEW c \in Carts, NEW r \in StockRows
      PROVE  KeptBy(c, r)
  <2> USE <1>1 DEF LockInv
  <2>1. ASSUME NEW s \in Sessions, Place(s) PROVE KeptBy(c, r)
    <3>1. CASE PlaceCommit(s)
      BY <3>1, HoldsWithOthers, EndTxKeepsOtherHolds DEF PlaceCommit, Idle
    <3>2. CASE ~PlaceCommit(s)
      BY <2>1, <3>2 DEF Place, PlaceBegin, PlaceHold, HoldGranted, PlaceInsufficient, tables, KeptBy
    <3> QED BY <3>1, <3>2
  <2>2. ASSUME NEW s \in Sessions, Checkout(s) PROVE KeptBy(c, r)
    <3>1. CASE CheckoutCommit(s)
      BY <3>1, HoldsWithOthers, EndTxKeepsOtherHolds DEF CheckoutCommit, Idle
    <3>2. CASE ~CheckoutCommit(s)
      BY <2>2, <3>2 DEF Checkout, CheckoutBegin, CheckoutPastZero, CheckoutReleaseExcept,
                        CheckoutHold, HoldGranted, CheckoutRefused, CheckoutDecrement, tables, KeptBy
    <3> QED BY <3>1, <3>2
  <2>3. ASSUME NEW s \in Sessions, Rollback(s) PROVE KeptBy(c, r)
    BY <2>3 DEF Rollback, tables, KeptBy
  <2>4. ASSUME NEW d \in Carts, Release(d) PROVE KeptBy(c, r)
    BY <2>4 DEF Release, TypeOK, KeptBy
  <2>5. ASSUME NEW d \in Carts, Extend(d) PROVE KeptBy(c, r)
    <3>1. CASE d # c
      BY <2>5, <3>1 DEF Extend, TypeOK, KeptBy
    <3>2. CASE d = c /\ ~Extendable(c, r)
      BY <3>2 DEF Extendable, KeptBy
    <3>3. CASE d = c /\ Extendable(c, r)
      <4>1. holds'[c][r] = [holds[c][r] EXCEPT !.expires = now + HoldTTL]
        BY <2>5, <3>3 DEF Extend, TypeOK
      <4>2. holds[c][r] \in HoldRow /\ holds[c][r].state = "held"
        BY <3>3 DEF TypeOK, Extendable, Live
      <4>3. holds'[c][r].state = "held" /\ holds'[c][r].expires = now + HoldTTL
        BY <4>1, <4>2 DEF HoldRow
      <4>4. now + HoldTTL > now
        BY <2>5, ConstantsAssumption DEF ConstantsAssumption, TypeOK
      <4> QED BY <4>3, <4>4 DEF Live, KeptBy
    <3> QED BY <3>1, <3>2, <3>3
  <2>6. ASSUME Sweep PROVE KeptBy(c, r)
    <3>1. holds'[c][r] = IF Swept(c, r) THEN NoHold ELSE holds[c][r]
      BY <2>6 DEF Sweep
    <3>2. Swept(c, r) => ~Live(holds[c][r], now)
      BY ConstantsAssumption DEF ConstantsAssumption, Swept, Live, TypeOK, HoldRow
    <3> QED BY <3>1, <3>2 DEF KeptBy
  <2>7. ASSUME \/ \E q \in StockRows : \E n \in 0 .. MaxRecount : Recount(q, n)
               \/ Tick
               \/ UNCHANGED vars
        PROVE  KeptBy(c, r)
    BY <2>7 DEF Recount, Tick, vars, KeptBy
  <2> QED BY <2>1, <2>2, <2>3, <2>4, <2>5, <2>6, <2>7 DEF Next
<1>2. LockInv /\ [Next]_vars => [\A c \in Carts, r \in StockRows : KeptBy(c, r)]_vars
  BY <1>1
<1>3. Spec => [][\A c \in Carts, r \in StockRows : KeptBy(c, r)]_vars
  BY <1>2, LockInvAlways, PTL DEF Spec
<1> QED BY <1>3 DEF LiveHoldsKept, KeptBy

-----------------------------------------------------------------------------
(* What live holds promise, when a cart is in one request at a time *)

\* The units cart c holds of row r at time t, in a table H of holds, and the units
\* the carts in C hold.
UnitsIn(H, c, r, t) == IF Live(H[c][r], t) THEN H[c][r].qty ELSE 0
PromisedIn(H, C, r, t) == SumFunctionOnSet([c \in C |-> UnitsIn(H, c, r, t)], C)

HoldTables == [Carts -> [StockRows -> HoldRow]]

LEMMA UnitsInNat ==
  ASSUME NEW H \in HoldTables, NEW c \in Carts, NEW r \in StockRows, NEW t \in Nat
  PROVE  UnitsIn(H, c, r, t) \in Nat
BY DEF UnitsIn, HoldTables, HoldRow

LEMMA PromisedNat ==
  ASSUME IsFiniteSet(Carts), NEW H \in HoldTables, NEW C \in SUBSET Carts,
         NEW r \in StockRows, NEW t \in Nat
  PROVE  PromisedIn(H, C, r, t) \in Nat
<1> DEFINE f == [c \in C |-> UnitsIn(H, c, r, t)]
<1>1. IsFiniteSet(C)
  BY FS_Subset
<1>2. \A c \in C : f[c] \in Nat
  BY UnitsInNat
<1> HIDE DEF f
<1>3. SumFunctionOnSet(f, C) \in Nat
  BY <1>1, <1>2, SumNat
<1> QED BY <1>3 DEF PromisedIn, f

\* A cart's units and what the others hold make up what all hold.
LEMMA PromisedWithout ==
  ASSUME IsFiniteSet(Carts), NEW H \in HoldTables, NEW c \in Carts,
         NEW r \in StockRows, NEW t \in Nat
  PROVE  PromisedIn(H, Carts, r, t) = UnitsIn(H, c, r, t) + PromisedIn(H, Carts \ {c}, r, t)
<1> DEFINE f == [d \in Carts |-> UnitsIn(H, d, r, t)]
           R == Carts \ {c}
           e == [d \in R |-> UnitsIn(H, d, r, t)]
<1>1. IsFiniteSet(R)
  BY FS_Subset
<1>2. \A d \in Carts : f[d] \in Int
  BY UnitsInNat
<1>3. \A d \in R : f[d] = e[d]
  OBVIOUS
<1>4. f[c] = UnitsIn(H, c, r, t)
  OBVIOUS
<1> HIDE DEF f, e, R
<1>5. SumFunctionOnSet(f, Carts) = f[c] + SumFunctionOnSet(f, R)
  BY <1>2, SumWithout DEF R
<1>6. SumFunctionOnSet(f, R) = SumFunctionOnSet(e, R)
  BY <1>1, <1>3, SumSame
<1>7. PromisedIn(H, Carts, r, t) = SumFunctionOnSet(f, Carts)
  BY DEF PromisedIn, f
<1>8. PromisedIn(H, Carts \ {c}, r, t) = SumFunctionOnSet(e, R)
  BY DEF PromisedIn, e, R
<1> QED BY <1>4, <1>5, <1>6, <1>7, <1>8

\* Carts that hold no more than before promise no more together.
LEMMA PromisedLess ==
  ASSUME IsFiniteSet(Carts), NEW H \in HoldTables, NEW K \in HoldTables,
         NEW C \in SUBSET Carts, NEW r \in StockRows, NEW t \in Nat, NEW u \in Nat,
         \A c \in C : UnitsIn(K, c, r, u) <= UnitsIn(H, c, r, t)
  PROVE  PromisedIn(K, C, r, u) <= PromisedIn(H, C, r, t)
<1> DEFINE f == [c \in C |-> UnitsIn(K, c, r, u)]
           e == [c \in C |-> UnitsIn(H, c, r, t)]
<1>1. IsFiniteSet(C)
  BY FS_Subset
<1>2. \A c \in C : f[c] \in Int /\ e[c] \in Int /\ f[c] <= e[c]
  BY UnitsInNat
<1> HIDE DEF f, e
<1>3. SumFunctionOnSet(f, C) <= SumFunctionOnSet(e, C)
  BY <1>1, <1>2, SumAtMost
<1> QED BY <1>3 DEF PromisedIn, f, e

\* What a session has written as held, the counts and the others' live holds
\* leave room for; at the end of a checkout that is its whole plan.
PromisedBy(s) ==
  /\ begun[s] <= now
  /\ \A r \in Gated : written[s][r].state = "held" =>
       /\ r \in locked[s]
       /\ PromisedIn(holds, Carts \ {cart[s]}, r, now) + written[s][r].qty <= quantity[r]
  /\ step[s] = "flip" => \A r \in Gated : totals[s][r] > 0 =>
       written[s][r].state = "held" /\ written[s][r].qty = totals[s][r]

RoomForAll == \A r \in Gated : PromisedIn(holds, Carts, r, now) <= quantity[r]

CoverInv == ConservationInv /\ (\A s \in Sessions : PromisedBy(s)) /\ RoomForAll

LEMMA RoomIsCover == RoomForAll <=> LiveHoldsCovered
BY DEF RoomForAll, LiveHoldsCovered, HeldBy, PromisedIn, LiveUnits, UnitsIn

\* A session that does not move keeps its promises while no other cart holds
\* more of its rows and nobody touches their counts.
LEMMA StillPromised ==
  ASSUME IsFiniteSet(Carts), TypeOK, TypeOK', now' >= now, NEW o \in Sessions, PromisedBy(o),
         UNCHANGED <<begun[o], written[o], step[o], totals[o], cart[o]>>,
         locked[o] \subseteq locked'[o],
         \A r \in Gated : written[o][r].state = "held" /\ r \in locked[o] =>
           /\ quantity'[r] = quantity[r]
           /\ \A c \in Carts \ {cart[o]} : UnitsIn(holds', c, r, now') <= UnitsIn(holds, c, r, now)
  PROVE  PromisedBy(o)'
<1>1. begun[o] \in Nat /\ now \in Nat /\ now' \in Nat
      /\ holds \in HoldTables /\ holds' \in HoldTables
  BY DEF TypeOK, HoldTables
<1>2. begun'[o] <= now'
  BY <1>1 DEF PromisedBy
<1>3. ASSUME NEW r \in Gated, written'[o][r].state = "held"
      PROVE  /\ r \in locked'[o]
             /\ PromisedIn(holds', Carts \ {cart'[o]}, r, now') + written'[o][r].qty <= quantity'[r]
  <2>1. r \in StockRows /\ written[o][r] = written'[o][r]
    BY DEF Gated
  <2>2. /\ r \in locked[o]
        /\ PromisedIn(holds, Carts \ {cart[o]}, r, now) + written[o][r].qty <= quantity[r]
    BY <1>3, <2>1 DEF PromisedBy
  <2>3. PromisedIn(holds', Carts \ {cart[o]}, r, now') <= PromisedIn(holds, Carts \ {cart[o]}, r, now)
    BY <1>1, <1>3, <2>1, <2>2, PromisedLess
  <2>4. /\ PromisedIn(holds', Carts \ {cart[o]}, r, now') \in Nat
        /\ PromisedIn(holds, Carts \ {cart[o]}, r, now) \in Nat
    BY <1>1, <2>1, PromisedNat
  <2>5. written[o][r] \in HoldRow
    BY <1>3, <2>1 DEF TypeOK, Unwritten
  <2>6. written[o][r].qty \in Nat /\ quantity[r] \in Nat
    BY <2>1, <2>5 DEF TypeOK, HoldRow
  <2>7. quantity'[r] = quantity[r] /\ cart'[o] = cart[o] /\ written'[o][r].qty = written[o][r].qty
    BY <1>3, <2>1, <2>2
  <2>8. PromisedIn(holds', Carts \ {cart[o]}, r, now') + written[o][r].qty <= quantity[r]
    BY <2>2, <2>3, <2>4, <2>6
  <2> QED BY <2>2, <2>7, <2>8
<1>4. step'[o] = "flip" => \A r \in Gated : totals'[o][r] > 0 =>
        written'[o][r].state = "held" /\ written'[o][r].qty = totals'[o][r]
  BY DEF PromisedBy
<1> QED BY <1>2, <1>3, <1>4 DEF PromisedBy, Gated

\* The same for the room under each count.
LEMMA StillRoom ==
  ASSUME IsFiniteSet(Carts), TypeOK, TypeOK', RoomForAll,
         \A r \in Gated :
           /\ quantity'[r] = quantity[r]
           /\ \A c \in Carts : UnitsIn(holds', c, r, now') <= UnitsIn(holds, c, r, now)
  PROVE  RoomForAll'
<1>1. now \in Nat /\ now' \in Nat /\ holds \in HoldTables /\ holds' \in HoldTables
  BY DEF TypeOK, HoldTables
<1>2. ASSUME NEW r \in Gated
      PROVE  PromisedIn(holds', Carts, r, now') <= quantity'[r]
  <2>1. r \in StockRows /\ quantity[r] \in Nat
    BY DEF Gated, TypeOK
  <2>2. PromisedIn(holds', Carts, r, now') <= PromisedIn(holds, Carts, r, now)
    BY <1>1, <2>1, PromisedLess
  <2>3. PromisedIn(holds', Carts, r, now') \in Nat /\ PromisedIn(holds, Carts, r, now) \in Nat
    BY <1>1, <2>1, PromisedNat
  <2>4. PromisedIn(holds, Carts, r, now) <= quantity[r]
    BY DEF RoomForAll
  <2> QED BY <2>1, <2>2, <2>3, <2>4
<1> QED BY <1>2 DEF RoomForAll, Gated

\* Sessions that do not move, in a step that leaves the holds and the counts.
LEMMA OthersPromised ==
  ASSUME IsFiniteSet(Carts), CoverInv, TypeOK', NEW s \in Sessions,
         UNCHANGED <<quantity, holds, now>>, PromisedBy(s)',
         \A o \in Sessions \ {s} :
           UNCHANGED <<begun[o], written[o], step[o], totals[o], cart[o], locked[o]>>
  PROVE  (\A o \in Sessions : PromisedBy(o)') /\ RoomForAll'
<1> USE DEF CoverInv, ConservationInv, LockInv
<1>1. now \in Nat /\ holds \in HoldTables
  BY DEF TypeOK, HoldTables
<1>2. \A r \in Gated : \A c \in Carts :
        UnitsIn(holds', c, r, now') \in Int /\ UnitsIn(holds', c, r, now') = UnitsIn(holds, c, r, now)
  BY <1>1, UnitsInNat DEF Gated
<1>3. now' >= now
  BY <1>1
<1>4. ASSUME NEW o \in Sessions PROVE PromisedBy(o)'
  <2>1. CASE o = s
    BY <2>1
  <2>2. CASE o # s
    <3>1. UNCHANGED <<begun[o], written[o], step[o], totals[o], cart[o], locked[o]>>
      BY <2>2
    <3>2. \A r \in Gated : /\ quantity'[r] = quantity[r]
                           /\ \A c \in Carts \ {cart[o]} :
                                UnitsIn(holds', c, r, now') <= UnitsIn(holds, c, r, now)
      BY <1>2
    <3> QED BY <3>1, <3>2, <1>3, StillPromised
  <2> QED BY <2>1, <2>2
<1>5. RoomForAll'
  BY DEF RoomForAll
<1> QED BY <1>4, <1>5

LEMMA HoldGrantedCover ==
  ASSUME IsFiniteSet(Carts), CoverInv, TypeOK', NEW s \in Sessions,
         step[s] \in {"place", "hold"}, NEW e \in todo[s], HoldGranted(s, e)
  PROVE  (\A o \in Sessions : PromisedBy(o)') /\ RoomForAll'
<1> USE DEF CoverInv, ConservationInv, LockInv
<1>1. /\ e.row \in StockRows /\ Sufficient(s, e.row, e.qty)
      /\ locked' = [locked EXCEPT ![s] = @ \union {e.row}]
      /\ written' = [written EXCEPT ![s][e.row] = NewHold(e.qty)]
      /\ UNCHANGED <<quantity, holds, now, step, cart, totals, begun, taken>>
  BY DEF HoldGranted, tables
<1>2. /\ locked'[s] = locked[s] \union {e.row}
      /\ written'[s] = [written[s] EXCEPT ![e.row] = NewHold(e.qty)]
      /\ written[s] \in [StockRows -> HoldRow \union {Unwritten}]
  BY <1>1 DEF TypeOK
<1>3. holds \in HoldTables /\ now \in Nat /\ begun[s] \in Nat /\ begun[s] <= now
  BY DEF TypeOK, HoldTables, PromisedBy
<1>4. PromisedIn(holds, Carts \ {cart[s]}, e.row, now) + e.qty <= quantity[e.row]
  <2>1. \A c \in Carts : UnitsIn(holds, c, e.row, now) <= UnitsIn(holds, c, e.row, begun[s])
    BY <1>1, <1>3 DEF UnitsIn, Live, HoldTables, HoldRow
  <2>2. PromisedIn(holds, Carts \ {cart[s]}, e.row, now)
          <= PromisedIn(holds, Carts \ {cart[s]}, e.row, begun[s])
    BY <1>1, <1>3, <2>1, PromisedLess
  <2>3. /\ PromisedIn(holds, Carts \ {cart[s]}, e.row, now) \in Nat
        /\ PromisedIn(holds, Carts \ {cart[s]}, e.row, begun[s]) \in Nat
    BY <1>1, <1>3, PromisedNat
  <2>4. HeldBy(Carts \ {cart[s]}, e.row, begun[s])
          = PromisedIn(holds, Carts \ {cart[s]}, e.row, begun[s])
    BY DEF HeldBy, PromisedIn, LiveUnits, UnitsIn
  <2>5. quantity[e.row] - taken[s][e.row] - PromisedIn(holds, Carts \ {cart[s]}, e.row, begun[s])
          >= e.qty
    BY <1>1, <2>4 DEF Sufficient
  <2>6. quantity[e.row] \in Nat /\ taken[s][e.row] \in Nat /\ e.qty \in Nat
    BY <1>1 DEF TypeOK, Entry
  <2> QED BY <2>2, <2>3, <2>5, <2>6
<1>5. ASSUME NEW r \in Gated, written'[s][r].state = "held"
      PROVE  /\ r \in locked'[s]
             /\ PromisedIn(holds, Carts \ {cart[s]}, r, now) + written'[s][r].qty <= quantity[r]
  <2>1. r \in StockRows
    BY DEF Gated
  <2>2. CASE r = e.row
    BY <2>2, <1>1, <1>2, <1>4 DEF NewHold
  <2>3. CASE r # e.row
    BY <2>1, <2>3, <1>2, <1>5 DEF PromisedBy
  <2> QED BY <2>2, <2>3
<1>6. PromisedBy(s)'
  <2>1. step'[s] # "flip"
    BY <1>1
  <2> QED BY <1>1, <1>3, <1>5, <2>1 DEF PromisedBy, Gated
<1>7. \A o \in Sessions \ {s} :
        UNCHANGED <<begun[o], written[o], step[o], totals[o], cart[o], locked[o]>>
  BY <1>1 DEF TypeOK
<1> QED BY <1>1, <1>6, <1>7, OthersPromised

\* Steps of one session that leave the holds, the counts and what it wrote, and
\* are not the decrement; it may have begun just now.
LEMMA QuietCover ==
  ASSUME IsFiniteSet(Carts), CoverInv, TypeOK', NEW s \in Sessions,
         UNCHANGED <<quantity, holds, now, written>>, step'[s] # "flip",
         begun'[s] = begun[s] \/ begun'[s] = now,
         cart'[s] = cart[s] \/ written[s] = NoWrites, locked[s] \subseteq locked'[s],
         \A o \in Sessions \ {s} :
           UNCHANGED <<begun[o], step[o], totals[o], cart[o], locked[o]>>
  PROVE  (\A o \in Sessions : PromisedBy(o)') /\ RoomForAll'
<1> USE DEF CoverInv, ConservationInv, LockInv
<1>1. begun'[s] <= now
  <2>1. begun[s] <= now
    BY DEF PromisedBy
  <2>2. now \in Nat
    BY DEF TypeOK
  <2> QED BY <2>1, <2>2
<1>2. ASSUME NEW r \in Gated, written'[s][r].state = "held"
      PROVE  /\ r \in locked'[s]
             /\ PromisedIn(holds, Carts \ {cart'[s]}, r, now) + written'[s][r].qty <= quantity[r]
  <2>1. r \in StockRows
    BY DEF Gated
  <2>2. written[s] # NoWrites
    BY <1>2, <2>1 DEF NoWrites, Unwritten
  <2> QED BY <1>2, <2>2 DEF PromisedBy
<1>3. PromisedBy(s)'
  BY <1>1, <1>2 DEF PromisedBy, Gated
<1>4. \A o \in Sessions \ {s} :
        UNCHANGED <<begun[o], written[o], step[o], totals[o], cart[o], locked[o]>>
  OBVIOUS
<1> QED BY <1>3, <1>4, OthersPromised

\* A transaction that ends and leaves the tables as they are.
LEMMA RolledBackCover ==
  ASSUME IsFiniteSet(Carts), CoverInv, TypeOK', NEW s \in Sessions, EndTx(s), UNCHANGED tables
  PROVE  (\A o \in Sessions : PromisedBy(o)') /\ RoomForAll'
<1> USE DEF CoverInv, ConservationInv, LockInv
<1>1. /\ step'[s] = "idle" /\ begun'[s] = 0 /\ written'[s] = NoWrites
      /\ \A o \in Sessions \ {s} :
           UNCHANGED <<begun[o], written[o], step[o], totals[o], cart[o], locked[o]>>
  BY DEF EndTx, TypeOK
<1>2. PromisedBy(s)'
  <2>1. now \in Nat /\ now' = now
    BY DEF TypeOK, tables
  <2>2. \A r \in Gated : written'[s][r].state # "held"
    BY <1>1 DEF NoWrites, Unwritten, Gated
  <2> QED BY <1>1, <2>1, <2>2 DEF PromisedBy, Gated
<1> QED BY <1>1, <1>2, OthersPromised DEF tables

LEMMA ReleaseExceptCover ==
  ASSUME IsFiniteSet(Carts), CoverInv, TypeOK', NEW s \in Sessions, CheckoutReleaseExcept(s)
  PROVE  (\A o \in Sessions : PromisedBy(o)') /\ RoomForAll'
<1> USE DEF CoverInv, ConservationInv, LockInv
<1>1. /\ step[s] = "pastZero" /\ step'[s] = "hold"
      /\ written'[s] = [r \in StockRows |->
            IF r \in Stale(s) THEN [holds[cart[s]][r] EXCEPT !.state = "released"]
            ELSE written[s][r]]
      /\ UNCHANGED <<quantity, holds, now, cart, totals, begun, locked>>
      /\ \A o \in Sessions \ {s} : UNCHANGED <<written[o], step[o]>>
  BY DEF CheckoutReleaseExcept, tables, TypeOK
<1>2. written[s] = NoWrites
  BY <1>1 DEF PlanKept, PlanKeptBy
<1>3. ASSUME NEW r \in Gated PROVE written'[s][r].state # "held"
  <2>1. r \in StockRows /\ cart[s] \in Carts
    BY <1>1 DEF Gated, BusyWithCart, Idle
  <2>2. holds[cart[s]][r] \in HoldRow
    BY <2>1 DEF TypeOK
  <2>3. CASE r \in Stale(s)
    <3>1. written'[s][r] = [holds[cart[s]][r] EXCEPT !.state = "released"]
      BY <1>1, <2>1, <2>3
    <3> QED BY <2>2, <3>1 DEF HoldRow
  <2>4. CASE r \notin Stale(s)
    BY <1>1, <1>2, <2>1, <2>4 DEF NoWrites, Unwritten
  <2> QED BY <2>3, <2>4
<1>4. PromisedBy(s)'
  <2>1. begun[s] <= now
    BY DEF PromisedBy
  <2> QED BY <1>1, <1>3, <2>1 DEF PromisedBy, Gated
<1> QED BY <1>1, <1>4, OthersPromised

LEMMA DecrementCover ==
  ASSUME IsFiniteSet(Carts), CoverInv, TypeOK', NEW s \in Sessions, CheckoutDecrement(s)
  PROVE  (\A o \in Sessions : PromisedBy(o)') /\ RoomForAll'
<1> USE DEF CoverInv, ConservationInv, LockInv
<1>1. /\ step[s] = "hold" /\ todo[s] = {}
      /\ locked[s] \subseteq locked'[s]
      /\ UNCHANGED <<quantity, holds, now, cart, totals, begun, written>>
      /\ \A o \in Sessions \ {s} : UNCHANGED <<step[o], locked[o]>>
  BY DEF CheckoutDecrement, DecrementReady, tables, TypeOK
<1>2. \A r \in Gated : totals[s][r] > 0 =>
        written[s][r].state = "held" /\ written[s][r].qty = totals[s][r]
  <2>1. PlanKeptBy(s)
    BY DEF PlanKept
  <2> QED BY <1>1, <2>1 DEF PlanKeptBy, Gated
<1>3. PromisedBy(s)'
  BY <1>1, <1>2 DEF PromisedBy, Gated
<1> QED BY <1>1, <1>3, OthersPromised

\* What a session may write over its cart's holds of row r when it ends: held rows
\* it has room for, or rows no longer held, whose units it may have taken.
RoomyWrite(s, w, r) ==
  LET others == PromisedIn(holds, Carts \ {cart[s]}, r, now)
  IN \/ /\ w[r].state = "held" /\ r \in locked[s] /\ taken[s][r] = 0
        /\ others + w[r].qty <= quantity[r]
     \/ /\ w[r].state # "held" /\ w[r] # Unwritten
        /\ r \in locked[s] /\ others + taken[s][r] <= quantity[r]
     \/ w[r].state # "held" /\ taken[s][r] = 0

\* A transaction that ends with its writes leaves room for every live hold.
LEMMA CommittedCover ==
  ASSUME IsFiniteSet(Carts), CoverInv, TypeOK', NEW s \in Sessions, ~Idle(s), EndTx(s),
         now' = now, NEW w \in [StockRows -> HoldRow \union {Unwritten}],
         holds' = HoldsWith(s, w),
         \A r \in Gated : quantity'[r] = quantity[r] - taken[s][r] /\ RoomyWrite(s, w, r)
  PROVE  (\A o \in Sessions : PromisedBy(o)') /\ RoomForAll'
<1> USE DEF CoverInv, ConservationInv, LockInv
<1>1. /\ step'[s] = "idle" /\ begun'[s] = 0 /\ written'[s] = NoWrites
      /\ \A o \in Sessions \ {s} :
           UNCHANGED <<begun[o], written[o], step[o], totals[o], cart[o], locked[o]>>
  BY DEF EndTx, TypeOK
<1>2. /\ cart[s] \in Carts /\ now \in Nat /\ holds \in HoldTables /\ holds' \in HoldTables
      /\ Gated \subseteq StockRows
  BY DEF BusyWithCart, TypeOK, HoldTables, Gated
<1>3. ASSUME NEW r \in Gated, NEW c \in Carts, c # cart[s]
      PROVE  UnitsIn(holds', c, r, now) = UnitsIn(holds, c, r, now)
  BY <1>3, HoldsWithOthers DEF UnitsIn
<1>4. ASSUME NEW r \in StockRows
      PROVE  holds'[cart[s]][r] = IF w[r] # Unwritten THEN w[r] ELSE holds[cart[s]][r]
  BY <1>2 DEF HoldsWith, TypeOK
<1>5. ASSUME NEW r \in Gated, w[r].state # "held"
      PROVE  UnitsIn(holds', cart[s], r, now) <= UnitsIn(holds, cart[s], r, now)
  <2>1. UnitsIn(holds, cart[s], r, now) \in Nat
    BY <1>2, UnitsInNat
  <2>2. w[r] # Unwritten => UnitsIn(holds', cart[s], r, now) = 0
    BY <1>2, <1>4, <1>5 DEF UnitsIn, Live
  <2>3. w[r] = Unwritten => UnitsIn(holds', cart[s], r, now) = UnitsIn(holds, cart[s], r, now)
    BY <1>2, <1>4 DEF UnitsIn
  <2> QED BY <2>1, <2>2, <2>3
<1>6. PromisedBy(s)'
  <2>1. \A r \in Gated : written'[s][r].state # "held"
    BY <1>1, <1>2 DEF NoWrites, Unwritten
  <2> QED BY <1>1, <1>2, <2>1 DEF PromisedBy, Gated
<1>7. ASSUME NEW o \in Sessions \ {s} PROVE PromisedBy(o)'
  <2>1. ASSUME NEW r \in Gated, r \in locked[o], NEW c \in Carts \ {cart[o]}
        PROVE  /\ quantity'[r] = quantity[r]
               /\ UnitsIn(holds', c, r, now) <= UnitsIn(holds, c, r, now)
    <3>1. r \notin locked[s]
      BY <2>1 DEF LocksExclusive
    <3>2. taken[s][r] = 0 /\ w[r].state # "held"
      BY <3>1 DEF RoomyWrite, TakenUnderLock, TypeOK, Gated
    <3>3. quantity'[r] = quantity[r]
      BY <1>2, <3>2 DEF TypeOK
    <3>4. UnitsIn(holds, c, r, now) \in Nat
      BY <1>2, UnitsInNat
    <3>5. CASE c = cart[s]
      BY <3>2, <3>3, <3>5, <1>5
    <3>6. CASE c # cart[s]
      BY <3>3, <3>4, <3>6, <1>3
    <3> QED BY <3>5, <3>6
  <2>2. ASSUME NEW r \in Gated, r \in locked[o] PROVE quantity'[r] = quantity[r]
    <3>1. r \notin locked[s]
      BY <2>2 DEF LocksExclusive
    <3>2. taken[s][r] = 0
      BY <3>1 DEF TakenUnderLock, TypeOK, Gated
    <3> QED BY <1>2, <3>2 DEF TypeOK
  <2>3. now' >= now
    BY <1>2
  <2>4. \A r \in Gated : written[o][r].state = "held" /\ r \in locked[o] =>
          /\ quantity'[r] = quantity[r]
          /\ \A c \in Carts \ {cart[o]} : UnitsIn(holds', c, r, now') <= UnitsIn(holds, c, r, now)
    BY <2>1, <2>2
  <2> QED BY <1>1, <2>3, <2>4, StillPromised
<1>8. ASSUME NEW r \in Gated PROVE PromisedIn(holds', Carts, r, now) <= quantity'[r]
  <2> DEFINE others == PromisedIn(holds, Carts \ {cart[s]}, r, now)
             after == PromisedIn(holds', Carts \ {cart[s]}, r, now)
             mine == UnitsIn(holds', cart[s], r, now)
             had == UnitsIn(holds, cart[s], r, now)
  <2>1. /\ others \in Nat /\ after \in Nat /\ mine \in Nat /\ had \in Nat
        /\ quantity[r] \in Nat /\ taken[s][r] \in Nat
    BY <1>2, PromisedNat, UnitsInNat DEF TypeOK
  <2>2. after <= others
    <3>1. \A c \in Carts \ {cart[s]} : UnitsIn(holds', c, r, now) <= UnitsIn(holds, c, r, now)
      BY <1>2, <1>3, UnitsInNat
    <3> QED BY <1>2, <3>1, PromisedLess
  <2>3. PromisedIn(holds', Carts, r, now) = mine + after
    BY <1>2, PromisedWithout
  <2>4. had + others <= quantity[r]
    BY <1>2, PromisedWithout DEF RoomForAll
  <2>5. quantity'[r] = quantity[r] - taken[s][r]
    OBVIOUS
  <2>6. CASE w[r].state = "held"
    <3>1. /\ taken[s][r] = 0 /\ others + w[r].qty <= quantity[r]
      BY <2>6 DEF RoomyWrite
    <3>2. mine <= w[r].qty /\ w[r].qty \in Nat
      <4>1. w[r] \in HoldRow /\ w[r] # Unwritten
        BY <1>2, <2>6 DEF Unwritten
      <4> QED BY <4>1, <1>2, <1>4 DEF UnitsIn, HoldRow
    <3> HIDE DEF others, after, mine, had
    <3> QED BY <3>1, <3>2, <2>1, <2>2, <2>3, <2>5
  <2>7. CASE w[r].state # "held" /\ taken[s][r] = 0
    <3>1. mine <= had
      BY <2>7, <1>5
    <3> HIDE DEF others, after, mine, had
    <3> QED BY <3>1, <2>1, <2>2, <2>3, <2>4, <2>5, <2>7
  <2>8. CASE w[r].state # "held" /\ taken[s][r] # 0
    <3>1. w[r] # Unwritten /\ others + taken[s][r] <= quantity[r]
      BY <2>8 DEF RoomyWrite
    <3>2. mine = 0
      BY <1>2, <1>4, <2>8, <3>1 DEF UnitsIn, Live
    <3> HIDE DEF others, after, mine, had
    <3> QED BY <3>1, <3>2, <2>1, <2>2, <2>3, <2>5
  <2> QED BY <2>6, <2>7, <2>8
<1> QED BY <1>6, <1>7, <1>8 DEF RoomForAll, Gated

LEMMA PlaceCommitCover ==
  ASSUME IsFiniteSet(Carts), CoverInv, TypeOK', NEW s \in Sessions, PlaceCommit(s)
  PROVE  (\A o \in Sessions : PromisedBy(o)') /\ RoomForAll'
<1> USE DEF CoverInv, ConservationInv, LockInv
<1>1. /\ step[s] = "place" /\ ~Idle(s) /\ EndTx(s) /\ now' = now /\ quantity' = quantity
      /\ holds' = HoldsWith(s, written[s])
      /\ written[s] \in [StockRows -> HoldRow \union {Unwritten}]
  BY DEF PlaceCommit, Idle, TypeOK
<1>2. ASSUME NEW r \in Gated
      PROVE  quantity'[r] = quantity[r] - taken[s][r] /\ RoomyWrite(s, written[s], r)
  <2>1. taken[s][r] = 0 /\ quantity[r] \in Nat
    BY <1>1 DEF PlanKept, PlanKeptBy, Gated, TypeOK
  <2>2. quantity'[r] = quantity[r] - taken[s][r]
    BY <1>1, <2>1
  <2>3. CASE written[s][r].state = "held"
    <3>1. /\ r \in locked[s]
          /\ PromisedIn(holds, Carts \ {cart[s]}, r, now) + written[s][r].qty <= quantity[r]
      BY <2>3 DEF PromisedBy
    <3> QED BY <2>1, <2>2, <2>3, <3>1 DEF RoomyWrite
  <2>4. CASE written[s][r].state # "held"
    BY <2>1, <2>2, <2>4 DEF RoomyWrite
  <2> QED BY <2>3, <2>4
<1> QED BY <1>1, <1>2, CommittedCover

LEMMA CheckoutCommitCover ==
  ASSUME IsFiniteSet(Carts), CoverInv, TypeOK', NEW s \in Sessions, CheckoutCommit(s)
  PROVE  (\A o \in Sessions : PromisedBy(o)') /\ RoomForAll'
<1> USE DEF CoverInv, ConservationInv, LockInv
<1>1. /\ step[s] = "flip" /\ ~Idle(s) /\ EndTx(s) /\ now' = now
      /\ holds' = HoldsWith(s, Flipped(s))
      /\ quantity' = [r \in StockRows |-> quantity[r] - taken[s][r]]
  BY DEF CheckoutCommit, Idle
<1>2. cart[s] \in Carts /\ Gated \subseteq StockRows
  BY <1>1 DEF BusyWithCart, Gated
<1>3. ASSUME NEW r \in StockRows
      PROVE  Flipped(s)[r] \in HoldRow \union {Unwritten} /\ Flipped(s)[r].state # "held"
  <2>1. written[s][r] \in HoldRow \union {Unwritten} /\ holds[cart[s]][r] \in HoldRow
    BY <1>2 DEF TypeOK
  <2>2. CASE r \in VisiblyHeld(s)
    <3>1. Visible(s, r) \in HoldRow
      BY <2>1 DEF Visible
    <3>2. Flipped(s)[r] = [Visible(s, r) EXCEPT !.state = "committed"]
      BY <2>2 DEF Flipped
    <3> QED BY <3>1, <3>2 DEF HoldRow
  <2>3. CASE r \notin VisiblyHeld(s)
    <3>1. Flipped(s)[r] = written[s][r]
      BY <2>3 DEF Flipped
    <3>2. Visible(s, r).state # "held"
      BY <2>3 DEF VisiblyHeld
    <3> QED BY <2>1, <3>1, <3>2 DEF Visible, Unwritten
  <2> QED BY <2>2, <2>3
<1>4. Flipped(s) \in [StockRows -> HoldRow \union {Unwritten}]
  BY <1>3 DEF Flipped
<1>5. ASSUME NEW r \in Gated
      PROVE  quantity'[r] = quantity[r] - taken[s][r] /\ RoomyWrite(s, Flipped(s), r)
  <2>1. taken[s][r] = totals[s][r] /\ totals[s][r] \in Nat
    BY <1>1, <1>2 DEF PlanKept, PlanKeptBy, TypeOK
  <2>2. CASE totals[s][r] = 0
    BY <1>1, <1>2, <1>3, <2>1, <2>2 DEF RoomyWrite
  <2>3. CASE totals[s][r] > 0
    <3>1. written[s][r].state = "held" /\ written[s][r].qty = totals[s][r]
      BY <1>1, <2>3 DEF PromisedBy
    <3>2. /\ r \in locked[s]
          /\ PromisedIn(holds, Carts \ {cart[s]}, r, now) + totals[s][r] <= quantity[r]
      BY <3>1 DEF PromisedBy
    <3>3. r \in VisiblyHeld(s)
      BY <1>2, <3>1 DEF VisiblyHeld, Visible, Unwritten
    <3>4. Flipped(s)[r] # Unwritten
      <4>1. Flipped(s)[r] = [Visible(s, r) EXCEPT !.state = "committed"]
        BY <1>2, <3>3 DEF Flipped
      <4>2. Visible(s, r) \in HoldRow
        BY <1>2, <3>1 DEF Visible, Unwritten, TypeOK
      <4> QED BY <4>1, <4>2 DEF HoldRow, Unwritten
    <3> QED BY <1>1, <1>2, <1>3, <2>1, <3>2, <3>4 DEF RoomyWrite
  <2> QED BY <2>1, <2>2, <2>3
<1> QED BY <1>1, <1>4, <1>5, CommittedCover

\* Steps that only take units out of live holds: no transaction moves, no count
\* changes, and the clock may go on.
LEMMA FewerUnitsCover ==
  ASSUME IsFiniteSet(Carts), CoverInv, TypeOK', UNCHANGED <<quantity, step, txState>>,
         now' >= now,
         \A r \in Gated : \A c \in Carts : UnitsIn(holds', c, r, now') <= UnitsIn(holds, c, r, now)
  PROVE  (\A o \in Sessions : PromisedBy(o)') /\ RoomForAll'
<1> USE DEF CoverInv, ConservationInv, LockInv
<1>1. ASSUME NEW o \in Sessions PROVE PromisedBy(o)'
  <2>1. /\ UNCHANGED <<begun[o], written[o], step[o], totals[o], cart[o]>>
        /\ locked[o] \subseteq locked'[o] /\ quantity' = quantity
    BY DEF txState
  <2> QED BY <2>1, StillPromised
<1>2. RoomForAll'
  BY StillRoom
<1> QED BY <1>1, <1>2

LEMMA ReleaseCover ==
  ASSUME IsFiniteSet(Carts), CoverInv, TypeOK', NEW d \in Carts, Release(d)
  PROVE  (\A o \in Sessions : PromisedBy(o)') /\ RoomForAll'
<1> USE DEF CoverInv, ConservationInv, LockInv
<1>1. now \in Nat /\ holds \in HoldTables /\ holds' \in HoldTables /\ now' = now
      /\ UNCHANGED <<quantity, step, txState>>
  BY DEF TypeOK, HoldTables, Release
<1>2. ASSUME NEW r \in Gated, NEW c \in Carts
      PROVE  UnitsIn(holds', c, r, now) <= UnitsIn(holds, c, r, now)
  <2>1. r \in StockRows /\ UnitsIn(holds, c, r, now) \in Nat
    BY <1>1, UnitsInNat DEF Gated
  <2>2. CASE c = d /\ holds[c][r].state = "held"
    <3>1. holds'[c][r] = [holds[c][r] EXCEPT !.state = "released"] /\ holds[c][r] \in HoldRow
      BY <2>1, <2>2 DEF Release, TypeOK
    <3>2. holds'[c][r].state = "released"
      BY <3>1 DEF HoldRow
    <3> QED BY <2>1, <3>2 DEF UnitsIn, Live
  <2>3. CASE ~(c = d /\ holds[c][r].state = "held")
    <3>1. holds'[c][r] = holds[c][r]
      BY <2>1, <2>3 DEF Release, TypeOK
    <3> QED BY <2>1, <3>1 DEF UnitsIn
  <2> QED BY <2>2, <2>3
<1>3. now' >= now
  BY <1>1
<1> QED BY <1>1, <1>2, <1>3, FewerUnitsCover

\* A hold that is extended was live: it promises what it did.
LEMMA ExtendCover ==
  ASSUME IsFiniteSet(Carts), CoverInv, TypeOK', NEW d \in Carts, Extend(d)
  PROVE  (\A o \in Sessions : PromisedBy(o)') /\ RoomForAll'
<1> USE DEF CoverInv, ConservationInv, LockInv
<1>1. now \in Nat /\ holds \in HoldTables /\ holds' \in HoldTables /\ now' = now
      /\ UNCHANGED <<quantity, step, txState>>
  BY DEF TypeOK, HoldTables, Extend
<1>2. ASSUME NEW r \in Gated, NEW c \in Carts
      PROVE  UnitsIn(holds', c, r, now) <= UnitsIn(holds, c, r, now)
  <2>1. r \in StockRows /\ UnitsIn(holds, c, r, now) \in Nat /\ UnitsIn(holds', c, r, now) \in Nat
    BY <1>1, UnitsInNat DEF Gated
  <2>2. CASE c = d /\ Extendable(c, r)
    <3>1. holds'[c][r] = [holds[c][r] EXCEPT !.expires = now + HoldTTL] /\ holds[c][r] \in HoldRow
      BY <2>1, <2>2 DEF Extend, TypeOK
    <3>2. holds'[c][r].qty = holds[c][r].qty /\ holds[c][r].qty \in Nat
      BY <3>1 DEF HoldRow
    <3> QED BY <2>2, <3>2 DEF UnitsIn, Extendable
  <2>3. CASE ~(c = d /\ Extendable(c, r))
    <3>1. holds'[c][r] = holds[c][r]
      BY <2>1, <2>3 DEF Extend, TypeOK
    <3> QED BY <2>1, <3>1 DEF UnitsIn
  <2> QED BY <2>2, <2>3
<1>3. now' >= now
  BY <1>1
<1> QED BY <1>1, <1>2, <1>3, FewerUnitsCover

LEMMA SweepCover ==
  ASSUME IsFiniteSet(Carts), CoverInv, TypeOK', Sweep
  PROVE  (\A o \in Sessions : PromisedBy(o)') /\ RoomForAll'
<1> USE DEF CoverInv, ConservationInv, LockInv
<1>1. now \in Nat /\ holds \in HoldTables /\ now' = now
      /\ UNCHANGED <<quantity, step, txState>>
  BY DEF TypeOK, HoldTables, Sweep
<1>2. ASSUME NEW r \in Gated, NEW c \in Carts
      PROVE  UnitsIn(holds', c, r, now) <= UnitsIn(holds, c, r, now)
  <2>1. /\ r \in StockRows /\ UnitsIn(holds, c, r, now) \in Nat
        /\ holds'[c][r] = IF Swept(c, r) THEN NoHold ELSE holds[c][r]
    BY <1>1, UnitsInNat DEF Gated, Sweep
  <2> QED BY <2>1 DEF UnitsIn, Live, NoHold
<1>3. now' >= now
  BY <1>1
<1> QED BY <1>1, <1>2, <1>3, FewerUnitsCover

LEMMA TickCover ==
  ASSUME IsFiniteSet(Carts), CoverInv, TypeOK', Tick
  PROVE  (\A o \in Sessions : PromisedBy(o)') /\ RoomForAll'
<1> USE DEF CoverInv, ConservationInv, LockInv
<1>1. now \in Nat /\ holds \in HoldTables /\ now' = now + 1
      /\ UNCHANGED <<holds, quantity, step, txState>>
  BY DEF TypeOK, HoldTables, Tick
<1>2. ASSUME NEW r \in Gated, NEW c \in Carts
      PROVE  UnitsIn(holds', c, r, now') <= UnitsIn(holds, c, r, now)
  <2>1. holds[c][r] \in HoldRow
    BY <1>1 DEF Gated, HoldTables
  <2> QED BY <1>1, <2>1 DEF UnitsIn, Live, HoldRow
<1>3. now' >= now
  BY <1>1
<1> QED BY <1>1, <1>2, <1>3, FewerUnitsCover

LEMMA NextCover ==
  ASSUME ~SharedCart, MaxRecounts = 0, IsFiniteSet(Carts), CoverInv, [Next]_vars
  PROVE  CoverInv'
<1> DEFINE Covered == (\A o \in Sessions : PromisedBy(o)') /\ RoomForAll'
<1>0. ConservationInv' /\ TypeOK' /\ ConservationInv /\ TypeOK
  BY NextConserved DEF CoverInv, ConservationInv, LockInv
<1>1. ASSUME NEW s \in Sessions, Place(s) PROVE Covered
  <2>1. CASE \E c \in Carts : \E items \in CartRequests : PlaceBegin(s, c, items)
    <3>1. step[s] = "idle"
      BY <2>1 DEF PlaceBegin, MayStart, Idle
    <3>2. written[s] = NoWrites
      BY <1>0, <3>1 DEF ConservationInv, PlanKept, PlanKeptBy
    <3>3. /\ UNCHANGED <<quantity, holds, now, written, locked>>
          /\ step'[s] # "flip" /\ begun'[s] = now
          /\ \A o \in Sessions \ {s} : UNCHANGED <<begun[o], step[o], totals[o], cart[o], locked[o]>>
      BY <1>0, <2>1 DEF PlaceBegin, tables, TypeOK
    <3> QED BY <1>0, <3>2, <3>3, QuietCover
  <2>2. CASE PlaceHold(s)
    BY <1>0, <2>2, HoldGrantedCover DEF PlaceHold
  <2>3. CASE PlaceInsufficient(s)
    <3>1. /\ UNCHANGED <<quantity, holds, now, written, begun, cart, step>>
          /\ step'[s] # "flip" /\ locked[s] \subseteq locked'[s]
          /\ \A o \in Sessions \ {s} : UNCHANGED <<begun[o], step[o], totals[o], cart[o], locked[o]>>
      BY <1>0, <2>3 DEF PlaceInsufficient, tables, TypeOK
    <3> QED BY <1>0, <3>1, QuietCover
  <2>4. CASE PlaceCommit(s)
    BY <1>0, <2>4, PlaceCommitCover
  <2> QED BY <1>1, <2>1, <2>2, <2>3, <2>4 DEF Place
<1>2. ASSUME NEW s \in Sessions, Checkout(s) PROVE Covered
  <2>1. CASE \E c \in Carts : \E lines \in OrderRequests : CheckoutBegin(s, c, lines)
    <3>1. step[s] = "idle"
      BY <2>1 DEF CheckoutBegin, MayStart, Idle
    <3>2. written[s] = NoWrites
      BY <1>0, <3>1 DEF ConservationInv, PlanKept, PlanKeptBy
    <3>3. /\ UNCHANGED <<quantity, holds, now, written, locked>>
          /\ step'[s] # "flip" /\ begun'[s] = now
          /\ \A o \in Sessions \ {s} : UNCHANGED <<begun[o], step[o], totals[o], cart[o], locked[o]>>
      BY <1>0, <2>1 DEF CheckoutBegin, tables, TypeOK
    <3> QED BY <1>0, <3>2, <3>3, QuietCover
  <2>2. CASE CheckoutPastZero(s)
    <3>1. /\ UNCHANGED <<quantity, holds, now, written, begun, cart, step>>
          /\ step'[s] # "flip" /\ locked[s] \subseteq locked'[s]
          /\ \A o \in Sessions \ {s} : UNCHANGED <<begun[o], step[o], totals[o], cart[o], locked[o]>>
      BY <1>0, <2>2 DEF CheckoutPastZero, tables, TypeOK
    <3> QED BY <1>0, <3>1, QuietCover
  <2>3. CASE CheckoutReleaseExcept(s)
    BY <1>0, <2>3, ReleaseExceptCover
  <2>4. CASE CheckoutHold(s)
    BY <1>0, <2>4, HoldGrantedCover DEF CheckoutHold
  <2>5. CASE CheckoutRefused(s)
    BY <1>0, <2>5, RolledBackCover DEF CheckoutRefused
  <2>6. CASE CheckoutDecrement(s)
    BY <1>0, <2>6, DecrementCover
  <2>7. CASE CheckoutCommit(s)
    BY <1>0, <2>7, CheckoutCommitCover
  <2> QED BY <1>2, <2>1, <2>2, <2>3, <2>4, <2>5, <2>6, <2>7 DEF Checkout
<1>3. ASSUME NEW s \in Sessions, Rollback(s) PROVE Covered
  BY <1>0, <1>3, RolledBackCover DEF Rollback
<1>4. ASSUME NEW c \in Carts, Release(c) PROVE Covered
  BY <1>0, <1>4, ReleaseCover
<1>5. ASSUME NEW c \in Carts, Extend(c) PROVE Covered
  BY <1>0, <1>5, ExtendCover
<1>6. ASSUME Sweep PROVE Covered
  BY <1>0, <1>6, SweepCover
<1>7. ~\E r \in StockRows : \E n \in 0 .. MaxRecount : Recount(r, n)
  BY <1>0 DEF Recount, TypeOK
<1>8. ASSUME Tick PROVE Covered
  BY <1>0, <1>8, TickCover
<1>9. ASSUME UNCHANGED vars PROVE Covered
  BY <1>9 DEF vars, CoverInv, PromisedBy, RoomForAll
<1>10. Covered
  BY <1>1, <1>2, <1>3, <1>4, <1>5, <1>6, <1>7, <1>8, <1>9 DEF Next
<1> QED BY <1>0, <1>10 DEF CoverInv

\* Every unit a live hold promises is on the shelf, while a cart is in one request
\* at a time and no merchant lowers a count: Hold's sum under the row's lock,
\* the plan's holds and Commit's decrement keep room for all of them together.
THEOREM HoldsCovered ==
  ASSUME ~SharedCart, MaxRecounts = 0, IsFiniteSet(Carts)
  PROVE  Spec => []LiveHoldsCovered
<1>1. Init => CoverInv
  <2> SUFFICES ASSUME Init PROVE CoverInv
    OBVIOUS
  <2>1. \A s \in Sessions : PromisedBy(s)
    BY DEF Init, PromisedBy, NoWrites, Unwritten, Gated
  <2>2. ASSUME NEW r \in Gated PROVE PromisedIn(holds, Carts, r, now) <= quantity[r]
    <3>1. r \in StockRows /\ quantity[r] \in Nat
      BY ConstantsAssumption DEF Init, Gated, ConstantsAssumption
    <3> DEFINE f == [c \in Carts |-> UnitsIn(holds, c, r, now)]
    <3>2. \A c \in Carts : f[c] = 0
      BY <3>1 DEF Init, UnitsIn, Live, NoHold
    <3> HIDE DEF f
    <3>3. SumFunctionOnSet(f, Carts) = 0
      BY <3>2, SumAllZero
    <3> QED BY <3>1, <3>3 DEF PromisedIn, f
  <2> QED BY <2>1, <2>2, InitConserved DEF CoverInv, RoomForAll
<1>2. CoverInv /\ [Next]_vars => CoverInv'
  BY NextCover
<1>3. CoverInv => LiveHoldsCovered
  BY RoomIsCover DEF CoverInv
<1> QED BY <1>1, <1>2, <1>3, PTL DEF Spec

-----------------------------------------------------------------------------
(* No transactions that wait for one another *)

\* A checkout's plan takes nothing of a variant sold past zero, and its rows are
\* visited in the order of their locks: none still to lock comes before a gated
\* row that is locked.
PlannedInOrder(s) ==
  /\ step[s] = "idle" => locked[s] = {}
  /\ step[s] = "pastZero" => \A r \in locked[s] : r \notin Gated
  /\ step[s] \in {"pastZero", "hold"} => \A r \in StockRows : r \notin Gated => totals[s][r] = 0
  /\ step[s] = "hold" =>
       \A e \in todo[s] :
         /\ e.row \in Gated
         /\ e.at = LockRank[e.row]
         /\ \A r \in locked[s] : r \in Gated => LockRank[r] <= LockRank[e.row]

OrderInv == LockInv /\ \A s \in Sessions : PlannedInOrder(s)

\* Of finitely many things with a rank one has the highest.
LEMMA HighestRank ==
  ASSUME NEW S, IsFiniteSet(S), S # {}, NEW f \in [S -> Nat]
  PROVE  \E x \in S : \A y \in S : f[y] <= f[x]
<1> DEFINE G == {T \in SUBSET S : T # {} => \E x \in T : \A y \in T : f[y] <= f[x]}
<1>1. {} \in G
  OBVIOUS
<1>2. ASSUME NEW T \in SUBSET S, NEW x \in S, T \in G, x \notin T
      PROVE  T \union {x} \in G
  <2>1. CASE T = {}
    BY <2>1
  <2>2. CASE T # {}
    <3>1. PICK m \in T : \A y \in T : f[y] <= f[m]
      BY <1>2, <2>2
    <3>2. \A y \in T \union {x} : f[y] \in Nat
      OBVIOUS
    <3>3. CASE f[x] <= f[m]
      BY <3>1, <3>3
    <3>4. CASE f[m] <= f[x]
      BY <3>1, <3>2, <3>4
    <3> QED BY <3>2, <3>3, <3>4
  <2> QED BY <2>1, <2>2
<1> HIDE DEF G
<1>3. S \in G
  BY <1>1, <1>2, SetInduction
<1> QED BY <1>3 DEF G

LEMMA SamePlan ==
  ASSUME NEW s \in Sessions, PlannedInOrder(s),
         step'[s] = step[s], todo'[s] = todo[s], locked'[s] = locked[s], totals'[s] = totals[s]
  PROVE  PlannedInOrder(s)'
BY DEF PlannedInOrder, Gated

LEMMA EndTxInOrder ==
  ASSUME TypeOK, NEW s \in Sessions, EndTx(s), \A o \in Sessions : PlannedInOrder(o)
  PROVE  \A o \in Sessions : PlannedInOrder(o)'
<1>1. PlannedInOrder(s)'
  BY DEF TypeOK, EndTx, PlannedInOrder
<1>2. ASSUME NEW o \in Sessions \ {s} PROVE PlannedInOrder(o)'
  BY SamePlan DEF TypeOK, EndTx
<1> QED BY <1>1, <1>2

\* The next row a checkout locks is the first of those it has still to visit.
LEMMA HoldGrantedInOrder ==
  ASSUME TypeOK, NEW s \in Sessions, \A o \in Sessions : PlannedInOrder(o),
         step[s] \in {"place", "hold"}, NEW e \in todo[s], IsNext(s, e), HoldGranted(s, e)
  PROVE  \A o \in Sessions : PlannedInOrder(o)'
<1>1. /\ step'[s] = step[s] /\ todo'[s] = todo[s] \ {e} /\ totals'[s] = totals[s]
      /\ locked'[s] = locked[s] \union {e.row}
  BY DEF TypeOK, HoldGranted
<1>2. ASSUME step[s] = "place" PROVE PlannedInOrder(s)'
  BY <1>1, <1>2 DEF PlannedInOrder
<1>3. ASSUME step[s] = "hold" PROVE PlannedInOrder(s)'
  <2>1. \A f \in todo[s] : f.row \in Gated /\ f.at = LockRank[f.row]
    BY <1>3 DEF PlannedInOrder
  <2>2. \A f \in todo[s] : LockRank[e.row] <= LockRank[f.row]
    BY <2>1 DEF IsNext
  <2>3. \A f \in todo[s], r \in locked[s] : r \in Gated => LockRank[r] <= LockRank[f.row]
    BY <1>3 DEF PlannedInOrder
  <2>4. \A f \in todo'[s], r \in locked'[s] : r \in Gated => LockRank[r] <= LockRank[f.row]
    BY <1>1, <2>2, <2>3
  <2>5. \A r \in StockRows : r \notin Gated => totals'[s][r] = 0
    BY <1>1, <1>3 DEF PlannedInOrder
  <2> QED BY <1>1, <1>3, <2>1, <2>4, <2>5 DEF PlannedInOrder, Gated
<1>4. PlannedInOrder(s)'
  BY <1>2, <1>3
<1>5. ASSUME NEW o \in Sessions \ {s} PROVE PlannedInOrder(o)'
  BY SamePlan DEF TypeOK, HoldGranted
<1> QED BY <1>4, <1>5

LEMMA PlaceInOrder ==
  ASSUME TypeOK, NEW s \in Sessions, \A o \in Sessions : PlannedInOrder(o), Place(s)
  PROVE  \A o \in Sessions : PlannedInOrder(o)'
<1>1. CASE \E c \in Carts : \E items \in CartRequests : PlaceBegin(s, c, items)
  <2>1. PlannedInOrder(s)'
    BY <1>1 DEF TypeOK, PlaceBegin, PlannedInOrder
  <2>2. ASSUME NEW o \in Sessions \ {s} PROVE PlannedInOrder(o)'
    BY <1>1, SamePlan DEF TypeOK, PlaceBegin
  <2> QED BY <2>1, <2>2
<1>2. CASE PlaceHold(s)
  BY <1>2, HoldGrantedInOrder DEF PlaceHold
<1>3. CASE PlaceInsufficient(s)
  <2>1. step[s] = "place" /\ step' = step
    BY <1>3 DEF PlaceInsufficient
  <2>2. PlannedInOrder(s)'
    BY <2>1 DEF PlannedInOrder
  <2>3. ASSUME NEW o \in Sessions \ {s} PROVE PlannedInOrder(o)'
    BY <1>3, SamePlan DEF TypeOK, PlaceInsufficient
  <2> QED BY <2>2, <2>3
<1>4. CASE PlaceCommit(s)
  BY <1>4, EndTxInOrder DEF PlaceCommit
<1> QED BY <1>1, <1>2, <1>3, <1>4 DEF Place

LEMMA CheckoutBeginInOrder ==
  ASSUME TypeOK, NEW s \in Sessions, NEW c \in Carts, NEW lines \in OrderRequests,
         \A o \in Sessions : PlannedInOrder(o), CheckoutBegin(s, c, lines)
  PROVE  \A o \in Sessions : PlannedInOrder(o)'
<1>1. /\ step[s] = "idle" /\ step'[s] = "pastZero" /\ locked'[s] = locked[s]
      /\ totals'[s] = Planned(c, lines)
  BY DEF TypeOK, CheckoutBegin, MayStart, Idle
<1>2. \A r \in StockRows : r \notin Gated => totals'[s][r] = 0
  BY <1>1 DEF Planned, Gated
<1>3. PlannedInOrder(s)'
  BY <1>1, <1>2 DEF PlannedInOrder, Gated
<1>4. ASSUME NEW o \in Sessions \ {s} PROVE PlannedInOrder(o)'
  BY SamePlan DEF TypeOK, CheckoutBegin
<1> QED BY <1>3, <1>4

LEMMA CheckoutPastZeroInOrder ==
  ASSUME LockInv, NEW s \in Sessions, \A o \in Sessions : PlannedInOrder(o), CheckoutPastZero(s)
  PROVE  \A o \in Sessions : PlannedInOrder(o)'
<1> USE DEF LockInv
<1>1. PICK e \in todo[s] : locked' = [locked EXCEPT ![s] = @ \union {e.row}]
  BY DEF CheckoutPastZero
<1>2. /\ step[s] = "pastZero" /\ step' = step /\ totals' = totals
      /\ locked'[s] = locked[s] \union {e.row}
  BY <1>1 DEF CheckoutPastZero, TypeOK
<1>3. e.row \notin Gated
  BY <1>2 DEF PastZeroTodo, Gated
<1>4. PlannedInOrder(s)'
  BY <1>2, <1>3 DEF PlannedInOrder, Gated
<1>5. ASSUME NEW o \in Sessions \ {s} PROVE PlannedInOrder(o)'
  BY SamePlan DEF TypeOK, CheckoutPastZero
<1> QED BY <1>4, <1>5

\* The plan's rows are put in the order of their locks before the first is locked.
LEMMA ReleaseExceptInOrder ==
  ASSUME TypeOK, NEW s \in Sessions, \A o \in Sessions : PlannedInOrder(o), CheckoutReleaseExcept(s)
  PROVE  \A o \in Sessions : PlannedInOrder(o)'
<1>1. /\ step[s] = "pastZero" /\ step'[s] = "hold" /\ todo'[s] = PlanRows(s)
      /\ locked'[s] = locked[s] /\ totals'[s] = totals[s]
  BY DEF TypeOK, CheckoutReleaseExcept
<1>2. \A e \in todo'[s] : e.row \in StockRows /\ totals[s][e.row] > 0 /\ e.at = LockRank[e.row]
  BY <1>1 DEF PlanRows
<1>3. \A e \in todo'[s] : e.row \in Gated
  BY <1>1, <1>2 DEF PlannedInOrder
<1>4. \A r \in locked'[s] : r \notin Gated
  BY <1>1 DEF PlannedInOrder
<1>5. PlannedInOrder(s)'
  BY <1>1, <1>2, <1>3, <1>4 DEF PlannedInOrder, Gated
<1>6. ASSUME NEW o \in Sessions \ {s} PROVE PlannedInOrder(o)'
  BY SamePlan DEF TypeOK, CheckoutReleaseExcept
<1> QED BY <1>5, <1>6

LEMMA CheckoutInOrder ==
  ASSUME LockInv, NEW s \in Sessions, \A o \in Sessions : PlannedInOrder(o), Checkout(s)
  PROVE  \A o \in Sessions : PlannedInOrder(o)'
<1>0. TypeOK
  BY DEF LockInv
<1>1. CASE \E c \in Carts : \E lines \in OrderRequests : CheckoutBegin(s, c, lines)
  BY <1>0, <1>1, CheckoutBeginInOrder
<1>2. CASE CheckoutPastZero(s)
  BY <1>2, CheckoutPastZeroInOrder
<1>3. CASE CheckoutReleaseExcept(s)
  BY <1>0, <1>3, ReleaseExceptInOrder
<1>4. CASE CheckoutHold(s)
  BY <1>0, <1>4, HoldGrantedInOrder DEF CheckoutHold
<1>5. CASE CheckoutRefused(s)
  BY <1>0, <1>5, EndTxInOrder DEF CheckoutRefused
<1>6. CASE CheckoutDecrement(s)
  <2>1. step'[s] = "flip"
    BY <1>0, <1>6 DEF TypeOK, CheckoutDecrement
  <2>2. PlannedInOrder(s)'
    BY <2>1 DEF PlannedInOrder
  <2>3. ASSUME NEW o \in Sessions \ {s} PROVE PlannedInOrder(o)'
    BY <1>0, <1>6, SamePlan DEF TypeOK, CheckoutDecrement
  <2> QED BY <2>2, <2>3
<1>7. CASE CheckoutCommit(s)
  BY <1>0, <1>7, EndTxInOrder DEF CheckoutCommit
<1> QED BY <1>1, <1>2, <1>3, <1>4, <1>5, <1>6, <1>7 DEF Checkout

LEMMA NextInOrder == OrderInv /\ [Next]_vars => OrderInv'
<1> SUFFICES ASSUME OrderInv, [Next]_vars PROVE OrderInv'
  OBVIOUS
<1> DEFINE InOrder == \A o \in Sessions : PlannedInOrder(o)'
<1>0. LockInv /\ LockInv' /\ TypeOK /\ \A o \in Sessions : PlannedInOrder(o)
  BY NextLocks DEF OrderInv, LockInv
<1>1. ASSUME NEW s \in Sessions, Place(s) PROVE InOrder
  BY <1>0, <1>1, PlaceInOrder
<1>2. ASSUME NEW s \in Sessions, Checkout(s) PROVE InOrder
  BY <1>0, <1>2, CheckoutInOrder
<1>3. ASSUME NEW s \in Sessions, Rollback(s) PROVE InOrder
  BY <1>0, <1>3, EndTxInOrder DEF Rollback
<1>4. ASSUME UNCHANGED <<step, todo, locked, totals>> PROVE InOrder
  BY <1>0, <1>4, SamePlan
<1>5. ASSUME NEW c \in Carts, Release(c) \/ Extend(c) PROVE InOrder
  BY <1>4, <1>5 DEF Release, Extend, txState
<1>6. ASSUME NEW r \in StockRows, NEW n \in 0 .. MaxRecount, Recount(r, n) PROVE InOrder
  BY <1>4, <1>6 DEF Recount, txState
<1>7. ASSUME Sweep \/ Tick \/ UNCHANGED vars PROVE InOrder
  BY <1>4, <1>7 DEF Sweep, Tick, txState, vars
<1>8. InOrder
  BY <1>1, <1>2, <1>3, <1>5, <1>6, <1>7 DEF Next
<1> QED BY <1>0, <1>8 DEF OrderInv

\* Of some checkouts one waits for none of the others: the one whose next row
\* comes last could only wait for a checkout whose next row comes later still.
LEMMA OrderRulesCyclesOut ==
  ASSUME IsFiniteSet(Sessions), OrderInv
  PROVE  NoRowCycle
<1> SUFFICES ASSUME NEW D \in (SUBSET {s \in Sessions : step[s] = "hold"}) \ {{}},
                    \A s \in D : \E t \in D \ {s} : WaitsForPlanned(s, t)
             PROVE  FALSE
  BY DEF NoRowCycle
<1> DEFINE Stuck(s, e) == e \in todo[s] /\ \E t \in D \ {s} : e.row \in locked[t]
<1>1. \A s \in D : \E e \in todo[s] : Stuck(s, e)
  BY DEF WaitsForPlanned
<1> DEFINE Want == [s \in D |-> CHOOSE e \in todo[s] : Stuck(s, e)]
           rank == [s \in D |-> LockRank[Want[s].row]]
<1> HIDE DEF Stuck
<1>2. \A s \in D : Stuck(s, Want[s])
  BY <1>1
<1> HIDE DEF Want
<1>3. \A s \in D : Want[s] \in todo[s] /\ Want[s].row \in Gated /\ Want[s].row \in StockRows
  BY <1>2 DEF Stuck, OrderInv, PlannedInOrder, Gated
<1>4. rank \in [D -> Nat]
  BY <1>3, ConstantsAssumption DEF ConstantsAssumption
<1>5. IsFiniteSet(D) /\ D # {}
  BY FS_Subset
<1>6. PICK s \in D : \A t \in D : rank[t] <= rank[s]
  <2> HIDE DEF rank
  <2> QED BY <1>4, <1>5, HighestRank
<1>7. PICK t \in D \ {s} : Want[s].row \in locked[t]
  BY <1>2 DEF Stuck
<1>8. LockRank[Want[s].row] <= LockRank[Want[t].row]
  BY <1>3, <1>7 DEF OrderInv, PlannedInOrder
<1>9. Want[s].row = Want[t].row
  <2>1. rank[t] = rank[s]
    BY <1>4, <1>6, <1>7, <1>8
  <2> QED BY <1>3, <1>7, <2>1, ConstantsAssumption DEF ConstantsAssumption
<1>10. PICK u \in D \ {t} : Want[t].row \in locked[u]
  BY <1>2, <1>7 DEF Stuck
<1> QED BY <1>7, <1>9, <1>10 DEF OrderInv, LockInv, LocksExclusive

\* Checkouts never wait for one another's stock rows in a circle while they take the
\* rows of their plans, with any finite number of connections, any layout of the
\* store, any requests, and items sold past zero or not: the sort in commitStock
\* (checkout_stock.go:226-239) does what its comment asks of it for those rows.
\* That other locks close circles all the same is what stock_variant_row shows.
THEOREM PlansNeverCircle ==
  ASSUME IsFiniteSet(Sessions)
  PROVE  Spec => []NoRowCycle
<1>1. Init => OrderInv
  BY InitLocks DEF OrderInv, Init, PlannedInOrder
<1>2. OrderInv /\ [Next]_vars => OrderInv'
  BY NextInOrder
<1>3. OrderInv => NoRowCycle
  BY OrderRulesCyclesOut
<1> QED BY <1>1, <1>2, <1>3, PTL DEF Spec
=============================================================================
