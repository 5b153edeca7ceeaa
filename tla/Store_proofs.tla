------------------------------ MODULE Store_proofs ------------------------------
(***************************************************************************)
(* What is proved of the store between requests, for every value of the    *)
(* constants: its checkouts and what pays for them (a coupon, a gift card, *)
(* points), the pictures of a cart and the erasure of its customer, and    *)
(* the parcels of one share of an order.                                   *)
(***************************************************************************)
EXTENDS Erasure, Parcels, FiniteSetTheorems, TLAPS

-----------------------------------------------------------------------------
(* Sums *)

\* A sum of numbers over a finite set is a number.
LEMMA TotalIsNumber ==
  ASSUME NEW f, NEW S, IsFiniteSet(S), \A x \in S : f[x] \in Nat
  PROVE  IsFiniteSet(Units(f, S)) /\ Total(f, S) \in Nat
<1> DEFINE Of(x) == {x} \X (1..f[x])
           T == {Of(x) : x \in S}
           g == [x \in S |-> Of(x)]
<1>1. g \in Surjection(S, T)
  BY DEF Surjection
<1>2. IsFiniteSet(T)
  <2> HIDE DEF g, T
  <2> QED
    BY <1>1, FS_Surjection
<1>3. \A x \in S : IsFiniteSet(Of(x))
  <2> SUFFICES ASSUME NEW x \in S PROVE IsFiniteSet({x} \X (1..f[x]))
    OBVIOUS
  <2>1. IsFiniteSet({x})
    BY FS_Singleton
  <2>2. f[x] \in Int
    OBVIOUS
  <2>3. IsFiniteSet(1..f[x])
    BY <2>2, FS_Interval
  <2> QED
    BY <2>1, <2>3, FS_Product
<1>4. IsFiniteSet(UNION T)
  <2>1. \A t \in T : IsFiniteSet(t)
    BY <1>3
  <2> HIDE DEF T
  <2> QED
    BY <1>2, <2>1, FS_UNION
<1>5. Units(f, S) = UNION T
  BY DEF Units
<1> QED
  BY <1>4, <1>5, FS_CardinalityType DEF Total

\* Only what is summed matters.
LEMMA TotalAgrees ==
  ASSUME NEW f, NEW g, NEW S, \A x \in S : f[x] = g[x]
  PROVE  Total(f, S) = Total(g, S)
<1>1. Units(f, S) = Units(g, S)
  BY DEF Units
<1> QED
  BY <1>1 DEF Total

\* A sum over one member more.
LEMMA TotalOneMore ==
  ASSUME NEW f, NEW S, NEW y, IsFiniteSet(S), y \notin S, f[y] \in Nat, \A x \in S : f[x] \in Nat
  PROVE  Total(f, S \union {y}) = Total(f, S) + f[y]
<1> DEFINE U == Units(f, S)
           V == {y} \X (1..f[y])
<1>1. Units(f, S \union {y}) = U \union V
  BY DEF Units
<1>2. U \intersect V = {}
  BY DEF Units
<1>3. IsFiniteSet(U) /\ Cardinality(U) = Total(f, S) /\ Total(f, S) \in Nat
  BY TotalIsNumber DEF Total
<1>4. IsFiniteSet(V) /\ Cardinality(V) = f[y]
  <2>1. IsFiniteSet({y}) /\ Cardinality({y}) = 1
    BY FS_Singleton
  <2>2. f[y] \in Int /\ f[y] >= 0
    OBVIOUS
  <2>3. IsFiniteSet(1..f[y]) /\ Cardinality(1..f[y]) = f[y]
    BY <2>2, FS_Interval
  <2>4. IsFiniteSet(V) /\ Cardinality(V) = Cardinality({y}) * Cardinality(1..f[y])
    BY <2>1, <2>3, FS_Product
  <2> QED
    BY <2>1, <2>2, <2>3, <2>4
<1>5. Cardinality(U \intersect V) = 0
  BY <1>2, FS_EmptySet
<1> HIDE DEF U, V
<1>6. Cardinality(U \union V) = Cardinality(U) + Cardinality(V) - Cardinality(U \intersect V)
  BY <1>3, <1>4, FS_Union
<1>7. Cardinality(U \union V) = Total(f, S) + f[y]
  BY <1>3, <1>4, <1>5, <1>6
<1>8. Total(f, S \union {y}) = Cardinality(U \union V)
  BY <1>1 DEF Total
<1> QED
  BY <1>7, <1>8

\* A sum of which one term changes.
LEMMA TotalOneChange ==
  ASSUME NEW f, NEW g, NEW S, NEW y \in S, IsFiniteSet(S),
         \A x \in S : f[x] \in Nat, g[y] \in Nat, \A x \in S \ {y} : g[x] = f[x]
  PROVE  Total(g, S) = Total(f, S) - f[y] + g[y]
<1> DEFINE R == S \ {y}
<1>1. IsFiniteSet(R) /\ y \notin R /\ R \union {y} = S
  BY FS_RemoveElement
<1>2. Total(f, R) = Total(g, R)
  BY TotalAgrees
<1>3. \A x \in R : f[x] \in Nat /\ g[x] \in Nat
  OBVIOUS
<1> HIDE DEF R
<1>4. Total(f, S) = Total(f, R) + f[y]
  BY <1>1, <1>3, TotalOneMore
<1>5. Total(g, S) = Total(g, R) + g[y]
  BY <1>1, <1>3, TotalOneMore
<1>6. Total(f, R) \in Nat
  BY <1>1, <1>3, TotalIsNumber
<1> QED
  BY <1>2, <1>4, <1>5, <1>6

\* A sum of nothing.
LEMMA TotalOfNothing ==
  ASSUME NEW f, NEW S, \A x \in S : f[x] = 0
  PROVE  Total(f, S) = 0
<1>1. Units(f, S) = {}
  BY DEF Units
<1> QED
  BY <1>1, FS_EmptySet DEF Total

-----------------------------------------------------------------------------
(* Where a request is, and what its transaction has locked *)

TxStages == {"artwork", "coupon", "increment", "card", "points", "commit"}
StageNames == TxStages \union {"idle", "lookup", "insert", "placed", "reused", "refused", "failed"}

\* What a request has done by the stage it is at.
HasClaimed(c) == Attached[c] # {} /\ stage[c] \in {"coupon", "increment", "card", "points", "commit"}
HasCounted(c) == "coupon" \in Uses[c] /\ stage[c] \in {"increment", "card", "points", "commit"}
HasCoupon(c) == "coupon" \in Uses[c] /\ stage[c] \in {"card", "points", "commit"}
HasDebited(c) == quote[c] # 0 /\ stage[c] \in {"points", "commit"}
HasRedeemed(c) == "points" \in Uses[c] /\ stage[c] = "commit"

StageTypes ==
  /\ stage \in [Checkouts -> StageNames] /\ DOMAIN quote = Checkouts
  /\ placed = {c \in Checkouts : stage[c] = "placed"}

\* No request is at a step it skips.
NoneSkipped == \A c \in Checkouts : stage[c] \in DOMAIN Position => ~Skips(c, stage[c])

\* A key has one open transaction or order.
OneOwner ==
  \A c, d \in Checkouts :
    /\ KeyOf[c] = KeyOf[d]
    /\ InTx(c) \/ c \in placed
    /\ InTx(d) \/ d \in placed
    => c = d

StageInv == StageTypes /\ NoneSkipped /\ OneOwner

\* The rows locked are those of the requests that have come that far.
LocksMatch ==
  /\ couponHolder \in Checkouts \union {Nobody} /\ \A c \in Checkouts : couponHolder = c <=> HasCoupon(c)
  /\ counting = {c \in Checkouts : HasCounted(c)}
  /\ cardHolder \in Checkouts \union {Nobody} /\ \A c \in Checkouts : cardHolder = c <=> HasDebited(c)
  /\ pointsHolder \in Checkouts \union {Nobody} /\ \A c \in Checkouts : pointsHolder = c <=> HasRedeemed(c)

LEMMA StepsInOrder ==
  /\ DOMAIN Position = TxStages \union {"insert"}
  /\ Position["insert"] = 0 /\ Position["artwork"] = 1 /\ Position["coupon"] = 2
  /\ Position["increment"] = 3 /\ Position["card"] = 4 /\ Position["points"] = 5
  /\ Position["commit"] = 6
  BY DEF Position, TxStages

\* A transaction goes on to the first step that is not skipped.
LEMMA GoesOnTo ==
  ASSUME StageTypes, NEW c \in Checkouts, NEW from \in DOMAIN Position, GoesOn(c, from)
  PROVE  \E to \in TxStages :
           /\ stage[c] = from /\ stage' = [stage EXCEPT ![c] = to] /\ stage'[c] = to
           /\ \A d \in Checkouts \ {c} : stage'[d] = stage[d]
           /\ ~Skips(c, to) /\ Position[from] < Position[to]
           /\ \A s \in DOMAIN Position :
                Position[from] < Position[s] /\ ~Skips(c, s) => Position[to] <= Position[s]
<1>1. PICK to \in DOMAIN Position :
        /\ Position[from] < Position[to] /\ ~Skips(c, to)
        /\ \A s \in DOMAIN Position : Between(s, from, to) => Skips(c, s)
        /\ Moves(c, from, to)
  BY DEF GoesOn
<1>2. stage[c] = from /\ stage' = [stage EXCEPT ![c] = to]
  BY <1>1 DEF Moves
<1>3. stage'[c] = to /\ \A d \in Checkouts \ {c} : stage'[d] = stage[d]
  BY <1>2 DEF StageTypes
<1>4. \A s \in DOMAIN Position : Position[s] \in 0..6
  BY StepsInOrder DEF TxStages
<1>5. to \in TxStages
  BY <1>1, <1>4, StepsInOrder
<1>6. \A s \in DOMAIN Position :
        Position[from] < Position[s] /\ ~Skips(c, s) => Position[to] <= Position[s]
  BY <1>1, <1>4 DEF Between
<1> QED
  BY <1>1, <1>2, <1>3, <1>5, <1>6

\* Each step adds its own lock to those the transaction has.
LEMMA GoesOnLocks ==
  ASSUME StageInv, NEW c \in Checkouts, NEW from \in DOMAIN Position, GoesOn(c, from), quote' = quote
  PROVE  /\ HasClaimed(c)' <=> HasClaimed(c) \/ from = "artwork"
         /\ HasCounted(c)' <=> HasCounted(c) \/ from = "coupon"
         /\ HasCoupon(c)' <=> HasCoupon(c) \/ from = "increment"
         /\ HasDebited(c)' <=> HasDebited(c) \/ from = "card"
         /\ HasRedeemed(c)' <=> HasRedeemed(c) \/ from = "points"
<1>1. PICK to \in TxStages :
        /\ stage[c] = from /\ stage'[c] = to
        /\ ~Skips(c, to) /\ Position[from] < Position[to]
        /\ \A s \in DOMAIN Position :
             Position[from] < Position[s] /\ ~Skips(c, s) => Position[to] <= Position[s]
  BY GoesOnTo DEF StageInv
<1>2. ~Skips(c, from)
  BY <1>1 DEF StageInv, NoneSkipped
<1>3. from \in TxStages \union {"insert"}
  BY StepsInOrder
<1>4. /\ Attached[c] # {} /\ Position[from] < 1 => to = "artwork"
      /\ "coupon" \in Uses[c] /\ Position[from] < 2 => to \in {"artwork", "coupon"}
      /\ "coupon" \in Uses[c] /\ Position[from] < 3 => to \in {"artwork", "coupon", "increment"}
      /\ quote[c] # 0 /\ Position[from] < 4 => to \in {"artwork", "coupon", "increment", "card"}
      /\ "points" \in Uses[c] /\ Position[from] < 5 => to # "commit"
  BY <1>1, StepsInOrder DEF Skips, TxStages
<1>5. HasClaimed(c)' <=> HasClaimed(c) \/ from = "artwork"
  BY <1>1, <1>2, <1>3, <1>4, StepsInOrder DEF Skips, TxStages, HasClaimed
<1>6. HasCounted(c)' <=> HasCounted(c) \/ from = "coupon"
  BY <1>1, <1>2, <1>3, <1>4, StepsInOrder DEF Skips, TxStages, HasCounted
<1>7. HasCoupon(c)' <=> HasCoupon(c) \/ from = "increment"
  BY <1>1, <1>2, <1>3, <1>4, StepsInOrder DEF Skips, TxStages, HasCoupon
<1>8. HasDebited(c)' <=> HasDebited(c) \/ from = "card"
  BY <1>1, <1>2, <1>3, <1>4, StepsInOrder DEF Skips, TxStages, HasDebited
<1>9. HasRedeemed(c)' <=> HasRedeemed(c) \/ from = "points"
  BY <1>1, <1>2, <1>3, <1>4, StepsInOrder DEF Skips, TxStages, HasRedeemed
<1> QED
  BY <1>5, <1>6, <1>7, <1>8, <1>9

\* A request that moves keeps the stages in order, if it may be where it goes.
LEMMA MoveKeepsStages ==
  ASSUME StageInv, NEW c \in Checkouts, NEW to \in StageNames,
         stage' = [stage EXCEPT ![c] = to], stage[c] # "placed",
         placed' = IF to = "placed" THEN placed \union {c} ELSE placed,
         DOMAIN quote' = Checkouts, \A d \in Checkouts \ {c} : quote'[d] = quote[d],
         to \in DOMAIN Position => ~Skips(c, to)',
         to \in TxStages \union {"placed"} =>
           InTx(c) \/ \A d \in SameKey(c) : ~InTx(d) /\ d \notin placed
  PROVE  StageInv'
<1>1. stage'[c] = to /\ \A d \in Checkouts \ {c} : stage'[d] = stage[d]
  BY DEF StageInv, StageTypes
<1>2. StageTypes'
  BY <1>1 DEF StageInv, StageTypes
<1>3. NoneSkipped'
  <2>1. \A d \in Checkouts \ {c}, s \in DOMAIN Position : Skips(d, s)' <=> Skips(d, s)
    BY DEF Skips
  <2>2. DOMAIN Position' = DOMAIN Position
    BY DEF Position
  <2> QED
    BY <1>1, <2>1, <2>2 DEF StageInv, NoneSkipped
<1>4. OneOwner'
  <2>1. \A d \in Checkouts \ {c} :
          /\ InTx(d)' <=> InTx(d)
          /\ d \in placed' <=> d \in placed
    BY <1>1 DEF InTx
  <2>2. InTx(c)' \/ c \in placed' => to \in TxStages \union {"placed"}
    BY <1>1 DEF InTx, TxStages, StageInv, StageTypes
  <2>3. ASSUME NEW d \in Checkouts \ {c}, KeyOf[c] = KeyOf[d], InTx(c)' \/ c \in placed'
        PROVE  ~InTx(d) /\ d \notin placed
    <3>1. CASE InTx(c)
      BY <2>3, <3>1 DEF StageInv, OneOwner
    <3>2. CASE \A e \in SameKey(c) : ~InTx(e) /\ e \notin placed
      BY <2>3, <3>2 DEF SameKey
    <3> QED
      BY <2>2, <2>3, <3>1, <3>2
  <2> QED
    BY <2>1, <2>3 DEF StageInv, OneOwner
<1> QED
  BY <1>2, <1>3, <1>4 DEF StageInv

LEMMA CheckoutKeepsStages ==
  ASSUME StageInv, NEW c \in Checkouts, CheckoutStep(c)
  PROVE  StageInv'
<1>1. CASE Price(c)
  <2>1. /\ stage[c] = "idle" /\ stage' = [stage EXCEPT ![c] = "lookup"] /\ placed' = placed
        /\ DOMAIN quote' = Checkouts /\ \A d \in Checkouts \ {c} : quote'[d] = quote[d]
    BY <1>1 DEF Price, Moves, StageInv, StageTypes
  <2> QED
    BY <2>1, StepsInOrder, MoveKeepsStages DEF StageNames, TxStages
<1>2. CASE PriceRefused(c)
  <2>1. /\ stage[c] = "idle" /\ stage' = [stage EXCEPT ![c] = "refused"] /\ UNCHANGED <<placed, quote>>
    BY <1>2 DEF PriceRefused, Moves
  <2> QED
    BY <2>1, StepsInOrder, MoveKeepsStages DEF StageNames, TxStages, StageInv, StageTypes
<1>3. CASE Lookup(c)
  <2>1. PICK to \in {"reused", "insert"} :
          /\ stage[c] = "lookup" /\ stage' = [stage EXCEPT ![c] = to] /\ UNCHANGED <<placed, quote>>
    BY <1>3 DEF Lookup, Moves
  <2>2. ~Skips(c, "insert")'
    BY DEF Skips
  <2> QED
    BY <2>1, <2>2, StepsInOrder, MoveKeepsStages DEF StageNames, TxStages, StageInv, StageTypes
<1>4. CASE Commit(c)
  <2>1. /\ stage[c] = "commit" /\ stage' = [stage EXCEPT ![c] = "placed"]
        /\ placed' = placed \union {c} /\ UNCHANGED quote
    BY <1>4 DEF Commit, Moves
  <2>2. InTx(c)
    BY <2>1 DEF InTx
  <2> QED
    BY <2>1, <2>2, StepsInOrder, MoveKeepsStages DEF StageNames, TxStages, StageInv, StageTypes
<1>5. CASE Rollback(c)
  <2>1. /\ stage[c] # "placed" /\ stage' = [stage EXCEPT ![c] = "failed"] /\ UNCHANGED <<placed, quote>>
    BY <1>5 DEF Rollback, Fails, InTx
  <2> QED
    BY <2>1, StepsInOrder, MoveKeepsStages DEF StageNames, TxStages, StageInv, StageTypes
<1>6. ASSUME NEW from \in DOMAIN Position, GoesOn(c, from), UNCHANGED <<quote, placed>>,
             from = "insert" => \A d \in SameKey(c) : ~InTx(d) /\ d \notin placed
      PROVE  StageInv'
  <2>1. PICK to \in TxStages :
          stage[c] = from /\ stage' = [stage EXCEPT ![c] = to] /\ ~Skips(c, to)
    BY <1>6, GoesOnTo DEF StageInv
  <2>2. InTx(c) \/ from = "insert"
    BY <2>1, StepsInOrder DEF InTx, TxStages
  <2>3. ~Skips(c, to)' /\ stage[c] # "placed" /\ to \in StageNames /\ to # "placed"
    BY <1>6, <2>1, StepsInOrder DEF Skips, StageNames, TxStages
  <2> QED
    BY <1>6, <2>1, <2>2, <2>3, MoveKeepsStages DEF StageInv, StageTypes
<1>7. CASE InsertOrder(c)
  <2>1. \A d \in SameKey(c) : ~InTx(d) /\ d \notin placed
    BY <1>7 DEF InsertOrder, Unique
  <2> QED
    BY <1>6, <1>7, <2>1, StepsInOrder DEF InsertOrder
<1>8. CASE AttachArtwork(c)
  BY <1>6, <1>8, StepsInOrder DEF AttachArtwork, TxStages
<1>9. CASE ApplyCoupon(c)
  BY <1>6, <1>9, StepsInOrder DEF ApplyCoupon, TxStages
<1>10. CASE IncrementCoupon(c)
  BY <1>6, <1>10, StepsInOrder DEF IncrementCoupon, TxStages
<1>11. CASE DebitCard(c)
  BY <1>6, <1>11, StepsInOrder DEF DebitCard, TxStages
<1>12. CASE RedeemPointsTx(c)
  BY <1>6, <1>12, StepsInOrder DEF RedeemPointsTx, TxStages
<1> QED
  BY <1>1, <1>2, <1>3, <1>4, <1>5, <1>7, <1>8, <1>9, <1>10, <1>11, <1>12 DEF CheckoutStep

\* What a request has done changes in its own steps only.
LEMMA OthersStay ==
  ASSUME StageInv, NEW c \in Checkouts, CheckoutStep(c)
  PROVE  \A d \in Checkouts \ {c} :
           /\ stage'[d] = stage[d] /\ quote'[d] = quote[d]
           /\ d \in placed' <=> d \in placed
           /\ HasClaimed(d)' <=> HasClaimed(d)
           /\ HasCounted(d)' <=> HasCounted(d)
           /\ HasCoupon(d)' <=> HasCoupon(d)
           /\ HasDebited(d)' <=> HasDebited(d)
           /\ HasRedeemed(d)' <=> HasRedeemed(d)
<1>1. \/ \E to \in StageNames : stage' = [stage EXCEPT ![c] = to]
      \/ \E from \in DOMAIN Position : GoesOn(c, from)
  BY StepsInOrder DEF CheckoutStep, Price, PriceRefused, Lookup, InsertOrder, AttachArtwork, ApplyCoupon,
         IncrementCoupon, DebitCard, RedeemPointsTx, Commit, Rollback, Moves, StageNames, TxStages
<1>2. \A d \in Checkouts \ {c} : stage'[d] = stage[d]
  BY <1>1, GoesOnTo DEF StageInv, StageTypes
<1>3. placed' = placed \/ placed' = placed \union {c}
  BY DEF CheckoutStep, Price, PriceRefused, Lookup, InsertOrder, AttachArtwork, ApplyCoupon,
         IncrementCoupon, DebitCard, RedeemPointsTx, Commit, Rollback
<1>4. quote' = quote \/ \E q : quote' = [quote EXCEPT ![c] = q]
  BY DEF CheckoutStep, Price, PriceRefused, Lookup, InsertOrder, AttachArtwork, ApplyCoupon,
         IncrementCoupon, DebitCard, RedeemPointsTx, Commit, Rollback
<1>5. \A d \in Checkouts \ {c} : quote'[d] = quote[d] /\ (d \in placed' <=> d \in placed)
  BY <1>3, <1>4 DEF StageInv, StageTypes
<1> QED
  BY <1>2, <1>5 DEF HasClaimed, HasCounted, HasCoupon, HasDebited, HasRedeemed

\* Outside its transaction a request has nothing.
LEMMA NothingOutside ==
  ASSUME NEW c \in Checkouts, stage[c] \notin TxStages
  PROVE  ~HasClaimed(c) /\ ~HasCounted(c) /\ ~HasCoupon(c) /\ ~HasDebited(c) /\ ~HasRedeemed(c)
  BY DEF HasClaimed, HasCounted, HasCoupon, HasDebited, HasRedeemed, TxStages

LEMMA NothingOutsideNext ==
  ASSUME NEW c \in Checkouts, stage'[c] \notin TxStages
  PROVE  ~HasClaimed(c)' /\ ~HasCounted(c)' /\ ~HasCoupon(c)' /\ ~HasDebited(c)' /\ ~HasRedeemed(c)'
  BY DEF HasClaimed, HasCounted, HasCoupon, HasDebited, HasRedeemed, TxStages

\* A request that is not in its transaction moves without touching a lock.
LEMMA QuietKeepsLocks ==
  ASSUME StageInv, LocksMatch, NEW c \in Checkouts, CheckoutStep(c),
         stage[c] \notin TxStages, stage'[c] \notin TxStages,
         UNCHANGED <<couponHolder, counting, cardHolder, pointsHolder>>
  PROVE  LocksMatch'
<1>1. /\ ~HasCounted(c) /\ ~HasCoupon(c) /\ ~HasDebited(c) /\ ~HasRedeemed(c)
      /\ ~HasCounted(c)' /\ ~HasCoupon(c)' /\ ~HasDebited(c)' /\ ~HasRedeemed(c)'
  BY NothingOutside, NothingOutsideNext
<1>2. \A d \in Checkouts : /\ HasCounted(d)' <=> HasCounted(d)
                           /\ HasCoupon(d)' <=> HasCoupon(d)
                           /\ HasDebited(d)' <=> HasDebited(d)
                           /\ HasRedeemed(d)' <=> HasRedeemed(d)
  BY <1>1, OthersStay
<1> QED
  BY <1>2 DEF LocksMatch

\* The end of a transaction lets go of its locks.
LEMMA EndKeepsLocks ==
  ASSUME StageInv, LocksMatch, NEW c \in Checkouts, CheckoutStep(c), stage'[c] \notin TxStages,
         couponHolder' = LetGo(c, couponHolder), counting' = counting \ {c},
         cardHolder' = LetGo(c, cardHolder), pointsHolder' = LetGo(c, pointsHolder)
  PROVE  LocksMatch'
<1>1. ~HasCounted(c)' /\ ~HasCoupon(c)' /\ ~HasDebited(c)' /\ ~HasRedeemed(c)'
  BY NothingOutsideNext
<1>2. \A d \in Checkouts \ {c} : /\ HasCounted(d)' <=> HasCounted(d)
                                 /\ HasCoupon(d)' <=> HasCoupon(d)
                                 /\ HasDebited(d)' <=> HasDebited(d)
                                 /\ HasRedeemed(d)' <=> HasRedeemed(d)
  BY OthersStay
<1>3. /\ couponHolder' \in Checkouts \union {Nobody}
      /\ \A d \in Checkouts : couponHolder' = d <=> HasCoupon(d)'
  BY <1>1, <1>2, ShoppersAssumption DEF LocksMatch, LetGo
<1>4. counting' = {d \in Checkouts : HasCounted(d)'}
  BY <1>1, <1>2 DEF LocksMatch
<1>5. /\ cardHolder' \in Checkouts \union {Nobody}
      /\ \A d \in Checkouts : cardHolder' = d <=> HasDebited(d)'
  BY <1>1, <1>2, ShoppersAssumption DEF LocksMatch, LetGo
<1>6. /\ pointsHolder' \in Checkouts \union {Nobody}
      /\ \A d \in Checkouts : pointsHolder' = d <=> HasRedeemed(d)'
  BY <1>1, <1>2, ShoppersAssumption DEF LocksMatch, LetGo
<1> QED
  BY <1>3, <1>4, <1>5, <1>6 DEF LocksMatch

LEMMA CheckoutKeepsLocks ==
  ASSUME StageInv, LocksMatch, NEW c \in Checkouts, CheckoutStep(c)
  PROVE  LocksMatch'
<1>1. CASE Price(c) \/ PriceRefused(c) \/ Lookup(c)
  <2>1. stage[c] \notin TxStages /\ stage'[c] \notin TxStages
    BY <1>1 DEF Price, PriceRefused, Lookup, Moves, TxStages, StageInv, StageTypes
  <2>2. UNCHANGED <<couponHolder, counting, cardHolder, pointsHolder>>
    BY <1>1 DEF Price, PriceRefused, Lookup, couponVars, cardVars, loyaltyVars
  <2> QED
    BY <2>1, <2>2, QuietKeepsLocks
<1>2. CASE Commit(c)
  <2>1. stage'[c] \notin TxStages
    BY <1>2 DEF Commit, Moves, TxStages, StageInv, StageTypes
  <2>2. couponHolder' = LetGo(c, couponHolder) /\ counting' = counting \ {c}
    BY <1>2 DEF Commit, CouponCommit
  <2>3. cardHolder' = LetGo(c, cardHolder)
    BY <1>2 DEF Commit, CardCommit, LetGo, cardVars
  <2>4. pointsHolder' = LetGo(c, pointsHolder)
    BY <1>2 DEF Commit, PointsCommit, LetGo, loyaltyVars
  <2> QED
    BY <2>1, <2>2, <2>3, <2>4, EndKeepsLocks
<1>3. CASE Rollback(c)
  <2>1. stage'[c] \notin TxStages
    BY <1>3 DEF Rollback, TxStages, StageInv, StageTypes
  <2>2. couponHolder' = LetGo(c, couponHolder) /\ counting' = counting \ {c}
    BY <1>3 DEF Rollback, CouponRollback
  <2>3. cardHolder' = LetGo(c, cardHolder) /\ pointsHolder' = LetGo(c, pointsHolder)
    BY <1>3 DEF Rollback, CardRollback, PointsRollback, LetGo
  <2> QED
    BY <2>1, <2>2, <2>3, EndKeepsLocks
<1>4. ASSUME NEW from \in DOMAIN Position, GoesOn(c, from), quote' = quote,
             couponHolder' = (IF from = "increment" THEN c ELSE couponHolder),
             from = "increment" => couponHolder = Nobody,
             counting' = (IF from = "coupon" THEN counting \union {c} ELSE counting),
             cardHolder' = (IF from = "card" THEN c ELSE cardHolder),
             from = "card" => cardHolder = Nobody,
             pointsHolder' = (IF from = "points" THEN c ELSE pointsHolder),
             from = "points" => pointsHolder = Nobody
      PROVE  LocksMatch'
  <2>1. /\ HasCounted(c)' <=> HasCounted(c) \/ from = "coupon"
        /\ HasCoupon(c)' <=> HasCoupon(c) \/ from = "increment"
        /\ HasDebited(c)' <=> HasDebited(c) \/ from = "card"
        /\ HasRedeemed(c)' <=> HasRedeemed(c) \/ from = "points"
    BY <1>4, GoesOnLocks
  <2>2. \A d \in Checkouts \ {c} : /\ HasCounted(d)' <=> HasCounted(d)
                                   /\ HasCoupon(d)' <=> HasCoupon(d)
                                   /\ HasDebited(d)' <=> HasDebited(d)
                                   /\ HasRedeemed(d)' <=> HasRedeemed(d)
    BY OthersStay
  <2>3. /\ couponHolder' \in Checkouts \union {Nobody}
        /\ \A d \in Checkouts : couponHolder' = d <=> HasCoupon(d)'
    BY <1>4, <2>1, <2>2, ShoppersAssumption DEF LocksMatch
  <2>4. counting' = {d \in Checkouts : HasCounted(d)'}
    BY <1>4, <2>1, <2>2 DEF LocksMatch
  <2>5. /\ cardHolder' \in Checkouts \union {Nobody}
        /\ \A d \in Checkouts : cardHolder' = d <=> HasDebited(d)'
    BY <1>4, <2>1, <2>2, ShoppersAssumption DEF LocksMatch
  <2>6. /\ pointsHolder' \in Checkouts \union {Nobody}
        /\ \A d \in Checkouts : pointsHolder' = d <=> HasRedeemed(d)'
    BY <1>4, <2>1, <2>2, ShoppersAssumption DEF LocksMatch
  <2> QED
    BY <2>3, <2>4, <2>5, <2>6 DEF LocksMatch
<1>5. CASE InsertOrder(c)
  <2>1. GoesOn(c, "insert") /\ UNCHANGED <<quote, couponHolder, counting, cardHolder, pointsHolder>>
    BY <1>5 DEF InsertOrder, couponVars, cardVars, loyaltyVars
  <2> QED
    BY <1>4, <2>1, StepsInOrder
<1>6. CASE AttachArtwork(c)
  <2>1. GoesOn(c, "artwork") /\ UNCHANGED <<quote, couponHolder, counting, cardHolder, pointsHolder>>
    BY <1>6 DEF AttachArtwork, couponVars, cardVars, loyaltyVars
  <2> QED
    BY <1>4, <2>1, StepsInOrder DEF TxStages
<1>7. CASE ApplyCoupon(c)
  <2>1. /\ GoesOn(c, "coupon") /\ UNCHANGED <<quote, couponHolder, cardHolder, pointsHolder>>
        /\ counting' = counting \union {c}
    BY <1>7 DEF ApplyCoupon, CountCustomerUsage, cardVars, loyaltyVars
  <2> QED
    BY <1>4, <2>1, StepsInOrder DEF TxStages
<1>8. CASE IncrementCoupon(c)
  <2>1. /\ GoesOn(c, "increment") /\ UNCHANGED <<quote, counting, cardHolder, pointsHolder>>
        /\ couponHolder = Nobody /\ couponHolder' = c
    BY <1>8 DEF IncrementCoupon, IncrementUsage, cardVars, loyaltyVars
  <2> QED
    BY <1>4, <2>1, StepsInOrder DEF TxStages
<1>9. CASE DebitCard(c)
  <2>1. /\ GoesOn(c, "card") /\ UNCHANGED <<quote, couponHolder, counting, pointsHolder>>
        /\ cardHolder = Nobody /\ cardHolder' = c
    BY <1>9 DEF DebitCard, Debit, RowFree, couponVars, loyaltyVars
  <2> QED
    BY <1>4, <2>1, StepsInOrder DEF TxStages
<1>10. CASE RedeemPointsTx(c)
  <2>1. /\ GoesOn(c, "points") /\ UNCHANGED <<quote, couponHolder, counting, cardHolder>>
        /\ pointsHolder = Nobody /\ pointsHolder' = c
    BY <1>10 DEF RedeemPointsTx, RedeemPoints, couponVars, cardVars
  <2> QED
    BY <1>4, <2>1, StepsInOrder DEF TxStages
<1> QED
  BY <1>1, <1>2, <1>3, <1>5, <1>6, <1>7, <1>8, <1>9, <1>10 DEF CheckoutStep

-----------------------------------------------------------------------------
(* The steps of a shop *)

shopVars == <<valueVars, erasureVars>>
LockVars == <<stage, quote, placed, couponHolder, counting, cardHolder, pointsHolder>>

CheckoutInv == StageInv /\ LocksMatch

LEMMA CheckoutInitInv == ShopInit => CheckoutInv
<1> SUFFICES ASSUME ShopInit PROVE CheckoutInv
  OBVIOUS
<1>1. /\ \A c \in Checkouts : stage[c] = "idle"
      /\ stage \in [Checkouts -> StageNames] /\ DOMAIN quote = Checkouts /\ placed = {}
      /\ couponHolder = Nobody /\ counting = {} /\ cardHolder = Nobody /\ pointsHolder = Nobody
  BY DEF ShopInit, CheckoutInit, CouponInit, CardInit, LoyaltyInit, StageNames
<1>2. StageInv
  BY <1>1, StepsInOrder DEF StageInv, StageTypes, NoneSkipped, OneOwner, InTx, TxStages
<1>3. LocksMatch
  BY <1>1, NothingOutside, ShoppersAssumption DEF LocksMatch, TxStages
<1> QED
  BY <1>2, <1>3 DEF CheckoutInv

\* Only a checkout moves a checkout.
LEMMA OthersKeepLocks ==
  ASSUME \/ MerchantEdits /\ UNCHANGED <<cardVars, loyaltyVars, artworkVars, checkoutVars, erasureVars>>
         \/ CardEvents /\ UNCHANGED <<couponVars, loyaltyVars, artworkVars, checkoutVars, erasureVars>>
         \/ LoyaltyEvents /\ UNCHANGED <<couponVars, cardVars, artworkVars, checkoutVars, erasureVars>>
         \/ UNCHANGED <<couponVars, cardVars, loyaltyVars, checkoutVars>>
         \/ UNCHANGED shopVars
  PROVE  UNCHANGED LockVars
<1>1. CASE MerchantEdits /\ UNCHANGED <<cardVars, loyaltyVars, artworkVars, checkoutVars, erasureVars>>
  BY <1>1 DEF MerchantEdits, PatchCoupon, SaveCoupon, SoftDisable, cardVars, loyaltyVars, checkoutVars,
     LockVars
<1>2. CASE CardEvents /\ UNCHANGED <<couponVars, loyaltyVars, artworkVars, checkoutVars, erasureVars>>
  BY <1>2 DEF CardEvents, Issue, Purchase, ProviderPays, ActivateAfterPayment, ProviderRefunds,
       ApplyPurchaseRefund, SetStatus, CreditOrder, couponVars, loyaltyVars, checkoutVars, LockVars
<1>3. CASE LoyaltyEvents /\ UNCHANGED <<couponVars, cardVars, artworkVars, checkoutVars, erasureVars>>
  BY <1>3 DEF LoyaltyEvents, Enroll, AwardReads, AwardPoints, AwardLost, AdjustUp, AdjustDown, Ages,
       ExpiryCycle, couponVars, cardVars, checkoutVars, LockVars
<1>4. CASE UNCHANGED <<couponVars, cardVars, loyaltyVars, checkoutVars>>
  BY <1>4 DEF couponVars, cardVars, loyaltyVars, checkoutVars, LockVars
<1>5. CASE UNCHANGED shopVars
  BY <1>5 DEF shopVars, valueVars, couponVars, cardVars, loyaltyVars, checkoutVars, LockVars
<1> QED
  BY <1>1, <1>2, <1>3, <1>4, <1>5

LEMMA UntouchedLocks ==
  ASSUME CheckoutInv, UNCHANGED LockVars
  PROVE  CheckoutInv'
<1>1. StageInv'
  BY DEF CheckoutInv, LockVars, StageInv, StageTypes, NoneSkipped, OneOwner, InTx, Skips, Position
<1>2. LocksMatch'
  BY DEF CheckoutInv, LockVars, LocksMatch, HasCoupon, HasCounted, HasDebited, HasRedeemed
<1> QED
  BY <1>1, <1>2 DEF CheckoutInv

LEMMA ShopKeepsLocks ==
  ASSUME CheckoutInv, [ShopNext]_shopVars
  PROVE  CheckoutInv'
<1>1. CASE \E c \in Checkouts : CheckoutStep(c)
  BY <1>1, CheckoutKeepsStages, CheckoutKeepsLocks DEF CheckoutInv
<1>2. CASE UNCHANGED LockVars
  BY <1>2, UntouchedLocks
<1> QED
  BY <1>1, <1>2, OthersKeepLocks DEF ShopNext

-----------------------------------------------------------------------------
(* The coupon *)

CouponRows == [status : {"active", "disabled"}, limit : 0..UsageLimit, used : Nat]

CouponTypes ==
  /\ coupon \in CouponRows /\ overwritten \in Nat /\ overlapped \subseteq Checkouts
  /\ patch = NotPatching \/ (patch \in CouponRows /\ patch.used <= coupon.used)

\* The row counts its uses, and has room for that of the transaction that has it.
UsesCounted ==
  /\ usages = {c \in placed : "coupon" \in Uses[c]}
  /\ Cardinality(usages) = coupon.used + overwritten
  /\ coupon.used <= UsageLimit
  /\ couponHolder # Nobody => coupon.used < UsageLimit

\* Of the checkouts of one customer that saw no other, one is under way, and it
\* left room for itself.
Alone(S, c) == {d \in S \ overlapped : EmailOf[d] = EmailOf[c]}
RoomForOne ==
  \A c \in counting \ overlapped :
    /\ Cardinality(Alone(usages, c)) < PerCustomer
    /\ \A d \in counting \ overlapped : EmailOf[d] = EmailOf[c] => d = c

CouponInv == CouponTypes /\ UsesCounted /\ RoomForOne /\ PerCustomerKept

LEMMA UsagesFinite ==
  ASSUME CheckoutInv, CouponInv
  PROVE  /\ IsFiniteSet(usages) /\ Cardinality(usages) \in Nat /\ usages \subseteq Checkouts
         /\ \A c : /\ IsFiniteSet(Alone(usages, c)) /\ Cardinality(Alone(usages, c)) \in Nat
                   /\ UsedBy(EmailOf[c]) \in Nat
                   /\ Cardinality(Alone(usages, c)) <= UsedBy(EmailOf[c])
<1>1. usages \subseteq Checkouts
  BY DEF CheckoutInv, StageInv, StageTypes, CouponInv, UsesCounted
<1>2. IsFiniteSet(usages) /\ Cardinality(usages) \in Nat
  BY <1>1, ShoppersAssumption, FS_Subset, FS_CardinalityType
<1>3. ASSUME NEW c
      PROVE  /\ IsFiniteSet(Alone(usages, c)) /\ Cardinality(Alone(usages, c)) \in Nat
             /\ UsedBy(EmailOf[c]) \in Nat
             /\ Cardinality(Alone(usages, c)) <= UsedBy(EmailOf[c])
  <2> DEFINE T == {d \in usages : EmailOf[d] = EmailOf[c]}
  <2>1. IsFiniteSet(T) /\ Cardinality(T) \in Nat
    BY <1>2, FS_Subset, FS_CardinalityType
  <2>2. Alone(usages, c) \in SUBSET T
    BY DEF Alone
  <2>3. IsFiniteSet(Alone(usages, c)) /\ Cardinality(Alone(usages, c)) <= Cardinality(T)
    BY <2>1, <2>2, FS_Subset
  <2>4. Cardinality(Alone(usages, c)) \in Nat
    BY <2>3, FS_CardinalityType
  <2>5. UsedBy(EmailOf[c]) = Cardinality(T)
    BY DEF UsedBy
  <2> QED
    BY <2>1, <2>3, <2>4, <2>5
<1> QED
  BY <1>1, <1>2, <1>3

LEMMA CouponInitInv == ShopInit => CouponInv
<1> SUFFICES ASSUME ShopInit PROVE CouponInv
  OBVIOUS
<1>1. /\ coupon = [status |-> "active", limit |-> UsageLimit, used |-> 0]
      /\ usages = {} /\ counting = {} /\ overlapped = {} /\ couponHolder = Nobody
      /\ patch = NotPatching /\ overwritten = 0 /\ placed = {}
  BY DEF ShopInit, CouponInit, CheckoutInit
<1>2. Cardinality({}) = 0
  BY FS_EmptySet
<1>3. CouponTypes
  BY <1>1, CouponAssumption DEF CouponTypes, CouponRows
<1>4. UsesCounted /\ RoomForOne
  BY <1>1, <1>2, CouponAssumption DEF UsesCounted, RoomForOne
<1>5. PerCustomerKept
  <2> SUFFICES ASSUME NEW c \in Checkouts
               PROVE  Cardinality({d \in usages \ overlapped : EmailOf[d] = EmailOf[c]}) <= PerCustomer
    BY DEF PerCustomerKept
  <2>1. {d \in usages \ overlapped : EmailOf[d] = EmailOf[c]} = {}
    BY <1>1
  <2> QED
    BY <1>2, <2>1, CouponAssumption
<1> QED
  BY <1>3, <1>4, <1>5 DEF CouponInv

\* Nothing the coupon's invariant speaks of is touched.
LEMMA UntouchedCoupon ==
  ASSUME CouponInv, UNCHANGED couponVars, placed' = placed
  PROVE  CouponInv'
  BY DEF CouponInv, couponVars, CouponTypes, UsesCounted, RoomForOne, Alone, PerCustomerKept

\* The merchant's edits: what a Patch writes over was used since it read.
LEMMA EditsKeepCoupon ==
  ASSUME CheckoutInv, CouponInv, MerchantEdits, placed' = placed
  PROVE  CouponInv'
<1>1. UNCHANGED <<usages, couponHolder, counting, overlapped>>
  BY DEF MerchantEdits, PatchCoupon, SaveCoupon, SoftDisable
<1>2. RoomForOne' /\ PerCustomerKept'
  BY <1>1 DEF CouponInv, RoomForOne, Alone, PerCustomerKept
<1>3. CASE PatchCoupon
  <2>1. patch' = coupon /\ UNCHANGED <<coupon, overwritten>>
    BY <1>3 DEF PatchCoupon
  <2>2. CouponTypes'
    BY <1>1, <2>1 DEF CouponInv, CouponTypes, CouponRows
  <2>3. UsesCounted'
    BY <1>1, <2>1 DEF CouponInv, UsesCounted
  <2> QED
    BY <1>2, <2>2, <2>3 DEF CouponInv
<1>4. ASSUME NEW status \in {"active", "disabled"}, NEW limit \in PatchLimits \union {patch.limit},
             SaveCoupon(status, limit)
      PROVE  CouponInv'
  <2>1. /\ patch \in CouponRows /\ patch.used <= coupon.used /\ couponHolder = Nobody
        /\ coupon' = [patch EXCEPT !.status = status, !.limit = limit]
        /\ overwritten' = overwritten + coupon.used - patch.used /\ patch' = NotPatching
    BY <1>4 DEF SaveCoupon, CouponInv, CouponTypes
  <2>2. limit \in 0..UsageLimit
    BY <2>1, CouponAssumption DEF CouponRows
  <2>3. coupon' \in CouponRows /\ coupon'.used = patch.used
    BY <2>1, <2>2 DEF CouponRows
  <2>4. coupon.used \in Nat /\ patch.used \in Nat /\ overwritten \in Nat
    BY <2>1 DEF CouponInv, CouponTypes, CouponRows
  <2>5. overwritten' \in Nat /\ coupon'.used + overwritten' = coupon.used + overwritten
    BY <2>1, <2>3, <2>4
  <2>6. CouponTypes'
    BY <1>1, <2>1, <2>3, <2>5 DEF CouponInv, CouponTypes
  <2>7. UsesCounted'
    BY <1>1, <2>1, <2>3, <2>4, <2>5, CouponAssumption DEF CouponInv, UsesCounted
  <2> QED
    BY <1>2, <2>6, <2>7 DEF CouponInv
<1>5. CASE SoftDisable
  <2>1. coupon' = [coupon EXCEPT !.status = "disabled"] /\ UNCHANGED <<patch, overwritten>>
    BY <1>5 DEF SoftDisable
  <2>2. coupon' \in CouponRows /\ coupon'.used = coupon.used
    BY <2>1 DEF CouponInv, CouponTypes, CouponRows
  <2>3. CouponTypes'
    BY <1>1, <2>1, <2>2 DEF CouponInv, CouponTypes
  <2>4. UsesCounted'
    BY <1>1, <2>1, <2>2 DEF CouponInv, UsesCounted
  <2> QED
    BY <1>2, <2>3, <2>4 DEF CouponInv
<1> QED
  BY <1>3, <1>4, <1>5 DEF MerchantEdits

\* A checkout counts its customer's uses.
LEMMA CountKeepsCoupon ==
  ASSUME CheckoutInv, CouponInv, NEW c \in Checkouts, Applicable(c), CountCustomerUsage(c), placed' = placed,
         c \notin usages
  PROVE  CouponInv'
<1>1. /\ counting' = counting \union {c}
      /\ UNCHANGED <<coupon, usages, couponHolder, patch, overwritten>>
  BY DEF CountCustomerUsage
<1>2. UsedBy(EmailOf[c]) < PerCustomer
  BY DEF Applicable
<1>3. CouponTypes'
  BY <1>1 DEF CountCustomerUsage, CouponInv, CouponTypes
<1>4. UsesCounted'
  BY <1>1 DEF CouponInv, UsesCounted
<1>5. overlapped' = overlapped \/ overlapped' = overlapped \union {c}
  BY DEF CountCustomerUsage
<1>6. usages \ overlapped' = usages \ overlapped
  BY <1>5
<1>7. PerCustomerKept'
  BY <1>1, <1>6 DEF CouponInv, PerCustomerKept
<1>8. RoomForOne'
  <2>1. \A d : Alone(usages, d)' = Alone(usages, d)
    BY <1>1, <1>6 DEF Alone
  <2>2. CASE \E d \in counting : EmailOf[d] = EmailOf[c]
    <3>1. counting' \ overlapped' \subseteq counting \ overlapped
      BY <1>1, <2>2 DEF CountCustomerUsage
    <3> QED
      BY <1>1, <2>1, <3>1 DEF CouponInv, RoomForOne
  <2>3. CASE ~\E d \in counting : EmailOf[d] = EmailOf[c]
    <3>1. overlapped' = overlapped
      BY <2>3 DEF CountCustomerUsage
    <3>2. \A d \in counting : EmailOf[d] # EmailOf[c]
      BY <2>3
    <3>3. Cardinality(Alone(usages, c)) < PerCustomer
      BY <1>2, UsagesFinite, CouponAssumption
    <3> QED
      BY <1>1, <2>1, <3>1, <3>2, <3>3 DEF CouponInv, RoomForOne
  <2> QED
    BY <2>2, <2>3
<1> QED
  BY <1>3, <1>4, <1>7, <1>8 DEF CouponInv

\* It takes the row where there is room.
LEMMA IncrementKeepsCoupon ==
  ASSUME CouponInv, NEW c \in Checkouts, IncrementUsage(c), placed' = placed
  PROVE  CouponInv'
<1>1. /\ coupon.used < coupon.limit
      /\ UNCHANGED <<coupon, usages, counting, overlapped, patch, overwritten>>
  BY DEF IncrementUsage, HasUsageCapacity
<1>2. coupon.used < UsageLimit
  BY <1>1, CouponAssumption DEF CouponInv, CouponTypes, CouponRows
<1> QED
  BY <1>1, <1>2 DEF CouponInv, CouponTypes, UsesCounted, RoomForOne, Alone, PerCustomerKept

\* It fails, and nothing was used.
LEMMA RollbackKeepsCoupon ==
  ASSUME CouponInv, NEW c \in Checkouts, CouponRollback(c), placed' = placed
  PROVE  CouponInv'
<1>1. /\ couponHolder' \in {couponHolder, Nobody} /\ counting' \subseteq counting
      /\ UNCHANGED <<coupon, usages, overlapped, patch, overwritten>>
  BY DEF CouponRollback, LetGo
<1> QED
  BY <1>1 DEF CouponInv, CouponTypes, UsesCounted, RoomForOne, Alone, PerCustomerKept

\* It commits: the use is counted with the row that has it.
LEMMA CommitKeepsCoupon ==
  ASSUME CheckoutInv, CouponInv, NEW c \in Checkouts, CouponCommit(c), stage[c] = "commit",
         placed' = placed \union {c}
  PROVE  CouponInv'
<1>1. /\ couponHolder = c <=> "coupon" \in Uses[c]
      /\ c \in counting <=> "coupon" \in Uses[c]
      /\ c \notin placed /\ c \notin usages /\ c # Nobody
  BY ShoppersAssumption
     DEF CheckoutInv, StageInv, StageTypes, LocksMatch, HasCoupon, HasCounted, CouponInv, UsesCounted
<1>2. /\ counting' = counting \ {c} /\ couponHolder' \in {Nobody, couponHolder}
      /\ couponHolder' # Nobody => couponHolder # c
      /\ UNCHANGED <<overlapped, patch, overwritten>>
  BY DEF CouponCommit, LetGo
<1>3. CASE couponHolder # c
  <2>1. UNCHANGED <<coupon, usages>>
    BY <1>3 DEF CouponCommit
  <2>2. usages' = {d \in placed' : "coupon" \in Uses[d]}
    BY <1>1, <1>3, <2>1 DEF CouponInv, UsesCounted
  <2>3. CouponTypes' /\ PerCustomerKept'
    BY <1>2, <2>1 DEF CouponInv, CouponTypes, PerCustomerKept
  <2>4. UsesCounted'
    BY <1>2, <2>1, <2>2 DEF CouponInv, UsesCounted
  <2>5. RoomForOne'
    BY <1>2, <2>1 DEF CouponInv, RoomForOne, Alone
  <2> QED
    BY <2>3, <2>4, <2>5 DEF CouponInv
<1>4. CASE couponHolder = c
  <2>1. coupon' = [coupon EXCEPT !.used = @ + 1] /\ usages' = usages \union {c} /\ couponHolder' = Nobody
    BY <1>4 DEF CouponCommit, LetGo
  <2>2. coupon' \in CouponRows /\ coupon'.used = coupon.used + 1 /\ coupon.used \in Nat
    BY <2>1 DEF CouponInv, CouponTypes, CouponRows
  <2>3. CouponTypes'
    <3>1. patch \in CouponRows /\ patch.used <= coupon.used => patch.used <= coupon.used + 1
      BY <2>2 DEF CouponRows
    <3> QED
      BY <1>2, <2>2, <3>1 DEF CouponInv, CouponTypes
  <2>4. UsesCounted'
    <3>1. Cardinality(usages') = Cardinality(usages) + 1
      BY <1>1, <2>1, UsagesFinite, FS_AddElement
    <3>2. usages' = {d \in placed' : "coupon" \in Uses[d]}
      BY <1>1, <1>4, <2>1 DEF CouponInv, UsesCounted
    <3>3. Cardinality(usages) = coupon.used + overwritten /\ coupon.used < UsageLimit /\ overwritten \in Nat
      BY <1>1, <1>4 DEF CouponInv, UsesCounted, CouponTypes
    <3> QED
      BY <1>2, <2>1, <2>2, <3>1, <3>2, <3>3, CouponAssumption DEF UsesCounted
  <2>5. CASE c \in overlapped
    <3>1. usages' \ overlapped' = usages \ overlapped /\ counting' \ overlapped' = counting \ overlapped
      BY <1>2, <2>1, <2>5
    <3>2. \A d : Alone(usages, d)' = Alone(usages, d)
      BY <3>1 DEF Alone
    <3>3. RoomForOne' /\ PerCustomerKept'
      BY <3>1, <3>2 DEF CouponInv, RoomForOne, PerCustomerKept
    <3> QED
      BY <2>3, <2>4, <3>3 DEF CouponInv
  <2>6. CASE c \notin overlapped
    <3>1. /\ Cardinality(Alone(usages, c)) < PerCustomer
          /\ \A d \in counting \ overlapped : EmailOf[d] = EmailOf[c] => d = c
      BY <1>1, <1>4, <2>6 DEF CouponInv, RoomForOne
    <3>2. \A d : EmailOf[d] # EmailOf[c] => Alone(usages, d)' = Alone(usages, d)
      BY <1>2, <2>1 DEF Alone
    <3>3. \A d : EmailOf[d] = EmailOf[c] => Alone(usages, d)' = Alone(usages, c) \union {c}
      BY <1>2, <2>1, <2>6 DEF Alone
    <3>4. Cardinality(Alone(usages, c) \union {c}) = Cardinality(Alone(usages, c)) + 1
      <4>1. c \notin Alone(usages, c)
        BY <1>1 DEF Alone
      <4>2. IsFiniteSet(Alone(usages, c))
        BY UsagesFinite
      <4> QED
        BY <4>1, <4>2, FS_AddElement
    <3>5. Cardinality(Alone(usages, c) \union {c}) <= PerCustomer
      BY <3>1, <3>4, UsagesFinite, CouponAssumption
    <3>6. PerCustomerKept'
      <4>1. \A d \in Checkouts : Cardinality(Alone(usages, d)) <= PerCustomer
        BY DEF CouponInv, PerCustomerKept, Alone
      <4>2. \A d \in Checkouts : Cardinality(Alone(usages, d)') <= PerCustomer
        BY <3>2, <3>3, <3>5, <4>1
      <4> QED
        BY <4>2 DEF PerCustomerKept, Alone
    <3>7. RoomForOne'
      <4>1. \A d \in counting' \ overlapped' : d \in counting \ overlapped /\ EmailOf[d] # EmailOf[c]
        BY <1>2, <3>1
      <4> QED
        BY <1>2, <3>2, <4>1 DEF CouponInv, RoomForOne
    <3> QED
      BY <2>3, <2>4, <3>6, <3>7 DEF CouponInv
  <2> QED
    BY <2>5, <2>6
<1> QED
  BY <1>3, <1>4

\* Every step of the shop keeps the coupon's books.
LEMMA ShopKeepsCoupon ==
  ASSUME CheckoutInv, CouponInv, [ShopNext]_shopVars
  PROVE  CouponInv'
<1>1. ASSUME NEW c \in Checkouts, CheckoutStep(c)
      PROVE  CouponInv'
  <2>1. CASE ApplyCoupon(c)
    <3>1. stage[c] = "coupon"
      BY <2>1 DEF ApplyCoupon, GoesOn, Moves
    <3>2. c \notin usages
      BY <3>1 DEF CheckoutInv, StageInv, StageTypes, CouponInv, UsesCounted
    <3> QED
      BY <2>1, <3>2, CountKeepsCoupon DEF ApplyCoupon
  <2>2. CASE IncrementCoupon(c)
    BY <2>2, IncrementKeepsCoupon DEF IncrementCoupon
  <2>3. CASE Commit(c)
    BY <2>3, CommitKeepsCoupon DEF Commit, Moves
  <2>4. CASE Rollback(c)
    BY <2>4, RollbackKeepsCoupon DEF Rollback
  <2>5. CASE Price(c) \/ PriceRefused(c) \/ Lookup(c) \/ InsertOrder(c) \/ AttachArtwork(c)
             \/ DebitCard(c) \/ RedeemPointsTx(c)
    BY <2>5, UntouchedCoupon DEF Price, PriceRefused, Lookup, InsertOrder, AttachArtwork, DebitCard,
       RedeemPointsTx
  <2> QED
    BY <1>1, <2>1, <2>2, <2>3, <2>4, <2>5 DEF CheckoutStep
<1>2. CASE MerchantEdits /\ UNCHANGED checkoutVars
  BY <1>2, EditsKeepCoupon DEF checkoutVars
<1>3. CASE UNCHANGED <<couponVars, checkoutVars>>
  BY <1>3, UntouchedCoupon DEF checkoutVars
<1>4. CASE UNCHANGED shopVars
  BY <1>4, UntouchedCoupon DEF shopVars, valueVars, checkoutVars
<1> QED
  BY <1>1, <1>2, <1>3, <1>4 DEF ShopNext

LEMMA CouponInvSafe == CheckoutInv /\ CouponInv => CouponSafe
<1> SUFFICES ASSUME CheckoutInv, CouponInv PROVE CouponSafe
  OBVIOUS
<1>1. UsageCounted
  BY CouponAssumption DEF CouponInv, UsesCounted, CouponTypes, CouponRows, UsageCounted
<1> QED
  BY <1>1 DEF CouponInv, CouponSafe

-----------------------------------------------------------------------------
(* The gift card *)

CardStates == {"absent", "pending", "active", "disabled", "depleted", "refunded"}

CardRows == [status : CardStates, balance : Nat, refunded : Nat, linked : BOOLEAN]
Ledgers == [purchase : Nat, redeem : Nat, refund : Nat, clawback : Nat]

CardTypes ==
  /\ card \in CardRows /\ cardLedger \in Ledgers
  /\ spent \in [Checkouts -> Nat] /\ quote \in [Checkouts -> Nat]
  /\ provider \in [paid : BOOLEAN, refunds : SUBSET Nat] /\ 0 \in provider.refunds

\* Before it is funded, the card has no history.
Unfunded == card.status \in {"absent", "pending"}
UnfundedIsEmpty ==
  /\ Unfunded => card.balance = 0 /\ cardLedger = EmptyLedger /\ \A c \in Checkouts : spent[c] = 0
  /\ card.status = "absent" => ~card.linked

\* The transaction that has the card found on it what it quoted.
DebitFits == \A c \in Checkouts : cardHolder = c => card.status = "active" /\ quote[c] <= card.balance

\* What orders redeemed.
RedeemedByOrders ==
  /\ \A c \in Checkouts : spent[c] \in (IF c \in placed THEN {0, quote[c]} ELSE {0})
  /\ cardLedger.redeem = Total(quote, placed)

CardInv == CardTypes /\ UnfundedIsEmpty /\ DebitFits /\ RedeemedByOrders /\ CardSafe

LEMMA SumsAreNumbers ==
  ASSUME CheckoutInv, CardInv
  PROVE  /\ Total(spent, Checkouts) \in Nat /\ Total(quote, placed) \in Nat
         /\ IsFiniteSet(placed) /\ placed \subseteq Checkouts
<1>1. IsFiniteSet(placed) /\ placed \subseteq Checkouts
  BY ShoppersAssumption, FS_Subset DEF CheckoutInv, StageInv, StageTypes
<1>2. (\A c \in Checkouts : spent[c] \in Nat) /\ (\A c \in Checkouts : quote[c] \in Nat)
  BY DEF CardInv, CardTypes
<1> QED
  BY <1>1, <1>2, TotalIsNumber, ShoppersAssumption

LEMMA CardConstants ==
  /\ NoCard = [status |-> "absent", balance |-> 0, refunded |-> 0, linked |-> FALSE]
  /\ IssuedCard \in CardRows
  /\ IssuedCard.status = "active" /\ IssuedCard.balance = InitialBalance
  /\ IssuedCard.refunded = 0 /\ ~IssuedCard.linked
  /\ EmptyLedger = [purchase |-> 0, redeem |-> 0, refund |-> 0, clawback |-> 0]
  /\ Funded = [purchase |-> InitialBalance, redeem |-> 0, refund |-> 0, clawback |-> 0]
<1>1. NoCard = [status |-> "absent", balance |-> 0, refunded |-> 0, linked |-> FALSE]
  BY DEF NoCard
<1>2. /\ IssuedCard \in CardRows
      /\ IssuedCard.status = "active" /\ IssuedCard.balance = InitialBalance
      /\ IssuedCard.refunded = 0 /\ ~IssuedCard.linked
  BY GiftCardAssumption DEF NoCard, IssuedCard, CardStates, CardRows
<1>3. EmptyLedger = [purchase |-> 0, redeem |-> 0, refund |-> 0, clawback |-> 0]
  BY DEF EmptyLedger
<1>4. Funded = [purchase |-> InitialBalance, redeem |-> 0, refund |-> 0, clawback |-> 0]
  BY DEF EmptyLedger, Funded
<1> QED
  BY <1>1, <1>2, <1>3, <1>4

LEMMA CardInitInv == ShopInit => CardInv
<1> SUFFICES ASSUME ShopInit PROVE CardInv
  OBVIOUS
<1>1. /\ \/ card = NoCard /\ cardLedger = EmptyLedger
         \/ card = IssuedCard /\ cardLedger = Funded
      /\ cardHolder = Nobody /\ spent = [c \in Checkouts |-> 0]
      /\ provider = [paid |-> FALSE, refunds |-> {0}]
      /\ quote = [c \in Checkouts |-> 0] /\ placed = {}
  BY DEF ShopInit, CardInit, CheckoutInit
<1>2. /\ NoCard = [status |-> "absent", balance |-> 0, refunded |-> 0, linked |-> FALSE]
      /\ IssuedCard \in CardRows
      /\ IssuedCard.status = "active" /\ IssuedCard.balance = InitialBalance
      /\ IssuedCard.refunded = 0 /\ ~IssuedCard.linked
      /\ EmptyLedger = [purchase |-> 0, redeem |-> 0, refund |-> 0, clawback |-> 0]
      /\ Funded = [purchase |-> InitialBalance, redeem |-> 0, refund |-> 0, clawback |-> 0]
  BY CardConstants
<1>3. Total(spent, Checkouts) = 0 /\ Total(quote, placed) = 0
  BY <1>1, TotalOfNothing
<1>4. CardTypes
  <2>1. card \in CardRows
    <3>1. CASE card = NoCard
      BY <1>2, <3>1 DEF CardStates, CardRows
    <3>2. CASE card = IssuedCard
      BY <1>2, <3>2, GiftCardAssumption DEF CardStates
    <3> QED
      BY <1>1, <3>1, <3>2
  <2>2. cardLedger \in Ledgers
    BY <1>1, <1>2, GiftCardAssumption DEF Ledgers
  <2> QED
    BY <1>1, <2>1, <2>2 DEF CardTypes
<1>5. UnfundedIsEmpty
  BY <1>1, <1>2 DEF UnfundedIsEmpty, Unfunded
<1>6. DebitFits
  BY <1>1, ShoppersAssumption DEF DebitFits
<1>7. RedeemedByOrders
  BY <1>1, <1>2, <1>3 DEF RedeemedByOrders
<1>8. CardSafe
  BY <1>1, <1>2, <1>3, GiftCardAssumption
     DEF CardSafe, LedgerExplains, PaidForFirst, TakenOnce, VoidIsEmpty
<1> QED
  BY <1>4, <1>5, <1>6, <1>7, <1>8 DEF CardInv

LEMMA UntouchedCard ==
  ASSUME CardInv, UNCHANGED <<cardVars, quote, placed>>
  PROVE  CardInv'
  BY DEF CardInv, cardVars, CardTypes, UnfundedIsEmpty, Unfunded, DebitFits, RedeemedByOrders, CardSafe,
         LedgerExplains, PaidForFirst, TakenOnce, VoidIsEmpty

\* The fields of the card and its ledger, as the proofs below need them.
LEMMA CardFields ==
  ASSUME CheckoutInv, CardInv
  PROVE  /\ card.status \in CardStates /\ card.linked \in BOOLEAN
         /\ card.balance \in Nat /\ card.refunded \in Nat
         /\ cardLedger.purchase \in Nat /\ cardLedger.redeem \in Nat
         /\ cardLedger.refund \in Nat /\ cardLedger.clawback \in Nat
         /\ card.balance =
              cardLedger.purchase - cardLedger.redeem + cardLedger.refund - cardLedger.clawback
         /\ cardLedger.redeem - cardLedger.refund = Total(spent, Checkouts)
         /\ Total(spent, Checkouts) \in Nat
         /\ cardLedger.purchase <= InitialBalance /\ cardLedger.clawback <= card.refunded
         /\ InitialBalance \in Nat /\ InitialBalance > 0
<1>1. /\ card.status \in CardStates /\ card.linked \in BOOLEAN
      /\ card.balance \in Nat /\ card.refunded \in Nat
  BY DEF CardInv, CardTypes, CardRows, Ledgers
<1>2. /\ cardLedger.purchase \in Nat /\ cardLedger.redeem \in Nat
      /\ cardLedger.refund \in Nat /\ cardLedger.clawback \in Nat
  BY DEF CardInv, CardTypes, CardRows, Ledgers
<1> QED
  BY <1>1, <1>2, SumsAreNumbers, GiftCardAssumption DEF CardInv, CardSafe, LedgerExplains, PaidForFirst,
     TakenOnce

\* What an event may make of a card that no transaction has: its balance is
\* explained by its ledger, and money counts once.
EventFits ==
  /\ card' \in CardRows
  /\ cardLedger' \in Ledgers
  /\ cardLedger'.redeem = cardLedger.redeem /\ cardLedger'.refund = cardLedger.refund
  /\ UNCHANGED <<spent, quote, placed, provider>> /\ \A c \in Checkouts : cardHolder' # c
  /\ card'.refunded \in provider.refunds
  /\ card'.balance =
       cardLedger'.purchase - cardLedger.redeem + cardLedger.refund - cardLedger'.clawback
  /\ cardLedger'.purchase <= InitialBalance /\ cardLedger'.clawback <= card'.refunded
  /\ card'.status = "refunded" => card'.balance = 0
  /\ card'.status = "absent" => ~card'.linked
  /\ card'.status \in {"absent", "pending"} => Unfunded /\ cardLedger' = cardLedger /\ card'.balance = 0

LEMMA EventKeepsCard ==
  ASSUME CardInv, EventFits
  PROVE  CardInv'
<1>1. CardTypes'
  BY DEF EventFits, CardInv, CardTypes
<1>2. UnfundedIsEmpty'
  BY DEF EventFits, CardInv, UnfundedIsEmpty, Unfunded, EmptyLedger
<1>3. DebitFits' /\ RedeemedByOrders'
  BY DEF EventFits, CardInv, DebitFits, RedeemedByOrders
<1>4. CardSafe'
  <2>1. LedgerExplains'
    BY DEF EventFits, CardInv, CardSafe, LedgerExplains
  <2>2. PaidForFirst'
    BY <1>2 DEF EventFits, PaidForFirst, UnfundedIsEmpty, Unfunded
  <2>3. TakenOnce' /\ VoidIsEmpty'
    BY DEF EventFits, TakenOnce, VoidIsEmpty
  <2> QED
    BY <2>1, <2>2, <2>3 DEF CardSafe
<1> QED
  BY <1>1, <1>2, <1>3, <1>4 DEF CardInv

\* An event of a card that is not locked finds no transaction on it.
LEMMA NobodyOnCard ==
  ASSUME CardInv, RowFree \/ card.status # "active", cardHolder' = cardHolder
  PROVE  \A c \in Checkouts : cardHolder' # c
  BY ShoppersAssumption DEF RowFree, CardInv, DebitFits

LEMMA IssueKeepsCard ==
  ASSUME CheckoutInv, CardInv, Issue, UNCHANGED <<quote, placed>>
  PROVE  CardInv'
<1>1. /\ card' = IssuedCard /\ cardLedger' = Funded /\ card.status = "absent"
      /\ UNCHANGED <<cardHolder, spent, provider>>
  BY DEF Issue
<1>2. cardLedger = EmptyLedger /\ card.balance = 0 /\ 0 \in Nat
  BY <1>1 DEF CardInv, UnfundedIsEmpty, Unfunded
<1>3. /\ cardLedger'.purchase = InitialBalance /\ cardLedger'.redeem = 0 /\ cardLedger'.refund = 0
      /\ cardLedger'.clawback = 0 /\ cardLedger.redeem = 0 /\ cardLedger.refund = 0
      /\ cardLedger.clawback = 0 /\ cardLedger' \in Ledgers
  BY <1>1, <1>2, CardConstants, GiftCardAssumption DEF Ledgers
<1>4. 0 \in provider.refunds
  BY DEF CardInv, CardTypes
<1> QED
  BY <1>1, <1>3, <1>4, CardConstants, GiftCardAssumption, NobodyOnCard, EventKeepsCard DEF EventFits

LEMMA PurchaseKeepsCard ==
  ASSUME CheckoutInv, CardInv, NEW linked \in BOOLEAN, Purchase(linked), UNCHANGED <<quote, placed>>
  PROVE  CardInv'
<1>1. /\ card' = [NoCard EXCEPT !.status = "pending", !.linked = linked] /\ card.status = "absent"
      /\ UNCHANGED <<cardHolder, cardLedger, spent, provider>>
  BY DEF Purchase
<1>2. /\ card' \in CardRows /\ card'.status = "pending" /\ card'.balance = 0 /\ card'.refunded = 0
  BY <1>1 DEF NoCard, CardRows, CardStates
<1>3. cardLedger = EmptyLedger /\ cardLedger \in Ledgers /\ Unfunded
  BY <1>1 DEF CardInv, CardTypes, UnfundedIsEmpty, Unfunded
<1>4. 0 \in provider.refunds
  BY DEF CardInv, CardTypes
<1> QED
  BY <1>1, <1>2, <1>3, <1>4, CardConstants, GiftCardAssumption, NobodyOnCard, EventKeepsCard DEF EventFits

LEMMA ProviderKeepsCard ==
  ASSUME CardInv, UNCHANGED <<card, cardHolder, cardLedger, spent, quote, placed>>,
         \/ ProviderPays
         \/ \E total \in 1..InitialBalance : ProviderRefunds(total)
  PROVE  CardInv'
<1>1. provider' \in [paid : BOOLEAN, refunds : SUBSET Nat] /\ provider.refunds \subseteq provider'.refunds
  <2>1. ASSUME NEW total \in 1..InitialBalance, ProviderRefunds(total)
        PROVE  provider' \in [paid : BOOLEAN, refunds : SUBSET Nat] /\ provider.refunds \subseteq provider'.refunds
    <3>1. provider' = [provider EXCEPT !.refunds = @ \union {total}] /\ total \in Nat
      BY <2>1, GiftCardAssumption DEF ProviderRefunds
    <3> QED
      BY <3>1 DEF CardInv, CardTypes
  <2> QED
    BY <2>1 DEF ProviderPays, CardInv, CardTypes
<1> QED
  BY <1>1 DEF CardInv, CardTypes, UnfundedIsEmpty, Unfunded, DebitFits, RedeemedByOrders, CardSafe,
     LedgerExplains, PaidForFirst, TakenOnce, VoidIsEmpty

LEMMA ActivateKeepsCard ==
  ASSUME CheckoutInv, CardInv, ActivateAfterPayment, UNCHANGED <<quote, placed>>
  PROVE  CardInv'
<1>1. /\ card.status = "pending" /\ RowFree
      /\ card' = [card EXCEPT !.status = "active", !.balance = InitialBalance]
      /\ cardLedger' = [cardLedger EXCEPT !.purchase = @ + InitialBalance]
      /\ UNCHANGED <<cardHolder, spent, provider>>
  BY DEF ActivateAfterPayment, AwaitsPayment
<1>2. /\ card' \in CardRows /\ card'.status = "active" /\ card'.balance = InitialBalance
      /\ card'.refunded = card.refunded
  BY <1>1, GiftCardAssumption DEF CardInv, CardTypes, CardRows, CardStates
<1>3. cardLedger = EmptyLedger
  BY <1>1 DEF CardInv, UnfundedIsEmpty, Unfunded
<1>4. /\ cardLedger'.purchase = InitialBalance /\ cardLedger'.clawback = 0
      /\ cardLedger'.redeem = 0 /\ cardLedger'.refund = 0
      /\ cardLedger.redeem = 0 /\ cardLedger.refund = 0 /\ cardLedger' \in Ledgers
  BY <1>1, <1>3, GiftCardAssumption DEF EmptyLedger, Ledgers
<1>5. card'.refunded \in provider.refunds /\ card'.refunded \in Nat
  BY <1>1, <1>2, CardFields DEF CardInv, CardSafe, TakenOnce
<1> QED
  BY <1>1, <1>2, <1>4, <1>5, GiftCardAssumption, NobodyOnCard, EventKeepsCard DEF EventFits

\* A refund of the purchase takes what is new of it, as far as it is there.
LEMMA PurchaseRefundKeepsCard ==
  ASSUME CheckoutInv, CardInv, NEW total \in 1..InitialBalance, ApplyPurchaseRefund(total),
         UNCHANGED <<quote, placed>>
  PROVE  CardInv'
<1> DEFINE taken == Clawback(total)
<1>1. /\ total \in provider.refunds /\ card.linked /\ RowFree /\ card.status # "refunded" /\ Delta(total) > 0
      /\ card' = [card EXCEPT !.status = StatusAfter(total), !.balance = @ - taken, !.refunded = total]
      /\ UNCHANGED <<cardHolder, spent, provider>>
      /\ card.status = "pending" => cardLedger' = cardLedger
      /\ card.status # "pending" => cardLedger' = [cardLedger EXCEPT !.clawback = @ + taken]
  BY DEF ApplyPurchaseRefund
<1>2. total \in Nat /\ total > card.refunded /\ Delta(total) = total - card.refunded
  BY <1>1, CardFields DEF Delta
<1>3. /\ taken \in Nat /\ taken <= card.balance
      /\ total = InitialBalance => taken = card.balance
      /\ total # InitialBalance => taken <= total - card.refunded
  BY <1>2, CardFields DEF Clawback, Lesser
<1>4. StatusAfter(total) \in CardStates /\ (total # InitialBalance => StatusAfter(total) \in {card.status, "depleted"})
      /\ (StatusAfter(total) \in {"absent", "pending"} => StatusAfter(total) = card.status)
      /\ (StatusAfter(total) = "refunded" => total = InitialBalance)
  BY <1>1, CardFields DEF StatusAfter, CardStates
<1> HIDE DEF taken
<1>5. /\ card' \in CardRows /\ card'.status = StatusAfter(total)
      /\ card'.balance = card.balance - taken /\ card'.refunded = total /\ card'.linked = card.linked
  <2>1. card.balance - taken \in Nat
    BY <1>3, CardFields
  <2>2. card \in CardRows
    BY DEF CardInv, CardTypes
  <2>3. /\ card'.status = StatusAfter(total) /\ card'.balance = card.balance - taken
        /\ card'.refunded = total /\ card'.linked = card.linked
    BY <1>1, <2>2 DEF CardRows
  <2>4. card' \in CardRows
    BY <1>1, <1>2, <1>4, <2>1, <2>2 DEF CardRows
  <2> QED
    BY <2>3, <2>4
<1>6. card'.refunded \in provider.refunds
  BY <1>1, <1>5
<1>7. \A c \in Checkouts : cardHolder' # c
  BY <1>1, NobodyOnCard
<1>8. CASE card.status = "pending"
  <2>1. card.balance = 0 /\ cardLedger = EmptyLedger /\ cardLedger' = cardLedger /\ Unfunded
    BY <1>1, <1>8 DEF CardInv, UnfundedIsEmpty, Unfunded
  <2>2. /\ card'.balance = 0 /\ cardLedger'.purchase = 0 /\ cardLedger'.redeem = 0
        /\ cardLedger'.refund = 0 /\ cardLedger'.clawback = 0 /\ cardLedger' \in Ledgers
    BY <1>3, <1>5, <2>1 DEF EmptyLedger, Ledgers
  <2>3. card'.status # "absent"
    BY <1>4, <1>5, <1>8
  <2> QED
    BY <1>1, <1>2, <1>5, <1>6, <1>7, <2>1, <2>2, <2>3, GiftCardAssumption, EventKeepsCard DEF EventFits
<1>9. CASE card.status # "pending"
  <2>1. card.status # "absent"
    BY <1>1 DEF CardInv, UnfundedIsEmpty
  <2>2. /\ cardLedger'.purchase = cardLedger.purchase /\ cardLedger'.redeem = cardLedger.redeem
        /\ cardLedger'.refund = cardLedger.refund /\ cardLedger'.clawback = cardLedger.clawback + taken
        /\ cardLedger' \in Ledgers
    BY <1>1, <1>3, <1>9, CardFields DEF CardInv, CardTypes, Ledgers
  <2>3. cardLedger'.clawback <= total
    BY <1>2, <1>3, <2>2, CardFields
  <2>4. card'.status \notin {"absent", "pending"}
    BY <1>4, <1>5, <1>9, <2>1
  <2>5. card'.status = "refunded" => card'.balance = 0
    BY <1>3, <1>4, <1>5, CardFields
  <2>6. card'.balance = cardLedger'.purchase - cardLedger.redeem + cardLedger.refund - cardLedger'.clawback
    BY <1>3, <1>5, <2>2, CardFields
  <2> QED
    BY <1>1, <1>5, <1>6, <1>7, <2>2, <2>3, <2>4, <2>5, <2>6, CardFields, EventKeepsCard DEF EventFits
<1> QED
  BY <1>8, <1>9

LEMMA StatusKeepsCard ==
  ASSUME CheckoutInv, CardInv, UNCHANGED <<quote, placed>>,
         SetStatus("active", "disabled") \/ SetStatus("disabled", "active")
  PROVE  CardInv'
<1>1. PICK from \in {"active", "disabled"}, to \in {"active", "disabled"} :
        /\ RowFree /\ card.status = from /\ card' = [card EXCEPT !.status = to]
        /\ UNCHANGED <<cardHolder, cardLedger, spent, provider>>
  BY DEF SetStatus
<1>2. /\ card' \in CardRows /\ card'.status = to /\ card'.balance = card.balance
      /\ card'.refunded = card.refunded /\ card'.linked = card.linked
  BY <1>1 DEF CardInv, CardTypes, CardRows, CardStates
<1>3. cardLedger \in Ledgers /\ card.refunded \in provider.refunds
  BY DEF CardInv, CardTypes, CardSafe, TakenOnce
<1> QED
  BY <1>1, <1>2, <1>3, CardFields, NobodyOnCard, EventKeepsCard DEF EventFits

\* What one order has on the card changes what all have by as much.
LEMMA SpentChanges ==
  ASSUME NEW f \in [Checkouts -> Nat], NEW g \in [Checkouts -> Nat], NEW c \in Checkouts,
         \A d \in Checkouts \ {c} : g[d] = f[d]
  PROVE  Total(g, Checkouts) = Total(f, Checkouts) - f[c] + g[c]
<1>1. IsFiniteSet(Checkouts) /\ (\A d \in Checkouts : f[d] \in Nat) /\ g[c] \in Nat
  BY ShoppersAssumption
<1> QED
  BY <1>1, TotalOneChange

\* An order's refund credits the card what the order redeemed, once.
LEMMA CreditKeepsCard ==
  ASSUME CheckoutInv, CardInv, NEW c \in Checkouts, CreditOrder(c), UNCHANGED <<quote, placed>>
  PROVE  CardInv'
<1>1. /\ RowFree /\ spent[c] > 0 /\ card.status # "refunded"
      /\ card' = [card EXCEPT !.balance = @ + spent[c],
                              !.status = IF @ = "depleted" THEN "active" ELSE @]
      /\ cardLedger' = [cardLedger EXCEPT !.refund = @ + spent[c]]
      /\ spent' = [spent EXCEPT ![c] = 0]
      /\ UNCHANGED <<cardHolder, provider>>
  BY DEF CreditOrder
<1>2. /\ spent \in [Checkouts -> Nat] /\ spent[c] \in Nat /\ card \in CardRows /\ cardLedger \in Ledgers
  BY DEF CardInv, CardTypes
<1>3. /\ card'.balance = card.balance + spent[c] /\ card'.refunded = card.refunded /\ card'.linked = card.linked
      /\ card'.status \in {card.status, "active"} /\ card' \in CardRows
  <2>1. /\ card'.balance = card.balance + spent[c] /\ card'.refunded = card.refunded
        /\ card'.linked = card.linked /\ card'.status \in {card.status, "active"}
    BY <1>1, <1>2 DEF CardRows
  <2>2. card.balance + spent[c] \in Nat
    BY <1>2, CardFields
  <2>3. card' \in CardRows
    BY <1>1, <1>2, <2>2 DEF CardRows, CardStates
  <2> QED
    BY <2>1, <2>3
<1>4. /\ cardLedger'.purchase = cardLedger.purchase /\ cardLedger'.redeem = cardLedger.redeem
      /\ cardLedger'.refund = cardLedger.refund + spent[c] /\ cardLedger'.clawback = cardLedger.clawback
      /\ cardLedger' \in Ledgers
  BY <1>1, <1>2 DEF Ledgers
<1>5. /\ spent' \in [Checkouts -> Nat] /\ spent'[c] = 0 /\ \A d \in Checkouts \ {c} : spent'[d] = spent[d]
  BY <1>1, <1>2
<1>6. Total(spent', Checkouts) = Total(spent, Checkouts) - spent[c]
  <2>1. Total(spent', Checkouts) = Total(spent, Checkouts) - spent[c] + spent'[c]
    BY <1>2, <1>5, SpentChanges
  <2> QED
    BY <1>2, <1>5, <2>1, CardFields
<1>7. card.status \notin {"absent", "pending"}
  BY <1>1 DEF CardInv, UnfundedIsEmpty, Unfunded
<1>8. CardTypes'
  BY <1>1, <1>3, <1>4, <1>5 DEF CardInv, CardTypes
<1>9. UnfundedIsEmpty' /\ DebitFits'
  BY <1>1, <1>3, <1>7, ShoppersAssumption DEF UnfundedIsEmpty, Unfunded, DebitFits, RowFree
<1>10. RedeemedByOrders'
  BY <1>4, <1>5 DEF CardInv, RedeemedByOrders
<1>11. CardSafe'
  <2>1. LedgerExplains'
    BY <1>2, <1>3, <1>4, <1>6, CardFields DEF LedgerExplains
  <2>2. PaidForFirst' /\ TakenOnce' /\ VoidIsEmpty'
    BY <1>1, <1>3, <1>4, <1>7 DEF CardInv, CardSafe, PaidForFirst, TakenOnce, VoidIsEmpty
  <2> QED
    BY <2>1, <2>2 DEF CardSafe
<1> QED
  BY <1>8, <1>9, <1>10, <1>11 DEF CardInv

LEMMA EventsKeepCard ==
  ASSUME CheckoutInv, CardInv, CardEvents, UNCHANGED <<quote, placed>>
  PROVE  CardInv'
<1>1. ASSUME ProviderPays \/ \E total \in 1..InitialBalance : ProviderRefunds(total)
      PROVE  CardInv'
  BY <1>1, ProviderKeepsCard DEF ProviderPays, ProviderRefunds
<1>2. CASE Issue
  BY <1>2, IssueKeepsCard
<1>3. CASE Purchase(TRUE) \/ Purchase(FALSE)
  BY <1>3, PurchaseKeepsCard
<1>4. CASE ActivateAfterPayment
  BY <1>4, ActivateKeepsCard
<1>5. CASE \E total \in 1..InitialBalance : ApplyPurchaseRefund(total)
  BY <1>5, PurchaseRefundKeepsCard
<1>6. CASE SetStatus("active", "disabled") \/ SetStatus("disabled", "active")
  BY <1>6, StatusKeepsCard
<1>7. CASE \E c \in Checkouts : CreditOrder(c)
  BY <1>7, CreditKeepsCard
<1> QED
  BY <1>1, <1>2, <1>3, <1>4, <1>5, <1>6, <1>7 DEF CardEvents

\* A checkout that is not an order yet quotes what it finds on the card.
LEMMA PriceKeepsCard ==
  ASSUME CheckoutInv, CardInv, NEW c \in Checkouts, Price(c)
  PROVE  CardInv'
<1>1. /\ stage[c] = "idle" /\ UNCHANGED <<cardVars, placed>>
      /\ quote' = [quote EXCEPT ![c] = IF "card" \in Uses[c] THEN Lesser(card.balance, Due[c]) ELSE 0]
  BY DEF Price, Moves
<1>2. UNCHANGED <<card, cardHolder, cardLedger, spent, provider>>
  BY <1>1 DEF cardVars
<1>3. c \notin placed /\ cardHolder # c
  BY <1>1 DEF CheckoutInv, StageInv, StageTypes, LocksMatch, HasDebited
<1>4. quote \in [Checkouts -> Nat]
  BY DEF CardInv, CardTypes
<1>5. (IF "card" \in Uses[c] THEN Lesser(card.balance, Due[c]) ELSE 0) \in Nat
  BY CardFields, CheckoutAssumption DEF Lesser
<1>6. quote' \in [Checkouts -> Nat] /\ \A d \in Checkouts \ {c} : quote'[d] = quote[d]
  BY <1>1, <1>4, <1>5
<1>7. Total(quote', placed) = Total(quote, placed)
  <2>1. \A d \in placed : quote'[d] = quote[d]
    BY <1>3, <1>6, SumsAreNumbers
  <2> QED
    BY <2>1, TotalAgrees
<1>8. CardTypes' /\ UnfundedIsEmpty'
  BY <1>2, <1>6 DEF CardInv, CardTypes, UnfundedIsEmpty, Unfunded
<1>9. DebitFits'
  BY <1>2, <1>3, <1>6 DEF CardInv, DebitFits
<1>10. RedeemedByOrders'
  BY <1>1, <1>2, <1>3, <1>6, <1>7 DEF CardInv, RedeemedByOrders
<1>11. CardSafe'
  BY <1>2 DEF CardInv, CardSafe, LedgerExplains, PaidForFirst, TakenOnce, VoidIsEmpty
<1> QED
  BY <1>8, <1>9, <1>10, <1>11 DEF CardInv

LEMMA DebitKeepsCard ==
  ASSUME CardInv, NEW c \in Checkouts, Debit(c, quote[c]), UNCHANGED <<quote, placed>>
  PROVE  CardInv'
<1>1. /\ card.status = "active" /\ quote[c] <= card.balance /\ cardHolder' = c
      /\ UNCHANGED <<card, cardLedger, spent, provider>>
  BY DEF Debit, CanDebit, CardInv, CardTypes, CardRows
<1> QED
  BY <1>1 DEF CardInv, CardTypes, UnfundedIsEmpty, Unfunded, DebitFits, RedeemedByOrders, CardSafe,
     LedgerExplains, PaidForFirst, TakenOnce, VoidIsEmpty

LEMMA RollbackKeepsCard ==
  ASSUME CardInv, NEW c \in Checkouts, CardRollback(c), UNCHANGED <<quote, placed>>
  PROVE  CardInv'
<1>1. cardHolder' \in {cardHolder, Nobody} /\ UNCHANGED <<card, cardLedger, spent, provider>>
  BY DEF CardRollback
<1> QED
  BY <1>1, ShoppersAssumption DEF CardInv, CardTypes, UnfundedIsEmpty, Unfunded, DebitFits,
     RedeemedByOrders,
     CardSafe, LedgerExplains, PaidForFirst, TakenOnce, VoidIsEmpty

\* The debit and the order commit together.
LEMMA CommitKeepsCard ==
  ASSUME CheckoutInv, CardInv, NEW c \in Checkouts, CardCommit(c, quote[c]), stage[c] = "commit",
         placed' = placed \union {c}, quote' = quote
  PROVE  CardInv'
<1>1. /\ cardHolder = c <=> quote[c] # 0
      /\ c \notin placed
  BY DEF CheckoutInv, StageInv, StageTypes, LocksMatch, HasDebited
<1>2. spent[c] = 0 /\ quote[c] \in Nat /\ spent \in [Checkouts -> Nat]
  BY <1>1 DEF CardInv, CardTypes, RedeemedByOrders
<1>3. Total(quote, placed') = Total(quote, placed) + quote[c]
  <2>1. \A d \in placed : quote[d] \in Nat
    BY SumsAreNumbers DEF CardInv, CardTypes
  <2> QED
    BY <1>1, <1>2, <2>1, SumsAreNumbers, TotalOneMore
<1>4. CASE cardHolder # c
  <2>1. quote[c] = 0 /\ UNCHANGED <<card, cardHolder, cardLedger, spent, provider>>
    BY <1>1, <1>4 DEF CardCommit, cardVars
  <2>2. Total(quote, placed') = Total(quote, placed)
    BY <1>3, <2>1, SumsAreNumbers
  <2>3. RedeemedByOrders'
    BY <1>2, <2>1, <2>2 DEF CardInv, RedeemedByOrders
  <2> QED
    BY <2>1, <2>3 DEF CardInv, CardTypes, UnfundedIsEmpty, Unfunded, DebitFits, CardSafe, LedgerExplains,
       PaidForFirst, TakenOnce, VoidIsEmpty
<1>5. CASE cardHolder = c
  <2>1. /\ card' = [card EXCEPT !.balance = @ - quote[c],
                                !.status = IF card.balance = quote[c] THEN "depleted" ELSE @]
        /\ cardLedger' = [cardLedger EXCEPT !.redeem = @ + quote[c]]
        /\ spent' = [spent EXCEPT ![c] = quote[c]] /\ cardHolder' = Nobody /\ UNCHANGED provider
    BY <1>5 DEF CardCommit
  <2>2. card.status = "active" /\ quote[c] <= card.balance /\ card \in CardRows /\ cardLedger \in Ledgers
    BY <1>5 DEF CardInv, DebitFits, CardTypes
  <2>3. card.balance - quote[c] \in Nat
    BY <1>2, <2>2, CardFields
  <2>4. /\ card'.balance = card.balance - quote[c] /\ card'.refunded = card.refunded /\ card'.linked = card.linked
        /\ card'.status \in {"active", "depleted"}
    BY <2>1, <2>2 DEF CardRows
  <2>5. card' \in CardRows
    BY <2>1, <2>2, <2>3 DEF CardRows, CardStates
  <2>6. /\ cardLedger'.purchase = cardLedger.purchase /\ cardLedger'.redeem = cardLedger.redeem + quote[c]
        /\ cardLedger'.refund = cardLedger.refund /\ cardLedger'.clawback = cardLedger.clawback
        /\ cardLedger' \in Ledgers
    BY <1>2, <2>1, <2>2 DEF Ledgers
  <2>7. /\ spent' \in [Checkouts -> Nat] /\ spent'[c] = quote[c]
        /\ \A d \in Checkouts \ {c} : spent'[d] = spent[d]
    BY <1>2, <2>1
  <2>8. Total(spent', Checkouts) = Total(spent, Checkouts) + quote[c]
    <3>1. Total(spent', Checkouts) = Total(spent, Checkouts) - spent[c] + spent'[c]
      BY <1>2, <2>7, SpentChanges
    <3> QED
      BY <1>2, <2>7, <3>1, CardFields
  <2>9. CardTypes'
    BY <2>1, <2>5, <2>6, <2>7 DEF CardInv, CardTypes
  <2>10. UnfundedIsEmpty' /\ DebitFits'
    BY <2>1, <2>4, ShoppersAssumption DEF UnfundedIsEmpty, Unfunded, DebitFits
  <2>11. RedeemedByOrders'
    BY <1>3, <2>6, <2>7 DEF CardInv, RedeemedByOrders
  <2>12. CardSafe'
    <3>1. LedgerExplains'
      BY <1>2, <2>4, <2>6, <2>8, CardFields DEF LedgerExplains
    <3>2. PaidForFirst' /\ TakenOnce' /\ VoidIsEmpty'
      BY <2>1, <2>4, <2>6 DEF CardInv, CardSafe, PaidForFirst, TakenOnce, VoidIsEmpty
    <3> QED
      BY <3>1, <3>2 DEF CardSafe
  <2> QED
    BY <2>9, <2>10, <2>11, <2>12 DEF CardInv
<1> QED
  BY <1>4, <1>5

\* Every step of the shop keeps the card's books.
LEMMA ShopKeepsCard ==
  ASSUME CheckoutInv, CardInv, [ShopNext]_shopVars
  PROVE  CardInv'
<1>1. ASSUME NEW c \in Checkouts, CheckoutStep(c)
      PROVE  CardInv'
  <2>1. CASE Price(c)
    BY <2>1, PriceKeepsCard
  <2>2. CASE DebitCard(c)
    BY <2>2, DebitKeepsCard DEF DebitCard
  <2>3. CASE Commit(c)
    BY <2>3, CommitKeepsCard DEF Commit, Moves
  <2>4. CASE Rollback(c)
    BY <2>4, RollbackKeepsCard DEF Rollback
  <2>5. CASE PriceRefused(c) \/ Lookup(c) \/ InsertOrder(c) \/ AttachArtwork(c) \/ ApplyCoupon(c)
             \/ IncrementCoupon(c) \/ RedeemPointsTx(c)
    BY <2>5, UntouchedCard DEF PriceRefused, Lookup, InsertOrder, AttachArtwork, ApplyCoupon,
       IncrementCoupon,
       RedeemPointsTx
  <2> QED
    BY <1>1, <2>1, <2>2, <2>3, <2>4, <2>5 DEF CheckoutStep
<1>2. CASE CardEvents /\ UNCHANGED checkoutVars
  BY <1>2, EventsKeepCard DEF checkoutVars
<1>3. CASE UNCHANGED <<cardVars, checkoutVars>>
  BY <1>3, UntouchedCard DEF checkoutVars
<1>4. CASE UNCHANGED shopVars
  BY <1>4, UntouchedCard DEF shopVars, valueVars, checkoutVars
<1> QED
  BY <1>1, <1>2, <1>3, <1>4 DEF ShopNext

-----------------------------------------------------------------------------
(* The loyalty program *)

MemberRows == [enrolled : BOOLEAN, balance : Nat, lifetime : Nat, tier : {0, 1}]
Readings == [at : {"waiting", "credit", "done"}, lifetime : Nat, tier : {0, 1}]

PointsTypes ==
  /\ member \in [Members -> MemberRows] /\ debits \in [Members -> Nat]
  /\ earn \in [PaidOrders -> Seq(Nat)] /\ award \in [Deliveries -> Readings]
  /\ old \subseteq PaidOrders

\* A member's points are those credited and not debited, at a tier that was
\* earned; a stranger has none.
MemberFits(m) ==
  /\ member[m].balance = member[m].lifetime - debits[m]
  /\ member[m].tier <= TierOf(member[m].lifetime)
  /\ ~member[m].enrolled => member[m].lifetime = 0

\* The transaction that has the member's row found a point to redeem.
RedeemFits == \A c \in Checkouts : pointsHolder = c => HasPoints(EmailOf[c], 1)

\* A delivery that is to credit read a member, and points that were only added to.
AwardsKnow ==
  \A o \in PaidOrders, n \in 1..MaxAwards : award[<<o, n>>].at = "credit" =>
    member[BuyerOf[o]].enrolled /\ award[<<o, n>>].lifetime <= member[BuyerOf[o]].lifetime

\* One after the other, deliveries credit an order that earned nothing.
AwardsInTurn ==
  ~Overlapping => \A o \in PaidOrders, n \in 1..MaxAwards : award[<<o, n>>].at = "credit" =>
    earn[o] = <<>> /\ \A i \in 1..MaxAwards : award[<<o, i>>].at = "credit" => i = n

PointsInv ==
  /\ PointsTypes /\ \A m \in Members : MemberFits(m)
  /\ RedeemFits /\ AwardsKnow /\ AwardsInTurn /\ AwardedOnce

LEMMA PointsConstants ==
  /\ SignupBonus \in Nat /\ ReferralBonus \in Nat /\ RefereeBonus \in Nat /\ UpperTierAt \in Nat
  /\ MaxAwards \in Nat /\ BuyerOf \in [PaidOrders -> Members] /\ EarnBase \in [PaidOrders -> Nat]
  /\ \A o \in PaidOrders, n \in 1..MaxAwards : <<o, n>> \in Deliveries
  BY LoyaltyAssumption DEF Deliveries

\* More points never make a lower tier.
LEMMA TiersGrow ==
  ASSUME NEW a \in Nat, NEW b \in Nat, a <= b
  PROVE  TierOf(a) \in {0, 1} /\ TierOf(a) <= TierOf(b)
  BY PointsConstants DEF TierOf

LEMMA Climbs ==
  ASSUME NEW a \in Nat, NEW b \in Nat, NEW c \in Nat, a <= b, b <= c
  PROVE  a <= c
  OBVIOUS

LEMMA EnrolledRow ==
  ASSUME NEW bonus \in Nat
  PROVE  /\ Enrolled(bonus) \in MemberRows /\ Enrolled(bonus).enrolled
         /\ Enrolled(bonus).balance = bonus /\ Enrolled(bonus).lifetime = bonus
         /\ Enrolled(bonus).tier = TierOf(bonus)
  BY PointsConstants DEF Enrolled, MemberRows, TierOf

LEMMA CreditedRow ==
  ASSUME NEW r \in MemberRows, NEW points \in Nat
  PROVE  /\ Credited(r, points) \in MemberRows /\ Credited(r, points).enrolled = r.enrolled
         /\ Credited(r, points).balance = r.balance + points
         /\ Credited(r, points).lifetime = r.lifetime + points
         /\ Credited(r, points).tier = TierOf(r.lifetime + points)
<1>1. TierOf(r.lifetime + points) \in {0, 1}
  BY DEF TierOf
<1>2. r.lifetime + points \in Nat /\ r.balance + points \in Nat
  BY DEF MemberRows
<1>3. Credited(r, points) \in MemberRows
  BY <1>1, <1>2 DEF Credited, MemberRows
<1>4. /\ Credited(r, points).enrolled = r.enrolled
      /\ Credited(r, points).balance = r.balance + points
      /\ Credited(r, points).lifetime = r.lifetime + points
      /\ Credited(r, points).tier = TierOf(r.lifetime + points)
  BY DEF Credited, MemberRows
<1> QED
  BY <1>3, <1>4

LEMMA PointsInitInv == ShopInit => PointsInv
<1> SUFFICES ASSUME ShopInit PROVE PointsInv
  OBVIOUS
<1>1. /\ \/ member = [m \in Members |-> Stranger]
         \/ member = [m \in Members |-> Enrolled(SignupBonus)]
      /\ pointsHolder = Nobody /\ earn = [o \in PaidOrders |-> <<>>]
      /\ award = [d \in Deliveries |-> Idle] /\ debits = [m \in Members |-> 0] /\ old = {}
  BY DEF ShopInit, LoyaltyInit
<1>2. /\ Stranger \in MemberRows /\ ~Stranger.enrolled /\ Stranger.balance = 0 /\ Stranger.lifetime = 0
      /\ Stranger.tier = 0
  BY DEF Stranger, MemberRows
<1>3. Idle \in Readings /\ Idle.at = "waiting"
  BY DEF Idle, Readings
<1>4. \A m \in Members : member[m] \in MemberRows /\ MemberFits(m)
  <2>1. CASE member = [m \in Members |-> Stranger]
    BY <1>1, <1>2, <2>1, TiersGrow DEF MemberFits
  <2>2. CASE member = [m \in Members |-> Enrolled(SignupBonus)]
    <3>1. \A m \in Members : member[m] = Enrolled(SignupBonus) /\ debits[m] = 0
      BY <1>1, <2>2
    <3> QED
      BY <3>1, PointsConstants, EnrolledRow, TiersGrow DEF MemberFits
  <2> QED
    BY <1>1, <2>1, <2>2
<1>5. member = [m \in Members |-> member[m]]
  BY <1>1
<1>6. PointsTypes
  BY <1>1, <1>3, <1>4, <1>5 DEF PointsTypes
<1>7. RedeemFits
  BY <1>1, ShoppersAssumption DEF RedeemFits
<1>8. AwardsKnow /\ AwardsInTurn
  BY <1>1, <1>3, PointsConstants DEF AwardsKnow, AwardsInTurn
<1>9. AwardedOnce
  BY <1>1 DEF AwardedOnce
<1> QED
  BY <1>4, <1>6, <1>7, <1>8, <1>9 DEF PointsInv

LEMMA UntouchedPoints ==
  ASSUME PointsInv, UNCHANGED loyaltyVars
  PROVE  PointsInv'
  BY DEF PointsInv, loyaltyVars, PointsTypes, MemberFits, RedeemFits, HasPoints, AwardsKnow, AwardsInTurn,
         AwardedOnce

\* A change of members that no transaction has, which takes no lifetime points.
LEMMA MembersMove ==
  ASSUME PointsInv, pointsHolder = Nobody, UNCHANGED <<pointsHolder, earn, award, old>>,
         member' \in [Members -> MemberRows], debits' \in [Members -> Nat],
         \A m \in Members : /\ MemberFits(m)'
                            /\ member[m].enrolled => member'[m].enrolled
                            /\ member[m].enrolled => member[m].lifetime <= member'[m].lifetime
  PROVE  PointsInv'
<1>1. PointsTypes'
  BY DEF PointsInv, PointsTypes
<1>2. RedeemFits'
  BY ShoppersAssumption DEF RedeemFits
<1>3. AwardsKnow'
  <2> SUFFICES ASSUME NEW o \in PaidOrders, NEW n \in 1..MaxAwards, award[<<o, n>>].at = "credit"
               PROVE  /\ member'[BuyerOf[o]].enrolled
                      /\ award[<<o, n>>].lifetime <= member'[BuyerOf[o]].lifetime
    BY DEF AwardsKnow
  <2>1. BuyerOf[o] \in Members /\ award[<<o, n>>] \in Readings
    BY PointsConstants DEF PointsInv, PointsTypes
  <2>2. member[BuyerOf[o]] \in MemberRows /\ member'[BuyerOf[o]] \in MemberRows
    BY <2>1 DEF PointsInv, PointsTypes
  <2>3. member[BuyerOf[o]].enrolled /\ award[<<o, n>>].lifetime <= member[BuyerOf[o]].lifetime
    BY DEF PointsInv, AwardsKnow
  <2>4. /\ award[<<o, n>>].lifetime \in Nat /\ member[BuyerOf[o]].lifetime \in Nat
        /\ member'[BuyerOf[o]].lifetime \in Nat
    BY <2>1, <2>2 DEF Readings, MemberRows
  <2>5. member'[BuyerOf[o]].enrolled
    BY <2>1, <2>3
  <2>6. member[BuyerOf[o]].lifetime <= member'[BuyerOf[o]].lifetime
    BY <2>1, <2>3
  <2>7. award[<<o, n>>].lifetime <= member'[BuyerOf[o]].lifetime
    <3> DEFINE a == award[<<o, n>>].lifetime
               b == member[BuyerOf[o]].lifetime
               c == member'[BuyerOf[o]].lifetime
    <3>1. a \in Nat /\ b \in Nat /\ c \in Nat /\ a <= b /\ b <= c
      BY <2>3, <2>4, <2>6
    <3>2. a <= c
      <4> HIDE DEF a, b, c
      <4> QED
        BY <3>1, Climbs
    <3> QED
      BY <3>2
  <2> QED
    BY <2>5, <2>7
<1>4. AwardsInTurn' /\ AwardedOnce'
  BY DEF PointsInv, AwardsInTurn, AwardedOnce
<1> QED
  BY <1>1, <1>2, <1>3, <1>4 DEF PointsInv

LEMMA EnrollKeepsPoints ==
  ASSUME PointsInv, NEW m \in Members, NEW r \in Members, r = m \/ member[r].enrolled, Enroll(m, r)
  PROVE  PointsInv'
<1>1. /\ pointsHolder = Nobody /\ ~member[m].enrolled
      /\ UNCHANGED <<pointsHolder, earn, award, debits, old>>
      /\ member \in [Members -> MemberRows] /\ debits \in [Members -> Nat]
  BY DEF Enroll, PointsInv, PointsTypes
<1>2. \A x \in Members : MemberFits(x)
  BY DEF PointsInv
<1>3. debits[m] = 0
  BY <1>1, <1>2 DEF MemberFits, MemberRows
<1> DEFINE bonus == IF r = m THEN SignupBonus ELSE SignupBonus + RefereeBonus
<1>4. bonus \in Nat
  BY PointsConstants
<1>5. /\ member' \in [Members -> MemberRows] /\ member'[m] = Enrolled(bonus)
      /\ \A x \in Members \ {m, r} : member'[x] = member[x]
      /\ r # m => member'[r] = Credited(member[r], ReferralBonus)
  <2>1. CASE r = m
    BY <1>1, <1>4, <2>1, EnrolledRow DEF Enroll
  <2>2. CASE r # m
    <3>1. member' = [[member EXCEPT ![m] = Enrolled(bonus)] EXCEPT ![r] = Credited(member[r], ReferralBonus)]
      BY <1>1, <2>2 DEF Enroll
    <3>2. Credited(member[r], ReferralBonus) \in MemberRows /\ Enrolled(bonus) \in MemberRows
      BY <1>1, <1>4, CreditedRow, EnrolledRow, PointsConstants
    <3> HIDE DEF bonus
    <3> QED
      BY <1>1, <2>2, <3>1, <3>2
  <2> QED
    BY <2>1, <2>2
<1> HIDE DEF bonus
<1>6. MemberFits(m)'
  BY <1>1, <1>3, <1>4, <1>5, EnrolledRow, TiersGrow DEF MemberFits
<1>7. ASSUME r # m
      PROVE  MemberFits(r)' /\ member'[r].enrolled /\ member[r].lifetime <= member'[r].lifetime
  <2>1. member[r] \in MemberRows /\ member[r].enrolled /\ MemberFits(r)
    BY <1>1, <1>2, <1>7
  <2>2. /\ member'[r].enrolled = member[r].enrolled
        /\ member'[r].balance = member[r].balance + ReferralBonus
        /\ member'[r].lifetime = member[r].lifetime + ReferralBonus
        /\ member'[r].tier = TierOf(member[r].lifetime + ReferralBonus)
    <3>1. member'[r] = Credited(member[r], ReferralBonus)
      BY <1>5, <1>7
    <3>2. ReferralBonus \in Nat /\ member[r] \in MemberRows
      BY <2>1, PointsConstants
    <3> QED
      BY <3>1, <3>2, CreditedRow
  <2>3. member[r].balance \in Nat /\ member[r].lifetime \in Nat /\ debits[r] \in Nat
    BY <1>1, <2>1 DEF MemberRows
  <2>4. TierOf(member[r].lifetime + ReferralBonus) \in {0, 1}
    BY DEF TierOf
  <2>5. member'[r].balance = member'[r].lifetime - debits[r] /\ member[r].lifetime <= member'[r].lifetime
    BY <2>1, <2>2, <2>3, PointsConstants DEF MemberFits
  <2>6. member'[r].tier <= TierOf(member'[r].lifetime)
    BY <2>2, <2>4
  <2> QED
    BY <1>1, <2>1, <2>2, <2>5, <2>6 DEF MemberFits
<1>8. ASSUME NEW x \in Members
      PROVE  /\ MemberFits(x)'
             /\ member[x].enrolled => member'[x].enrolled
             /\ member[x].enrolled => member[x].lifetime <= member'[x].lifetime
  <2>1. CASE x = m
    BY <1>1, <1>6, <2>1
  <2>2. CASE x = r /\ r # m
    BY <1>7, <2>2
  <2>3. CASE x \in Members \ {m, r}
    <3>1. member'[x] = member[x] /\ member[x].lifetime \in Nat
      BY <1>1, <1>5, <2>3 DEF MemberRows
    <3> QED
      BY <1>1, <1>2, <3>1 DEF MemberFits
  <2> QED
    BY <2>1, <2>2, <2>3
<1> QED
  BY <1>1, <1>5, <1>8, MembersMove

LEMMA AdjustKeepsPoints ==
  ASSUME PointsInv, NEW m \in Members, AdjustUp(m) \/ AdjustDown(m)
  PROVE  PointsInv'
<1>1. /\ pointsHolder = Nobody /\ member[m].enrolled /\ UNCHANGED <<pointsHolder, earn, award, old>>
      /\ member \in [Members -> MemberRows] /\ debits \in [Members -> Nat]
  BY DEF AdjustUp, AdjustDown, PointsInv, PointsTypes
<1>2. /\ member[m] \in MemberRows /\ member[m].balance \in Nat /\ member[m].lifetime \in Nat
      /\ debits[m] \in Nat /\ MemberFits(m)
  BY <1>1 DEF MemberRows, PointsInv
<1>3. /\ member' \in [Members -> MemberRows] /\ debits' \in [Members -> Nat]
      /\ \A x \in Members \ {m} : member'[x] = member[x] /\ debits'[x] = debits[x]
      /\ MemberFits(m)' /\ member'[m].enrolled /\ member[m].lifetime <= member'[m].lifetime
  <2>1. CASE AdjustUp(m)
    <3>1. member' = [member EXCEPT ![m] = Credited(member[m], 1)] /\ debits' = debits
      BY <2>1 DEF AdjustUp
    <3>2. /\ Credited(member[m], 1) \in MemberRows /\ Credited(member[m], 1).enrolled = member[m].enrolled
          /\ Credited(member[m], 1).balance = member[m].balance + 1
          /\ Credited(member[m], 1).lifetime = member[m].lifetime + 1
          /\ Credited(member[m], 1).tier = TierOf(member[m].lifetime + 1)
      BY <1>2, CreditedRow
    <3>3. /\ member' \in [Members -> MemberRows] /\ member'[m] = Credited(member[m], 1)
          /\ \A x \in Members \ {m} : member'[x] = member[x]
      BY <1>1, <3>1, <3>2
    <3>4. TierOf(member[m].lifetime + 1) \in {0, 1}
      BY DEF TierOf
    <3>5. /\ member'[m].balance = member'[m].lifetime - debits'[m]
          /\ member[m].lifetime <= member'[m].lifetime
      BY <1>2, <3>1, <3>2, <3>3 DEF MemberFits
    <3>6. member'[m].tier <= TierOf(member'[m].lifetime)
      BY <3>2, <3>3, <3>4
    <3>7. member'[m].enrolled
      BY <1>1, <3>2, <3>3
    <3> QED
      BY <1>1, <3>1, <3>3, <3>5, <3>6, <3>7 DEF MemberFits
  <2>2. CASE AdjustDown(m)
    <3>1. /\ member' = [member EXCEPT ![m].balance = @ - 1, ![m].tier = TierOf(member[m].lifetime)]
          /\ debits' = [debits EXCEPT ![m] = @ + 1] /\ member[m].balance >= 1
      BY <2>2 DEF AdjustDown
    <3>2. TierOf(member[m].lifetime) \in {0, 1} /\ member[m].balance - 1 \in Nat
      BY <1>2, <3>1 DEF TierOf
    <3>3. /\ member'[m].enrolled = member[m].enrolled /\ member'[m].balance = member[m].balance - 1
          /\ member'[m].lifetime = member[m].lifetime /\ member'[m].tier = TierOf(member[m].lifetime)
          /\ \A x \in Members \ {m} : member'[x] = member[x]
      BY <1>1, <3>1 DEF MemberRows
    <3>4. member' \in [Members -> MemberRows]
      BY <1>1, <3>1, <3>2 DEF MemberRows
    <3>5. debits' \in [Members -> Nat] /\ debits'[m] = debits[m] + 1
          /\ \A x \in Members \ {m} : debits'[x] = debits[x]
      BY <1>1, <3>1
    <3>6. member'[m].balance = member'[m].lifetime - debits'[m]
      BY <1>2, <3>3, <3>5 DEF MemberFits
    <3>7. member'[m].tier <= TierOf(member'[m].lifetime) /\ member[m].lifetime <= member'[m].lifetime
      BY <1>2, <3>2, <3>3
    <3>8. member'[m].enrolled
      BY <1>1, <3>3
    <3> QED
      BY <3>3, <3>4, <3>5, <3>6, <3>7, <3>8 DEF MemberFits
  <2> QED
    BY <2>1, <2>2
<1>4. ASSUME NEW x \in Members \ {m}
      PROVE  MemberFits(x)' /\ member'[x].enrolled = member[x].enrolled /\ member[x].lifetime <= member'[x].lifetime
  BY <1>1, <1>3 DEF PointsInv, MemberFits, MemberRows
<1> QED
  BY <1>1, <1>3, <1>4, MembersMove

LEMMA ReadsKeepPoints ==
  ASSUME PointsInv, NEW o \in PaidOrders, NEW n \in 1..MaxAwards, AwardReads(o, n)
  PROVE  PointsInv'
<1>1. /\ UNCHANGED <<member, pointsHolder, earn, debits, old>>
      /\ award \in [Deliveries -> Readings] /\ <<o, n>> \in Deliveries
      /\ BuyerOf[o] \in Members /\ member[BuyerOf[o]] \in MemberRows
  BY PointsConstants DEF AwardReads, PointsInv, PointsTypes
<1> DEFINE read == [at |-> "credit", lifetime |-> member[BuyerOf[o]].lifetime,
                    tier |-> member[BuyerOf[o]].tier]
           known == member[BuyerOf[o]].enrolled /\ EarnedNothing(o)
<1>2. /\ read \in Readings /\ AwardOver \in Readings /\ AwardOver.at = "done"
      /\ read.lifetime = member[BuyerOf[o]].lifetime
  BY <1>1 DEF Readings, MemberRows, AwardOver, Idle
<1>3. award' = [award EXCEPT ![<<o, n>>] = IF known THEN read ELSE AwardOver]
  BY DEF AwardReads
<1> HIDE DEF read
<1>4. /\ award' \in [Deliveries -> Readings]
      /\ \A q \in PaidOrders, i \in 1..MaxAwards : <<q, i>> # <<o, n>> => award'[<<q, i>>] = award[<<q, i>>]
      /\ award'[<<o, n>>] = IF known THEN read ELSE AwardOver
  BY <1>1, <1>2, <1>3, PointsConstants
<1>5. PointsTypes' /\ \A m \in Members : MemberFits(m)'
  BY <1>1, <1>4 DEF PointsInv, PointsTypes, MemberFits
<1>6. RedeemFits' /\ AwardedOnce'
  BY <1>1 DEF PointsInv, RedeemFits, HasPoints, AwardedOnce
<1>7. AwardsKnow'
  <2> SUFFICES ASSUME NEW q \in PaidOrders, NEW i \in 1..MaxAwards, award'[<<q, i>>].at = "credit"
               PROVE  member[BuyerOf[q]].enrolled /\ award'[<<q, i>>].lifetime <= member[BuyerOf[q]].lifetime
    BY <1>1 DEF AwardsKnow
  <2>1. CASE <<q, i>> # <<o, n>>
    BY <1>4, <2>1 DEF PointsInv, AwardsKnow
  <2>2. CASE <<q, i>> = <<o, n>>
    <3>1. known /\ award'[<<q, i>>] = read /\ q = o
      BY <1>2, <1>4, <2>2
    <3>2. member[BuyerOf[o]].lifetime \in Nat
      BY <1>1 DEF MemberRows
    <3> QED
      BY <1>2, <3>1, <3>2
  <2> QED
    BY <2>1, <2>2
<1>8. AwardsInTurn'
  <2> SUFFICES ASSUME ~Overlapping, NEW q \in PaidOrders, NEW i \in 1..MaxAwards, award'[<<q, i>>].at = "credit"
               PROVE  earn[q] = <<>> /\ \A j \in 1..MaxAwards : award'[<<q, j>>].at = "credit" => j = i
    BY <1>1 DEF AwardsInTurn
  <2>1. CASE q # o
    BY <1>4, <2>1 DEF PointsInv, AwardsInTurn
  <2>2. CASE q = o
    <3>1. \A j \in 1..MaxAwards : award[<<o, j>>].at # "credit"
      BY DEF AwardReads
    <3>2. \A j \in 1..MaxAwards : award'[<<o, j>>].at = "credit" => j = n
      BY <1>4, <3>1
    <3>3. known
      BY <1>2, <1>4, <2>2, <3>2
    <3> QED
      BY <2>2, <3>2, <3>3 DEF EarnedNothing
  <2> QED
    BY <2>1, <2>2
<1> QED
  BY <1>5, <1>6, <1>7, <1>8 DEF PointsInv

LEMMA LostKeepsPoints ==
  ASSUME PointsInv, NEW o \in PaidOrders, NEW n \in 1..MaxAwards, AwardLost(o, n)
  PROVE  PointsInv'
<1>1. /\ UNCHANGED <<member, pointsHolder, earn, debits, old>>
      /\ award \in [Deliveries -> Readings] /\ <<o, n>> \in Deliveries
      /\ award' = [award EXCEPT ![<<o, n>>] = AwardOver]
  BY PointsConstants DEF AwardLost, PointsInv, PointsTypes
<1>2. AwardOver \in Readings /\ AwardOver.at = "done"
  BY DEF Readings, AwardOver, Idle
<1>3. /\ award' \in [Deliveries -> Readings]
      /\ \A q \in PaidOrders, i \in 1..MaxAwards :
           award'[<<q, i>>].at = "credit" => award'[<<q, i>>] = award[<<q, i>>]
  BY <1>1, <1>2, PointsConstants
<1>4. PointsTypes' /\ \A m \in Members : MemberFits(m)'
  BY <1>1, <1>3 DEF PointsInv, PointsTypes, MemberFits
<1>5. RedeemFits' /\ AwardedOnce'
  BY <1>1 DEF PointsInv, RedeemFits, HasPoints, AwardedOnce
<1>6. AwardsKnow'
  BY <1>1, <1>3 DEF PointsInv, AwardsKnow
<1>7. AwardsInTurn'
  BY <1>1, <1>3 DEF PointsInv, AwardsInTurn
<1> QED
  BY <1>4, <1>5, <1>6, <1>7 DEF PointsInv

LEMMA AwardKeepsPoints ==
  ASSUME PointsInv, NEW o \in PaidOrders, NEW n \in 1..MaxAwards, AwardPoints(o, n)
  PROVE  PointsInv'
<1> DEFINE m == BuyerOf[o]
           p == Points(o, n)
           t == TierAfter(o, n)
<1>1. /\ UNCHANGED <<pointsHolder, debits, old>> /\ pointsHolder = Nobody /\ award[<<o, n>>].at = "credit"
      /\ award \in [Deliveries -> Readings] /\ <<o, n>> \in Deliveries /\ award[<<o, n>>] \in Readings
      /\ m \in Members /\ member \in [Members -> MemberRows] /\ member[m] \in MemberRows
      /\ earn \in [PaidOrders -> Seq(Nat)] /\ debits \in [Members -> Nat] /\ old \subseteq PaidOrders
      /\ MemberFits(m)
  BY PointsConstants DEF AwardPoints, PointsInv, PointsTypes
<1>2. /\ award[<<o, n>>].lifetime \in Nat /\ member[m].lifetime \in Nat /\ member[m].balance \in Nat
      /\ member[m].tier \in {0, 1} /\ debits[m] \in Nat
  BY <1>1 DEF Readings, MemberRows
<1>3. p \in Nat
  <2>1. EarnBase[o] \in Nat /\ 1 + TierOf(award[<<o, n>>].lifetime) \in {1, 2}
    BY PointsConstants DEF TierOf
  <2>2. EarnBase[o] * 1 \in Nat /\ EarnBase[o] * 2 \in Nat
    BY <2>1
  <2> QED
    BY <2>1, <2>2 DEF Points
<1>4. member[m].enrolled /\ award[<<o, n>>].lifetime <= member[m].lifetime
  BY <1>1 DEF PointsInv, AwardsKnow
<1>5. t \in {0, 1} /\ t <= TierOf(member[m].lifetime + p)
  <2> DEFINE a == award[<<o, n>>].lifetime + p
             b == member[m].lifetime + p
  <2>1. a \in Nat /\ b \in Nat /\ a <= b /\ member[m].lifetime <= b
    BY <1>2, <1>3, <1>4
  <2>2. TierOf(a) \in {0, 1} /\ TierOf(a) <= TierOf(b) /\ TierOf(b) \in {0, 1}
    <3> HIDE DEF a, b
    <3> QED
      BY <2>1, TiersGrow
  <2>3. member[m].tier <= TierOf(b)
    <3> HIDE DEF b
    <3>1. TierOf(member[m].lifetime) \in {0, 1} /\ TierOf(member[m].lifetime) <= TierOf(b)
      BY <1>2, <2>1, TiersGrow
    <3> QED
      BY <1>1, <1>2, <2>2, <3>1 DEF MemberFits
  <2>4. t = TierOf(a) \/ t = member[m].tier
    BY DEF TierAfter
  <2> HIDE DEF t
  <2> QED
    BY <1>2, <2>2, <2>3, <2>4
<1>6. /\ member' = [member EXCEPT ![m].balance = @ + p, ![m].lifetime = @ + p, ![m].tier = t]
      /\ earn' = [earn EXCEPT ![o] = Append(@, p)] /\ award' = [award EXCEPT ![<<o, n>>] = AwardOver]
  BY DEF AwardPoints
<1> HIDE DEF m, p, t
<1>7. /\ member'[m].balance = member[m].balance + p /\ member'[m].lifetime = member[m].lifetime + p
      /\ member'[m].enrolled = member[m].enrolled /\ member'[m].tier = t
      /\ \A x \in Members \ {m} : member'[x] = member[x]
  BY <1>1, <1>6 DEF MemberRows
<1>8. member[m].balance + p \in Nat /\ member[m].lifetime + p \in Nat
  BY <1>2, <1>3
<1>9. member' \in [Members -> MemberRows]
  BY <1>1, <1>5, <1>6, <1>8 DEF MemberRows
<1>10. /\ earn' \in [PaidOrders -> Seq(Nat)] /\ earn'[o] = Append(earn[o], p)
       /\ \A q \in PaidOrders \ {o} : earn'[q] = earn[q]
  BY <1>1, <1>3, <1>6
<1>11. AwardOver \in Readings /\ AwardOver.at = "done"
  BY DEF Readings, AwardOver, Idle
<1>12. /\ award' \in [Deliveries -> Readings] /\ award'[<<o, n>>].at = "done"
       /\ \A q \in PaidOrders, i \in 1..MaxAwards :
            award'[<<q, i>>].at = "credit" => award'[<<q, i>>] = award[<<q, i>>] /\ <<q, i>> # <<o, n>>
  BY <1>1, <1>6, <1>11, PointsConstants
<1>13. PointsTypes'
  BY <1>1, <1>9, <1>10, <1>12 DEF PointsTypes
<1>14. \A x \in Members : MemberFits(x)'
  <2>1. MemberFits(m)'
    <3>1. member'[m].balance = member'[m].lifetime - debits'[m]
      BY <1>1, <1>2, <1>3, <1>7 DEF MemberFits
    <3>2. member'[m].tier <= TierOf(member'[m].lifetime) /\ member'[m].enrolled
      BY <1>4, <1>5, <1>7
    <3> QED
      BY <3>1, <3>2 DEF MemberFits
  <2> QED
    BY <1>1, <1>7, <2>1 DEF PointsInv, MemberFits
<1>15. RedeemFits'
  BY <1>1, ShoppersAssumption DEF RedeemFits
<1>16. AwardsKnow'
  <2> SUFFICES ASSUME NEW q \in PaidOrders, NEW i \in 1..MaxAwards, award'[<<q, i>>].at = "credit"
               PROVE  member'[BuyerOf[q]].enrolled /\ award'[<<q, i>>].lifetime <= member'[BuyerOf[q]].lifetime
    BY DEF AwardsKnow
  <2>1. /\ award'[<<q, i>>] = award[<<q, i>>] /\ BuyerOf[q] \in Members /\ <<q, i>> \in Deliveries
        /\ member[BuyerOf[q]].enrolled /\ award[<<q, i>>].lifetime <= member[BuyerOf[q]].lifetime
    BY <1>12, PointsConstants DEF PointsInv, AwardsKnow
  <2>2. award[<<q, i>>].lifetime \in Nat
    BY <1>1, <2>1 DEF Readings
  <2>3. CASE BuyerOf[q] = m
    <3>1. award[<<q, i>>].lifetime <= member[m].lifetime
      BY <2>1, <2>3
    <3>2. award[<<q, i>>].lifetime <= member'[m].lifetime
      BY <1>2, <1>3, <1>7, <2>2, <3>1
    <3> QED
      BY <1>7, <2>1, <2>3, <3>2
  <2>4. CASE BuyerOf[q] # m
    BY <1>7, <2>1, <2>4
  <2> QED
    BY <2>3, <2>4
<1>17. AwardsInTurn'
  <2> SUFFICES ASSUME ~Overlapping, NEW q \in PaidOrders, NEW i \in 1..MaxAwards, award'[<<q, i>>].at = "credit"
               PROVE  earn'[q] = <<>> /\ \A j \in 1..MaxAwards : award'[<<q, j>>].at = "credit" => j = i
    BY DEF AwardsInTurn
  <2>1. /\ award[<<q, i>>].at = "credit" /\ <<q, i>> # <<o, n>>
    BY <1>12
  <2>2. earn[q] = <<>> /\ \A j \in 1..MaxAwards : award[<<q, j>>].at = "credit" => j = i
    BY <2>1 DEF PointsInv, AwardsInTurn
  <2>3. q # o
    BY <1>1, <2>1, <2>2
  <2> QED
    BY <1>10, <1>12, <2>2, <2>3
<1>18. AwardedOnce'
  <2> SUFFICES ASSUME ~Overlapping, NEW q \in PaidOrders
               PROVE  Len(earn'[q]) <= 1
    BY DEF AwardedOnce
  <2>1. earn[o] = <<>>
    BY <1>1 DEF PointsInv, AwardsInTurn
  <2>2. Len(earn'[o]) = 1
    BY <1>3, <1>10, <2>1
  <2> QED
    BY <1>10, <2>2 DEF PointsInv, AwardedOnce
<1> QED
  BY <1>13, <1>14, <1>15, <1>16, <1>17, <1>18 DEF PointsInv

LEMMA ExpiringIsNumber ==
  ASSUME PointsTypes, NEW m \in Members
  PROVE  ExpiringPoints(m) \in Nat
<1> DEFINE S == Expirable(m)
           f == [o \in S |-> Total(earn[o], DOMAIN earn[o])]
<1>1. S \subseteq PaidOrders /\ IsFiniteSet(PaidOrders)
  BY LoyaltyAssumption DEF PointsTypes, Expirable
<1>2. IsFiniteSet(S)
  BY <1>1, FS_Subset
<1>3. \A o \in S : f[o] \in Nat
  <2> SUFFICES ASSUME NEW o \in S PROVE Total(earn[o], DOMAIN earn[o]) \in Nat
    OBVIOUS
  <2>1. earn[o] \in Seq(Nat)
    BY <1>1 DEF PointsTypes
  <2>2. DOMAIN earn[o] = 1..Len(earn[o]) /\ Len(earn[o]) \in Nat /\ \A i \in DOMAIN earn[o] : earn[o][i] \in Nat
    BY <2>1
  <2>3. IsFiniteSet(1..Len(earn[o]))
    <3>1. Len(earn[o]) \in Int
      BY <2>2
    <3> QED
      BY <3>1, FS_Interval
  <2> QED
    BY <2>2, <2>3, TotalIsNumber
<1>4. ExpiringPoints(m) = Total(f, S)
  BY DEF ExpiringPoints
<1> HIDE DEF f, S
<1> QED
  BY <1>2, <1>3, <1>4, TotalIsNumber

LEMMA ExpiryKeepsPoints ==
  ASSUME PointsInv, ExpiryCycle
  PROVE  PointsInv'
<1> DEFINE due == {m \in Members : CanExpire(m)}
<1>1. /\ pointsHolder = Nobody /\ UNCHANGED <<pointsHolder, earn, award, old>>
      /\ member' = [m \in Members |->
           IF m \in due THEN [member[m] EXCEPT !.balance = @ - ExpiringPoints(m)] ELSE member[m]]
      /\ debits' = [m \in Members |-> debits[m] + (IF m \in due THEN ExpiringPoints(m) ELSE 0)]
      /\ member \in [Members -> MemberRows] /\ debits \in [Members -> Nat]
  BY DEF ExpiryCycle, PointsInv, PointsTypes
<1>2. ASSUME NEW m \in Members
      PROVE  /\ member'[m] \in MemberRows /\ debits'[m] \in Nat /\ MemberFits(m)'
             /\ member'[m].enrolled = member[m].enrolled /\ member'[m].lifetime = member[m].lifetime
  <2>1. /\ member[m] \in MemberRows /\ member[m].balance \in Nat /\ member[m].lifetime \in Nat
        /\ debits[m] \in Nat /\ MemberFits(m) /\ ExpiringPoints(m) \in Nat
    BY <1>1, ExpiringIsNumber DEF PointsInv, MemberRows
  <2>2. CASE m \notin due
    <3>1. member'[m] = member[m] /\ debits'[m] = debits[m]
      BY <1>1, <2>1, <2>2
    <3> QED
      BY <2>1, <3>1 DEF MemberFits
  <2>3. CASE m \in due
    <3> DEFINE e == ExpiringPoints(m)
    <3>1. member'[m] = [member[m] EXCEPT !.balance = @ - e] /\ debits'[m] = debits[m] + e
      BY <1>1, <2>3
    <3>2. member[m].balance >= e
      BY <2>3 DEF CanExpire
    <3> HIDE DEF e
    <3>3. e \in Nat
      BY <2>1 DEF e
    <3>4. member[m].balance - e \in Nat /\ debits'[m] \in Nat
      BY <2>1, <3>1, <3>2, <3>3
    <3>5. member'[m] \in MemberRows
      BY <2>1, <3>1, <3>4 DEF MemberRows
    <3>6. /\ member'[m].balance = member[m].balance - e /\ member'[m].enrolled = member[m].enrolled
          /\ member'[m].lifetime = member[m].lifetime /\ member'[m].tier = member[m].tier
      BY <2>1, <3>1 DEF MemberRows
    <3>7. member'[m].balance = member'[m].lifetime - debits'[m]
      BY <2>1, <3>1, <3>3, <3>6 DEF MemberFits
    <3> QED
      BY <2>1, <3>4, <3>5, <3>6, <3>7 DEF MemberFits
  <2> QED
    BY <2>2, <2>3
<1>3. member' \in [Members -> MemberRows] /\ debits' \in [Members -> Nat]
  <2>1. member' = [m \in Members |-> member'[m]] /\ debits' = [m \in Members |-> debits'[m]]
    BY <1>1
  <2> QED
    BY <1>2, <2>1
<1>4. \A m \in Members : member[m].lifetime \in Nat
  BY <1>1 DEF MemberRows
<1>5. \A m \in Members : /\ MemberFits(m)'
                         /\ member[m].enrolled => member'[m].enrolled
                         /\ member[m].enrolled => member[m].lifetime <= member'[m].lifetime
  BY <1>2, <1>4
<1> QED
  BY <1>1, <1>3, <1>5, MembersMove

LEMMA AgesKeepPoints ==
  ASSUME PointsInv, NEW o \in PaidOrders, Ages(o)
  PROVE  PointsInv'
  BY DEF Ages, PointsInv, PointsTypes, MemberFits, RedeemFits, HasPoints, AwardsKnow, AwardsInTurn,
     AwardedOnce

LEMMA EventsKeepPoints ==
  ASSUME PointsInv, LoyaltyEvents
  PROVE  PointsInv'
  BY EnrollKeepsPoints, ReadsKeepPoints, AwardKeepsPoints, LostKeepsPoints, AdjustKeepsPoints, AgesKeepPoints,
     ExpiryKeepsPoints DEF LoyaltyEvents

\* The lock that a transaction takes, or lets go of, is on a row that has the point.
LEMMA HoldersKeepPoints ==
  ASSUME PointsInv, NEW c \in Checkouts, UNCHANGED <<member, earn, award, debits, old>>,
         \/ pointsHolder' = c /\ HasPoints(EmailOf[c], 1)
         \/ pointsHolder' \in {pointsHolder, Nobody}
  PROVE  PointsInv'
<1>1. RedeemFits'
  BY ShoppersAssumption DEF PointsInv, RedeemFits, HasPoints
<1> QED
  BY <1>1 DEF PointsInv, PointsTypes, MemberFits, AwardsKnow, AwardsInTurn, AwardedOnce

LEMMA CommitKeepsPoints ==
  ASSUME PointsInv, NEW c \in Checkouts, PointsCommit(c, EmailOf[c], 1)
  PROVE  PointsInv'
<1>1. CASE pointsHolder # c
  BY <1>1, UntouchedPoints DEF PointsCommit
<1>2. CASE pointsHolder = c
  <2> DEFINE m == EmailOf[c]
  <2>1. /\ member' = [member EXCEPT ![m].balance = @ - 1] /\ debits' = [debits EXCEPT ![m] = @ + 1]
        /\ pointsHolder' = Nobody /\ UNCHANGED <<earn, award, old>>
    BY <1>2 DEF PointsCommit
  <2>2. /\ member[m].enrolled /\ member[m].balance >= 1
        /\ member \in [Members -> MemberRows] /\ debits \in [Members -> Nat]
    BY <1>2 DEF PointsInv, PointsTypes, RedeemFits, HasPoints
  <2> HIDE DEF m
  <2>3. /\ member' \in [Members -> MemberRows] /\ debits' \in [Members -> Nat]
        /\ \A x \in Members \ {m} : member'[x] = member[x] /\ debits'[x] = debits[x]
        /\ m \in Members => /\ member'[m].balance = member[m].balance - 1 /\ debits'[m] = debits[m] + 1
                            /\ member'[m].enrolled = member[m].enrolled
                            /\ member'[m].lifetime = member[m].lifetime /\ member'[m].tier = member[m].tier
    <3>1. CASE m \notin Members
      BY <2>1, <2>2, <3>1
    <3>2. CASE m \in Members
      <4>1. member[m] \in MemberRows /\ member[m].balance - 1 \in Nat
        BY <2>2, <3>2 DEF MemberRows
      <4>2. member' \in [Members -> MemberRows]
        BY <2>1, <2>2, <3>2, <4>1 DEF MemberRows
      <4>3. /\ \A x \in Members \ {m} : member'[x] = member[x]
            /\ member'[m].balance = member[m].balance - 1
            /\ member'[m].enrolled = member[m].enrolled
            /\ member'[m].lifetime = member[m].lifetime /\ member'[m].tier = member[m].tier
        BY <2>1, <2>2, <3>2 DEF MemberRows
      <4>4. /\ debits' \in [Members -> Nat] /\ debits'[m] = debits[m] + 1
            /\ \A x \in Members \ {m} : debits'[x] = debits[x]
        BY <2>1, <2>2, <3>2
      <4> QED
        BY <4>2, <4>3, <4>4
    <3> QED
      BY <3>1, <3>2
  <2>4. ASSUME NEW x \in Members
        PROVE  /\ MemberFits(x)' /\ member'[x].enrolled = member[x].enrolled
               /\ member'[x].lifetime = member[x].lifetime
    <3>1. /\ MemberFits(x) /\ member[x].balance \in Nat /\ member[x].lifetime \in Nat /\ debits[x] \in Nat
      BY <2>2 DEF PointsInv, MemberRows
    <3>2. CASE x = m
      <4>1. member'[x].balance = member'[x].lifetime - debits'[x]
        BY <2>3, <3>1, <3>2 DEF MemberFits
      <4> QED
        BY <2>3, <3>1, <3>2, <4>1 DEF MemberFits
    <3>3. CASE x # m
      BY <2>3, <3>1, <3>3 DEF MemberFits
    <3> QED
      BY <3>2, <3>3
  <2>5. PointsTypes'
    BY <2>1, <2>3 DEF PointsInv, PointsTypes
  <2>6. RedeemFits'
    BY <2>1, ShoppersAssumption DEF RedeemFits
  <2>7. AwardsKnow'
    <3> SUFFICES ASSUME NEW o \in PaidOrders, NEW n \in 1..MaxAwards, award[<<o, n>>].at = "credit"
                 PROVE  /\ member'[BuyerOf[o]].enrolled
                        /\ award[<<o, n>>].lifetime <= member'[BuyerOf[o]].lifetime
      BY <2>1 DEF AwardsKnow
    <3> QED
      BY <2>4, PointsConstants DEF PointsInv, AwardsKnow
  <2>8. AwardsInTurn' /\ AwardedOnce'
    BY <2>1 DEF PointsInv, AwardsInTurn, AwardedOnce
  <2> QED
    BY <2>4, <2>5, <2>6, <2>7, <2>8 DEF PointsInv
<1> QED
  BY <1>1, <1>2

\* Every step of the shop keeps the members' points.
LEMMA ShopKeepsPoints ==
  ASSUME PointsInv, [ShopNext]_shopVars
  PROVE  PointsInv'
<1>1. ASSUME NEW c \in Checkouts, CheckoutStep(c)
      PROVE  PointsInv'
  <2>1. CASE RedeemPointsTx(c)
    BY <2>1, HoldersKeepPoints DEF RedeemPointsTx, RedeemPoints
  <2>2. CASE Commit(c)
    BY <2>2, CommitKeepsPoints DEF Commit
  <2>3. CASE Rollback(c)
    <3>1. PointsRollback(c)
      BY <2>3 DEF Rollback
    <3> QED
      BY <3>1, HoldersKeepPoints DEF PointsRollback
  <2>4. CASE Price(c) \/ PriceRefused(c) \/ Lookup(c) \/ InsertOrder(c) \/ AttachArtwork(c) \/ ApplyCoupon(c)
             \/ IncrementCoupon(c) \/ DebitCard(c)
    BY <2>4, UntouchedPoints DEF Price, PriceRefused, Lookup, InsertOrder, AttachArtwork, ApplyCoupon,
       IncrementCoupon, DebitCard
  <2> QED
    BY <1>1, <2>1, <2>2, <2>3, <2>4 DEF CheckoutStep
<1>2. CASE LoyaltyEvents
  BY <1>2, EventsKeepPoints
<1>3. CASE UNCHANGED loyaltyVars
  BY <1>3, UntouchedPoints
<1>4. CASE UNCHANGED shopVars
  BY <1>4, UntouchedPoints DEF shopVars, valueVars
<1> QED
  BY <1>1, <1>2, <1>3, <1>4 DEF ShopNext

LEMMA PointsInvSafe == PointsInv => PointsSafe
<1>1. ASSUME PointsInv, NEW m \in Members
      PROVE  member[m].balance = member[m].lifetime - debits[m] /\ member[m].tier <= TierOf(member[m].lifetime)
  BY <1>1 DEF PointsInv, MemberFits
<1>2. PointsInv => AwardedOnce
  BY DEF PointsInv
<1> QED
  BY <1>1, <1>2 DEF PointsSafe, PointsExplained, TierEarned

-----------------------------------------------------------------------------
(* The checkouts of a shop *)

DiscountInv == CheckoutInv /\ CouponInv /\ CardInv /\ PointsInv

LEMMA DiscountInitInv == ShopInit => DiscountInv
  BY CheckoutInitInv, CouponInitInv, CardInitInv, PointsInitInv DEF DiscountInv

LEMMA ShopKeepsDiscounts == DiscountInv /\ [ShopNext]_shopVars => DiscountInv'
<1> SUFFICES ASSUME DiscountInv, [ShopNext]_shopVars PROVE DiscountInv'
  OBVIOUS
<1>1. CheckoutInv'
  BY ShopKeepsLocks DEF DiscountInv
<1>2. CouponInv'
  BY ShopKeepsCoupon DEF DiscountInv
<1>3. CardInv'
  BY ShopKeepsCard DEF DiscountInv
<1>4. PointsInv'
  BY ShopKeepsPoints DEF DiscountInv
<1> QED
  BY <1>1, <1>2, <1>3, <1>4 DEF DiscountInv

LEMMA DiscountInvAtomic == DiscountInv => CheckoutAtomic
<1> SUFFICES ASSUME DiscountInv PROVE CheckoutAtomic
  OBVIOUS
<1>1. OneOrderPerKey
  BY DEF DiscountInv, CheckoutInv, StageInv, StageTypes, OneOwner, OneOrderPerKey
<1>2. PaidByItsDiscounts
  BY DEF DiscountInv, CouponInv, UsesCounted, CardInv, RedeemedByOrders, PaidByItsDiscounts
<1> QED
  BY <1>1, <1>2 DEF CheckoutAtomic

LEMMA DiscountInvSafe == DiscountInv => DiscountsSafe
<1> SUFFICES ASSUME DiscountInv PROVE DiscountsSafe
  OBVIOUS
<1>1. CouponSafe /\ CardSafe /\ PointsSafe
  BY CouponInvSafe, PointsInvSafe DEF DiscountInv, CardInv
<1> QED
  BY <1>1 DEF DiscountsSafe

\* An order and the coupon, the card's debit and the points that paid for it
\* commit together or not at all, and a key has one order.  For any number of
\* concurrent checkouts, customers and keys.
THEOREM CheckoutsAreAtomic == ShopSpec => []CheckoutAtomic
<1>1. ShopInit => DiscountInv
  BY DiscountInitInv
<1>2. DiscountInv /\ [ShopNext]_shopVars => DiscountInv'
  BY ShopKeepsDiscounts
<1>3. DiscountInv => CheckoutAtomic
  BY DiscountInvAtomic
<1> QED
  BY <1>1, <1>2, <1>3, PTL DEF ShopSpec, shopVars

\* A store's coupon, gift card and points are given as often, and for as much,
\* as the store says, whatever the checkouts, the merchant, the provider's
\* events, the payment webhooks and the expiry worker do at once.
THEOREM DiscountsAreSafe == ShopSpec => []DiscountsSafe
<1>1. ShopInit => DiscountInv
  BY DiscountInitInv
<1>2. DiscountInv /\ [ShopNext]_shopVars => DiscountInv'
  BY ShopKeepsDiscounts
<1>3. DiscountInv => DiscountsSafe
  BY DiscountInvSafe
<1> QED
  BY <1>1, <1>2, <1>3, PTL DEF ShopSpec, shopVars

-----------------------------------------------------------------------------
(* The cart's uploads and the erasure: their values *)

UploadStates == {"none", "pending", "verified", "claimed", "gone"}
UploadRows == [state : UploadStates, crop : Nat, lease : {"none", "fresh", "held", "expired"}]
PictureNames == [upload : Uploads, crop : Nat]
PictureKeys == Uploads \X Nat
EraserPlaces == {"idle", "collect", "uploads", "items", "orders", "commit", "reap", "failing"}
EraserRows ==
  [at : EraserPlaces, keys : SUBSET PictureKeys, rows : SUBSET Uploads,
   items : SUBSET Checkouts, orders : SUBSET Checkouts]
ErasureRows ==
  [status : {"none", "pending", "processing", "failed", "completed", "rejected"}, attempts : Nat,
   notes : {"none", "reason", "failure", "receipt", "receipt with objects"}]

UploadTypes == upload \in [Uploads -> UploadRows] /\ DOMAIN uploadHolder = Uploads
NameTypes == answers \in [Checkouts -> SUBSET PictureNames] /\ snapshots \in [Checkouts -> SUBSET PictureNames]
LoadTypes == loaded \subseteq [row : PictureNames, destroys : BOOLEAN]
EraserTypes == erasure \in ErasureRows /\ eraser \in [Erasers -> EraserRows] /\ erasures \in Nat

ArtTypes == UploadTypes /\ NameTypes /\ LoadTypes /\ EraserTypes

LEMMA ArtworkConstants ==
  /\ Attached \in [Checkouts -> SUBSET Uploads] /\ MaxCrops \in Nat
  /\ Nobody \notin Erasers /\ Nobody \notin Checkouts
  /\ \A e \in Erasers, c \in Checkouts : e # c
  BY ArtworkAssumption, ShoppersAssumption

\* A key is that of the upload it begins with.
LEMMA KeysName ==
  ASSUME NEW a \in PictureNames
  PROVE  KeysOf(a) \subseteq PictureKeys /\ \A k \in KeysOf(a) : k[1] = a.upload
  BY DEF KeysOf, PictureNames, PictureKeys

LEMMA RowsName ==
  ASSUME UploadTypes, NEW u \in Uploads
  PROVE  RowOf(u) \in PictureNames /\ RowOf(u).upload = u /\ upload[u].state \in UploadStates
  BY DEF RowOf, PictureNames, UploadTypes, UploadRows

\* Rows that a statement deletes, and rows that a commit claims.
LEMMA WithoutRows ==
  ASSUME UploadTypes, NEW us \in SUBSET Uploads, upload' = Without(us)
  PROVE  /\ upload' \in [Uploads -> UploadRows]
         /\ \A u \in Uploads : IF u \in us THEN upload'[u].state = "gone" ELSE upload'[u] = upload[u]
<1> DEFINE bare == [NoUpload EXCEPT !.state = "gone"]
<1>1. bare \in UploadRows /\ bare.state = "gone"
  BY DEF NoUpload, UploadRows, UploadStates
<1>2. upload' = [u \in Uploads |-> IF u \in us THEN bare ELSE upload[u]]
  BY DEF Without
<1> HIDE DEF bare
<1> QED
  BY <1>1, <1>2 DEF UploadTypes

LEMMA ClaimedRows ==
  ASSUME UploadTypes, NEW holder, upload' = Claimed(holder)
  PROVE  /\ upload' \in [Uploads -> UploadRows]
         /\ \A u \in Uploads : IF uploadHolder[u] = holder THEN upload'[u].state = "claimed"
                               ELSE upload'[u] = upload[u]
<1>1. upload' = [u \in Uploads |-> IF uploadHolder[u] = holder
                                     THEN [upload[u] EXCEPT !.state = "claimed"] ELSE upload[u]]
  BY DEF Claimed
<1>2. \A u \in Uploads : /\ [upload[u] EXCEPT !.state = "claimed"] \in UploadRows
                         /\ [upload[u] EXCEPT !.state = "claimed"].state = "claimed"
  BY DEF UploadTypes, UploadRows, UploadStates
<1> QED
  BY <1>1, <1>2 DEF UploadTypes

LEMMA ReleasedRows ==
  ASSUME NEW holder, uploadHolder' = Released(holder)
  PROVE  /\ DOMAIN uploadHolder' = Uploads
         /\ \A u \in Uploads :
              uploadHolder'[u] = IF uploadHolder[u] = holder THEN Nobody ELSE uploadHolder[u]
  BY DEF Released

LEMMA ArtInitTypes == ShopInit => ArtTypes
<1> SUFFICES ASSUME ShopInit PROVE ArtTypes
  OBVIOUS
<1>1. /\ upload \in [Uploads -> {NoUpload, Uploaded}] /\ uploadHolder = [u \in Uploads |-> Nobody]
      /\ loaded = {} /\ answers = [c \in Checkouts |-> {}] /\ snapshots = [c \in Checkouts |-> {}]
      /\ erasure = [status |-> "none", attempts |-> 0, notes |-> "none"]
      /\ eraser = [e \in Erasers |-> Resting] /\ erasures = 0
  BY DEF ShopInit, ArtworkInit, ErasureInit
<1>2. NoUpload \in UploadRows /\ Uploaded \in UploadRows
  BY DEF NoUpload, Uploaded, UploadRows, UploadStates
<1>3. Resting \in EraserRows
  BY DEF Resting, EraserRows, EraserPlaces
<1>4. EraserTypes
  BY <1>1, <1>3 DEF EraserTypes, ErasureRows
<1>5. UploadTypes /\ NameTypes /\ LoadTypes
  BY <1>1, <1>2 DEF UploadTypes, NameTypes, LoadTypes
<1> QED
  BY <1>4, <1>5 DEF ArtTypes

LEMMA BuyerTypes ==
  ASSUME ArtTypes, NEW u \in Uploads, BuyerEvents(u)
  PROVE  UploadTypes' /\ LoadTypes'
<1>1. upload \in [Uploads -> UploadRows] /\ DOMAIN uploadHolder = Uploads /\ UploadTypes /\ LoadTypes
  BY DEF ArtTypes, UploadTypes
<1>2. CASE CreateUploadURL(u)
  <2>1. [state |-> "pending", crop |-> 0, lease |-> "fresh"] \in UploadRows
    BY DEF UploadRows, UploadStates
  <2> QED
    BY <1>1, <1>2, <2>1 DEF CreateUploadURL, UploadTypes, LoadTypes
<1>3. CASE MarkVerified(u)
  BY <1>1, <1>3 DEF MarkVerified, UploadTypes, LoadTypes, UploadRows, UploadStates
<1>4. CASE PrepareCrop(u)
  <2>1. upload' = [upload EXCEPT ![u].crop = @ + 1] /\ upload[u].crop + 1 \in Nat
    BY <1>1, <1>4 DEF PrepareCrop, UploadRows
  <2> QED
    BY <1>1, <1>4, <2>1 DEF PrepareCrop, UploadTypes, LoadTypes, UploadRows
<1>5. CASE ExtendLease(u)
  BY <1>1, <1>5 DEF ExtendLease, UploadTypes, LoadTypes, UploadRows
<1>6. CASE RefuseObject(u) \/ \E object \in {"good", "bad"} : PutObject(u, object)
  BY <1>1, <1>6 DEF RefuseObject, PutObject, UploadTypes, LoadTypes
<1>7. CASE \E destroys \in BOOLEAN : LoadForDelete(u, destroys)
  <2>1. PICK destroys \in BOOLEAN : LoadForDelete(u, destroys)
    BY <1>7
  <2>2. [row |-> RowOf(u), destroys |-> destroys] \in [row : PictureNames, destroys : BOOLEAN]
    BY <1>1, RowsName
  <2> QED
    BY <1>1, <2>1, <2>2 DEF LoadForDelete, UploadTypes, LoadTypes
<1>8. CASE \E l \in loaded : l.row.upload = u /\ DeleteLoaded(l)
  <2>1. PICK l \in loaded : l.row.upload = u /\ DeleteLoaded(l)
    BY <1>8
  <2>2. upload' \in [Uploads -> UploadRows]
    BY <1>1, <2>1, WithoutRows DEF DeleteLoaded
  <2> QED
    BY <1>1, <2>1, <2>2 DEF DeleteLoaded, UploadTypes, LoadTypes
<1> QED
  BY <1>2, <1>3, <1>4, <1>5, <1>6, <1>7, <1>8 DEF BuyerEvents

LEMMA SweeperTypes ==
  ASSUME ArtTypes, SweeperEvents
  PROVE  UploadTypes' /\ LoadTypes'
<1>1. upload \in [Uploads -> UploadRows] /\ DOMAIN uploadHolder = Uploads /\ UploadTypes /\ LoadTypes
  BY DEF ArtTypes, UploadTypes
<1>2. ASSUME NEW u \in Uploads, Age(u)
      PROVE  UploadTypes' /\ LoadTypes'
  BY <1>1, <1>2 DEF Age, UploadTypes, LoadTypes, UploadRows
<1>3. CASE Sweep
  <2>1. upload' \in [Uploads -> UploadRows]
    BY <1>1, <1>3, WithoutRows DEF Sweep
  <2> QED
    BY <1>1, <1>3, <2>1 DEF Sweep, UploadTypes, LoadTypes
<1>4. CASE \E k \in doomed : Destroy(k)
  BY <1>1, <1>4 DEF Destroy, UploadTypes, LoadTypes
<1> QED
  BY <1>2, <1>3, <1>4 DEF SweeperEvents

LEMMA CartUntouched ==
  ASSUME \/ \E u \in Uploads : BuyerEvents(u)
         \/ SweeperEvents
  PROVE  UNCHANGED <<uploadHolder, answers, snapshots>>
  BY DEF BuyerEvents, CreateUploadURL, MarkVerified, RefuseObject, PrepareCrop, ExtendLease, PutObject,
         LoadForDelete, DeleteLoaded, SweeperEvents, Age, Sweep, Destroy

LEMMA CheckoutTypes ==
  ASSUME ArtTypes, NEW c \in Checkouts, CheckoutStep(c)
  PROVE  UploadTypes' /\ NameTypes' /\ LoadTypes'
<1>1. UploadTypes /\ NameTypes /\ LoadTypes /\ upload \in [Uploads -> UploadRows]
  BY DEF ArtTypes, UploadTypes
<1>2. CASE Price(c)
  <2>1. {RowOf(u) : u \in Attached[c]} \subseteq PictureNames
    BY <1>1, RowsName, ArtworkConstants
  <2> QED
    BY <1>1, <1>2, <2>1 DEF Price, ReadUploads, UploadTypes, NameTypes, LoadTypes
<1>3. CASE AttachArtwork(c)
  BY <1>1, <1>3 DEF AttachArtwork, ClaimUploads, UploadTypes, NameTypes, LoadTypes
<1>4. CASE Commit(c)
  <2>1. /\ upload' = Claimed(c) /\ uploadHolder' = Released(c)
        /\ snapshots' = [snapshots EXCEPT ![c] = answers[c]] /\ UNCHANGED <<loaded, answers>>
    BY <1>4 DEF Commit, ArtworkCommit
  <2>2. UploadTypes'
    BY <1>1, <2>1, ClaimedRows, ReleasedRows DEF UploadTypes
  <2> QED
    BY <1>1, <2>1, <2>2 DEF NameTypes, LoadTypes
<1>5. CASE Rollback(c)
  BY <1>1, <1>5, ReleasedRows DEF Rollback, ArtworkRollback, UploadTypes, NameTypes, LoadTypes
<1>6. CASE PriceRefused(c) \/ Lookup(c) \/ InsertOrder(c) \/ ApplyCoupon(c) \/ IncrementCoupon(c)
           \/ DebitCard(c) \/ RedeemPointsTx(c)
  BY <1>1, <1>6 DEF PriceRefused, Lookup, InsertOrder, ApplyCoupon, IncrementCoupon, DebitCard,
     RedeemPointsTx,
     artworkVars, UploadTypes, NameTypes, LoadTypes
<1> QED
  BY <1>2, <1>3, <1>4, <1>5, <1>6 DEF CheckoutStep

-----------------------------------------------------------------------------
(* Who erases *)

AtWork == {"collect", "uploads", "items", "orders", "commit", "failing"}

\* One process at most is at the request, which shows how far it is; the
\* erasure and the record of it commit together.
ErasureInv ==
  /\ \A e \in Erasers : eraser[e].at \in AtWork => erasure.status = "processing"
  /\ \A e \in Erasers : eraser[e].at = "reap" => erasure.status = "completed"
  /\ \A e, f \in Erasers : eraser[e].at # "idle" /\ eraser[f].at # "idle" => e = f
  /\ anonymised # {} => erasure.status = "completed"
  /\ ErasedOnce

\* What a process does next, and what becomes of the request.
EraserGoes(e, entry) ==
  /\ entry \in EraserRows /\ eraser'[e] = entry
  /\ \A f \in Erasers \ {e} : eraser'[f] = eraser[f]
  /\ eraser' \in [Erasers -> EraserRows]

LEMMA EraserSteps ==
  ASSUME EraserTypes, NEW e \in Erasers, NEW entry \in EraserRows, eraser' = [eraser EXCEPT ![e] = entry]
  PROVE  EraserGoes(e, entry)
  BY DEF EraserTypes, EraserGoes

LEMMA SubjectsAreRequests ==
  ASSUME StageTypes
  PROVE  SubjectOrders \in SUBSET Checkouts
  BY DEF StageTypes, SubjectOrders

LEMMA RestingRow ==
  /\ Resting \in EraserRows /\ Resting.at = "idle" /\ Resting.keys = {} /\ Resting.rows = {}
  /\ [Resting EXCEPT !.at = "failing"] \in EraserRows /\ [Resting EXCEPT !.at = "failing"].at = "failing"
  BY DEF Resting, EraserRows, EraserPlaces

\* The request as the record of it has it.
LEMMA RequestRow ==
  ASSUME erasure \in ErasureRows
  PROVE  /\ [erasure EXCEPT !.status = "pending"] \in ErasureRows
         /\ [erasure EXCEPT !.status = "pending"].status = "pending"
         /\ [erasure EXCEPT !.status = "rejected", !.notes = "reason"] \in ErasureRows
         /\ [erasure EXCEPT !.status = "rejected", !.notes = "reason"].status = "rejected"
         /\ [erasure EXCEPT !.status = "processing", !.attempts = @ + 1] \in ErasureRows
         /\ [erasure EXCEPT !.status = "processing", !.attempts = @ + 1].status = "processing"
         /\ [erasure EXCEPT !.status = "completed", !.notes = "receipt"] \in ErasureRows
         /\ [erasure EXCEPT !.status = "completed", !.notes = "receipt"].status = "completed"
         /\ [erasure EXCEPT !.status = "failed", !.notes = "failure"] \in ErasureRows
         /\ [erasure EXCEPT !.status = "failed", !.notes = "failure"].status = "failed"
         /\ [erasure EXCEPT !.notes = "receipt with objects"] \in ErasureRows
         /\ [erasure EXCEPT !.notes = "receipt with objects"].status = erasure.status
<1>1. erasure.attempts + 1 \in Nat
  <2>1. erasure.attempts \in Nat
    BY DEF ErasureRows
  <2> QED
    BY <2>1
<1> QED
  BY <1>1 DEF ErasureRows

\* Where each statement leaves its process, and what it has to go on with.
CollectedKeys == UNION {KeysOf(a) : a \in UNION {snapshots[c] : c \in SubjectOrders}}
CartRows == IF Linked THEN {u \in Uploads : Present(u)} ELSE {}

LEMMA CollectedKeysNamed ==
  ASSUME StageTypes, NameTypes
  PROVE  CollectedKeys \in SUBSET PictureKeys
<1>1. \A c \in SubjectOrders : snapshots[c] \subseteq PictureNames
  BY SubjectsAreRequests DEF NameTypes
<1> QED
  BY <1>1, KeysName DEF CollectedKeys

LEMMA EraserRowChanges ==
  ASSUME EraserTypes, NEW e \in Erasers
  PROVE  /\ [eraser[e] EXCEPT !.at = "collect"] \in EraserRows
         /\ [eraser[e] EXCEPT !.at = "collect"].at = "collect"
         /\ \A keys \in SUBSET PictureKeys :
              LET entry == [eraser[e] EXCEPT !.at = "uploads", !.keys = keys] IN
              entry \in EraserRows /\ entry.at = "uploads" /\ entry.keys = keys
         /\ \A rows \in SUBSET Uploads :
              LET entry == [eraser[e] EXCEPT !.at = "items", !.rows = rows] IN
              entry \in EraserRows /\ entry.at = "items" /\ entry.keys = eraser[e].keys /\ entry.rows = rows
         /\ \A items \in SUBSET Checkouts :
              LET entry == [eraser[e] EXCEPT !.at = "orders", !.items = items] IN
              /\ entry \in EraserRows /\ entry.at = "orders" /\ entry.keys = eraser[e].keys
              /\ entry.rows = eraser[e].rows /\ entry.items = items
         /\ \A orders \in SUBSET Checkouts :
              LET entry == [eraser[e] EXCEPT !.at = "commit", !.orders = orders] IN
              /\ entry \in EraserRows /\ entry.at = "commit" /\ entry.keys = eraser[e].keys
              /\ entry.rows = eraser[e].rows /\ entry.items = eraser[e].items /\ entry.orders = orders
<1>1. eraser[e] \in EraserRows
  BY DEF EraserTypes
<1> QED
  BY <1>1 DEF EraserRows, EraserPlaces

LEMMA ReapRow ==
  ASSUME EraserTypes, NEW e \in Erasers
  PROVE  LET entry == [Resting EXCEPT !.at = "reap", !.keys = eraser[e].keys] IN
         entry \in EraserRows /\ entry.at = "reap" /\ entry.keys = eraser[e].keys
<1>1. eraser[e].keys \in SUBSET PictureKeys
  BY DEF EraserTypes, EraserRows
<1> QED
  BY <1>1 DEF Resting, EraserRows, EraserPlaces

\* The eleven steps of a process, as what they make of it.
LEMMA ErasureStepsOf ==
  ASSUME StageTypes, ArtTypes, NEW e \in Erasers
  PROVE  /\ ClaimErasure(e) => \E entry \in EraserRows : entry.at = "collect" /\ EraserGoes(e, entry)
         /\ CollectBlobURLs(e) => \E entry \in EraserRows :
              entry.at = "uploads" /\ entry.keys = CollectedKeys /\ EraserGoes(e, entry)
         /\ EraseUploads(e) => \E entry \in EraserRows :
              entry.at = "items" /\ entry.keys = eraser[e].keys /\ entry.rows = CartRows /\ EraserGoes(e, entry)
         /\ EraseSnapshots(e) => \E entry \in EraserRows :
              /\ entry.at = "orders" /\ entry.keys = eraser[e].keys /\ entry.rows = eraser[e].rows
              /\ entry.items = SubjectOrders /\ EraserGoes(e, entry)
         /\ AnonymiseOrders(e) => \E entry \in EraserRows :
              /\ entry.at = "commit" /\ entry.keys = eraser[e].keys /\ entry.rows = eraser[e].rows
              /\ entry.items = eraser[e].items /\ entry.orders = SubjectOrders /\ EraserGoes(e, entry)
         /\ CommitErasure(e) => \E entry \in EraserRows :
              entry.at = "reap" /\ entry.keys = eraser[e].keys /\ EraserGoes(e, entry)
         /\ ErasureFails(e) => \E entry \in EraserRows : entry.at = "failing" /\ EraserGoes(e, entry)
         /\ MarkFailed(e) \/ AmendReceipt(e) \/ EraserDies(e) =>
              \E entry \in EraserRows : entry.at = "idle" /\ EraserGoes(e, entry)
         /\ \A k \in eraser[e].keys : ReapBlob(e, k) => \E entry \in EraserRows :
              entry.at = "reap" /\ entry.keys = eraser[e].keys \ {k} /\ EraserGoes(e, entry)
<1>1. EraserTypes /\ NameTypes /\ eraser \in [Erasers -> EraserRows] /\ eraser[e] \in EraserRows
  BY DEF ArtTypes, EraserTypes
<1>2. ClaimErasure(e) => \E entry \in EraserRows : entry.at = "collect" /\ EraserGoes(e, entry)
  <2> SUFFICES ASSUME ClaimErasure(e) PROVE \E entry \in EraserRows : entry.at = "collect" /\ EraserGoes(e, entry)
    OBVIOUS
  <2> DEFINE entry == [eraser[e] EXCEPT !.at = "collect"]
  <2>1. eraser' = [eraser EXCEPT ![e] = entry]
    BY <1>1 DEF ClaimErasure
  <2>2. entry \in EraserRows /\ entry.at = "collect"
    BY <1>1, EraserRowChanges
  <2> HIDE DEF entry
  <2> QED
    BY <1>1, <2>1, <2>2, EraserSteps
<1>3. CollectBlobURLs(e) => \E entry \in EraserRows :
        entry.at = "uploads" /\ entry.keys = CollectedKeys /\ EraserGoes(e, entry)
  <2> SUFFICES ASSUME CollectBlobURLs(e)
               PROVE  \E entry \in EraserRows :
                        entry.at = "uploads" /\ entry.keys = CollectedKeys /\ EraserGoes(e, entry)
    OBVIOUS
  <2> DEFINE entry == [eraser[e] EXCEPT !.at = "uploads", !.keys = CollectedKeys]
  <2>1. eraser' = [eraser EXCEPT ![e] = entry]
    BY DEF CollectBlobURLs, Statement, CollectedKeys
  <2>2. entry \in EraserRows /\ entry.at = "uploads" /\ entry.keys = CollectedKeys
    BY <1>1, EraserRowChanges, CollectedKeysNamed
  <2> HIDE DEF entry
  <2> QED
    BY <1>1, <2>1, <2>2, EraserSteps
<1>4. EraseUploads(e) => \E entry \in EraserRows :
        entry.at = "items" /\ entry.keys = eraser[e].keys /\ entry.rows = CartRows /\ EraserGoes(e, entry)
  <2> SUFFICES ASSUME EraseUploads(e)
               PROVE  \E entry \in EraserRows : /\ entry.at = "items" /\ entry.keys = eraser[e].keys
                                              /\ entry.rows = CartRows /\ EraserGoes(e, entry)
    OBVIOUS
  <2> DEFINE entry == [eraser[e] EXCEPT !.at = "items", !.rows = CartRows]
  <2>1. eraser' = [eraser EXCEPT ![e] = entry]
    BY DEF EraseUploads, Statement, CartRows
  <2>2. CartRows \in SUBSET Uploads
    BY DEF CartRows
  <2>3. entry \in EraserRows /\ entry.at = "items" /\ entry.keys = eraser[e].keys /\ entry.rows = CartRows
    BY <1>1, <2>2, EraserRowChanges
  <2> HIDE DEF entry
  <2> QED
    BY <1>1, <2>1, <2>3, EraserSteps
<1>5. EraseSnapshots(e) => \E entry \in EraserRows :
        /\ entry.at = "orders" /\ entry.keys = eraser[e].keys /\ entry.rows = eraser[e].rows
        /\ entry.items = SubjectOrders /\ EraserGoes(e, entry)
  <2> SUFFICES ASSUME EraseSnapshots(e)
               PROVE  \E entry \in EraserRows :
                        /\ entry.at = "orders" /\ entry.keys = eraser[e].keys /\ entry.rows = eraser[e].rows
                        /\ entry.items = SubjectOrders /\ EraserGoes(e, entry)
    OBVIOUS
  <2> DEFINE entry == [eraser[e] EXCEPT !.at = "orders", !.items = SubjectOrders]
  <2>1. eraser' = [eraser EXCEPT ![e] = entry]
    BY DEF EraseSnapshots, Statement
  <2>2. /\ entry \in EraserRows /\ entry.at = "orders" /\ entry.keys = eraser[e].keys
        /\ entry.rows = eraser[e].rows /\ entry.items = SubjectOrders
    BY <1>1, SubjectsAreRequests, EraserRowChanges
  <2> HIDE DEF entry
  <2> QED
    BY <1>1, <2>1, <2>2, EraserSteps
<1>6. AnonymiseOrders(e) => \E entry \in EraserRows :
        /\ entry.at = "commit" /\ entry.keys = eraser[e].keys /\ entry.rows = eraser[e].rows
        /\ entry.items = eraser[e].items /\ entry.orders = SubjectOrders /\ EraserGoes(e, entry)
  <2> SUFFICES ASSUME AnonymiseOrders(e)
               PROVE  \E entry \in EraserRows :
                        /\ entry.at = "commit" /\ entry.keys = eraser[e].keys /\ entry.rows = eraser[e].rows
                        /\ entry.items = eraser[e].items /\ entry.orders = SubjectOrders /\ EraserGoes(e, entry)
    OBVIOUS
  <2> DEFINE entry == [eraser[e] EXCEPT !.at = "commit", !.orders = SubjectOrders]
  <2>1. eraser' = [eraser EXCEPT ![e] = entry]
    BY DEF AnonymiseOrders, Statement
  <2>2. /\ entry \in EraserRows /\ entry.at = "commit" /\ entry.keys = eraser[e].keys
        /\ entry.rows = eraser[e].rows /\ entry.items = eraser[e].items /\ entry.orders = SubjectOrders
    <3>1. SubjectOrders \in SUBSET Checkouts
      BY SubjectsAreRequests
    <3> QED
      BY <1>1, <3>1 DEF EraserRows, EraserPlaces
  <2> HIDE DEF entry
  <2> QED
    BY <1>1, <2>1, <2>2, EraserSteps
<1>7. CommitErasure(e) => \E entry \in EraserRows :
        entry.at = "reap" /\ entry.keys = eraser[e].keys /\ EraserGoes(e, entry)
  <2> SUFFICES ASSUME CommitErasure(e)
               PROVE  \E entry \in EraserRows : entry.at = "reap" /\ entry.keys = eraser[e].keys /\ EraserGoes(e, entry)
    OBVIOUS
  <2> DEFINE entry == [Resting EXCEPT !.at = "reap", !.keys = eraser[e].keys]
  <2>1. eraser' = [eraser EXCEPT ![e] = entry]
    BY DEF CommitErasure
  <2>2. entry \in EraserRows /\ entry.at = "reap" /\ entry.keys = eraser[e].keys
    BY <1>1, ReapRow
  <2> HIDE DEF entry
  <2> QED
    BY <1>1, <2>1, <2>2, EraserSteps
<1>8. ErasureFails(e) => \E entry \in EraserRows : entry.at = "failing" /\ EraserGoes(e, entry)
  <2> SUFFICES ASSUME ErasureFails(e) PROVE \E entry \in EraserRows : entry.at = "failing" /\ EraserGoes(e, entry)
    OBVIOUS
  <2>1. eraser' = [eraser EXCEPT ![e] = AfterFailure(e)]
    BY DEF ErasureFails
  <2>2. AfterFailure(e) \in EraserRows /\ AfterFailure(e).at = "failing"
    BY RestingRow DEF AfterFailure
  <2> QED
    BY <1>1, <2>1, <2>2, EraserSteps
<1>9. MarkFailed(e) \/ AmendReceipt(e) \/ EraserDies(e) =>
        \E entry \in EraserRows : entry.at = "idle" /\ EraserGoes(e, entry)
  BY <1>1, RestingRow, EraserSteps DEF MarkFailed, AmendReceipt, EraserDies
<1>10. \A k \in eraser[e].keys : ReapBlob(e, k) => \E entry \in EraserRows :
         entry.at = "reap" /\ entry.keys = eraser[e].keys \ {k} /\ EraserGoes(e, entry)
  <2> SUFFICES ASSUME NEW k \in eraser[e].keys, ReapBlob(e, k)
               PROVE  \E entry \in EraserRows :
                        entry.at = "reap" /\ entry.keys = eraser[e].keys \ {k} /\ EraserGoes(e, entry)
    OBVIOUS
  <2> DEFINE entry == [eraser[e] EXCEPT !.keys = @ \ {k}]
  <2>1. eraser' = [eraser EXCEPT ![e] = entry] /\ eraser[e].at = "reap"
    BY <1>1 DEF ReapBlob
  <2>2. entry \in EraserRows /\ entry.at = "reap" /\ entry.keys = eraser[e].keys \ {k}
    BY <1>1, <2>1 DEF EraserRows
  <2> HIDE DEF entry
  <2> QED
    BY <1>1, <2>1, <2>2, EraserSteps
<1> QED
  BY <1>2, <1>3, <1>4, <1>5, <1>6, <1>7, <1>8, <1>9, <1>10

LEMMA ErasureKeepsTypes ==
  ASSUME StageTypes, ArtTypes, ErasureStep
  PROVE  ArtTypes'
<1>1. /\ erasure \in ErasureRows /\ erasures \in Nat /\ eraser \in [Erasers -> EraserRows]
      /\ UploadTypes /\ NameTypes /\ LoadTypes
  BY DEF ArtTypes, EraserTypes
<1>2. erasure' \in ErasureRows /\ erasures' \in Nat
  <2>1. erasures' \in {erasures, erasures + 1}
    BY DEF ErasureStep, Ask, Reject, ClaimErasure, CollectBlobURLs, EraseUploads, EraseSnapshots,
       AnonymiseOrders, Statement, CommitErasure, ErasureFails, MarkFailed, ReapBlob, AmendReceipt, EraserDies
  <2> SUFFICES erasure' \in ErasureRows
    BY <1>1, <2>1
  <2>2. CASE Ask \/ Reject
    BY <1>1, <2>2, RequestRow DEF Ask, Reject
  <2>3. CASE \E e \in Erasers : ClaimErasure(e)
    BY <1>1, <2>3, RequestRow DEF ClaimErasure
  <2>4. CASE \E e \in Erasers : CommitErasure(e)
    BY <1>1, <2>4, RequestRow DEF CommitErasure
  <2>5. CASE \E e \in Erasers : MarkFailed(e) \/ AmendReceipt(e)
    BY <1>1, <2>5, RequestRow DEF MarkFailed, AmendReceipt
  <2>6. CASE UNCHANGED erasure
    BY <1>1, <2>6
  <2> QED
    BY <2>2, <2>3, <2>4, <2>5, <2>6 DEF ErasureStep, CollectBlobURLs, EraseUploads, EraseSnapshots,
       AnonymiseOrders, Statement, ErasureFails, ReapBlob, EraserDies
<1>3. eraser' \in [Erasers -> EraserRows]
  <2>1. CASE Ask \/ Reject
    BY <1>1, <2>1 DEF Ask, Reject
  <2>2. CASE \E e \in Erasers, entry \in EraserRows : EraserGoes(e, entry)
    BY <2>2 DEF EraserGoes
  <2> QED
    BY <2>1, <2>2, ErasureStepsOf DEF ErasureStep
<1>4. NameTypes' /\ LoadTypes'
  <2>1. UNCHANGED <<loaded, answers>>
    BY DEF ErasureStep, Ask, Reject, ClaimErasure, CollectBlobURLs, EraseUploads, EraseSnapshots,
       AnonymiseOrders,
       CommitErasure, ErasureFails, MarkFailed, ReapBlob, AmendReceipt, EraserDies, artworkVars
  <2>2. \/ UNCHANGED snapshots
        \/ \E e \in Erasers :
             snapshots' = [c \in Checkouts |-> IF c \in eraser[e].items THEN {} ELSE snapshots[c]]
    BY DEF ErasureStep, Ask, Reject, ClaimErasure, CollectBlobURLs, EraseUploads, EraseSnapshots,
       AnonymiseOrders,
       CommitErasure, ErasureFails, MarkFailed, ReapBlob, AmendReceipt, EraserDies, artworkVars
  <2>3. snapshots' \in [Checkouts -> SUBSET PictureNames]
    BY <1>1, <2>2 DEF NameTypes
  <2> QED
    BY <1>1, <2>1, <2>3 DEF NameTypes, LoadTypes
<1>5. UploadTypes'
  <2>1. CASE \E e \in Erasers : CommitErasure(e)
    <3>1. PICK e \in Erasers : CommitErasure(e)
      BY <2>1
    <3>2. eraser[e].rows \in SUBSET Uploads
      BY <1>1 DEF EraserRows
    <3>3. upload' \in [Uploads -> UploadRows] /\ DOMAIN uploadHolder' = Uploads
      BY <1>1, <3>1, <3>2, WithoutRows, ReleasedRows DEF CommitErasure
    <3> QED
      BY <3>3 DEF UploadTypes
  <2>2. CASE \E e \in Erasers : ErasureFails(e) \/ EraserDies(e)
    BY <1>1, <2>2, ReleasedRows DEF ErasureFails, EraserDies, UploadTypes
  <2>3. CASE \E e \in Erasers : EraseUploads(e)
    BY <1>1, <2>3 DEF EraseUploads, UploadTypes
  <2>4. CASE UNCHANGED <<upload, uploadHolder>>
    BY <1>1, <2>4 DEF UploadTypes
  <2> QED
    BY <2>1, <2>2, <2>3, <2>4 DEF ErasureStep, Ask, Reject, ClaimErasure, CollectBlobURLs, EraseSnapshots,
       AnonymiseOrders, MarkFailed, ReapBlob, AmendReceipt, artworkVars
<1> QED
  BY <1>2, <1>3, <1>4, <1>5 DEF ArtTypes, EraserTypes

LEMMA ShopKeepsTypes ==
  ASSUME StageInv, ArtTypes, [ShopNext]_shopVars
  PROVE  ArtTypes'
<1>1. CASE (\E c \in Checkouts : CheckoutStep(c)) /\ UNCHANGED erasureVars
  BY <1>1, CheckoutTypes DEF ArtTypes, EraserTypes, erasureVars
<1>2. CASE (SweeperEvents \/ \E u \in Uploads : BuyerEvents(u)) /\ UNCHANGED erasureVars
  BY <1>2, BuyerTypes, SweeperTypes, CartUntouched DEF ArtTypes, EraserTypes, NameTypes, erasureVars
<1>3. CASE ErasureStep
  BY <1>3, ErasureKeepsTypes DEF StageInv
<1>4. CASE UNCHANGED <<artworkVars, erasureVars>>
  BY <1>4 DEF ArtTypes, UploadTypes, NameTypes, LoadTypes, EraserTypes, artworkVars, erasureVars
<1>5. CASE UNCHANGED shopVars
  BY <1>4, <1>5 DEF shopVars, valueVars
<1> QED
  BY <1>1, <1>2, <1>3, <1>4, <1>5 DEF ShopNext

LEMMA ErasureInitInv == ShopInit => ErasureInv
<1> SUFFICES ASSUME ShopInit PROVE ErasureInv
  OBVIOUS
<1>1. /\ erasure = [status |-> "none", attempts |-> 0, notes |-> "none"] /\ anonymised = {} /\ erasures = 0
      /\ \A e \in Erasers : eraser[e] = Resting
  BY DEF ShopInit, ErasureInit
<1> QED
  BY <1>1, RestingRow DEF ErasureInv, ErasedOnce, AtWork

\* A step of the one process that is at the request.
LEMMA OneEraserMoves ==
  ASSUME ErasureInv, NEW e \in Erasers, NEW entry \in EraserRows, EraserGoes(e, entry),
         \A f \in Erasers : eraser[f].at # "idle" => f = e,
         entry.at \in AtWork => erasure'.status = "processing",
         entry.at = "reap" => erasure'.status = "completed"
  PROVE  /\ \A f \in Erasers : eraser'[f].at \in AtWork => erasure'.status = "processing"
         /\ \A f \in Erasers : eraser'[f].at = "reap" => erasure'.status = "completed"
         /\ \A f, g \in Erasers : eraser'[f].at # "idle" /\ eraser'[g].at # "idle" => f = g
<1>1. \A f \in Erasers : eraser'[f].at # "idle" => f = e
  BY DEF EraserGoes
<1>2. eraser'[e] = entry /\ "idle" \notin AtWork
  BY DEF EraserGoes, AtWork
<1> QED
  BY <1>1, <1>2

LEMMA ErasureKeepsInv ==
  ASSUME StageTypes, ArtTypes, ErasureInv, ErasureStep
  PROVE  ErasureInv'
<1>1. erasure \in ErasureRows /\ EraserTypes /\ "idle" \notin AtWork /\ "reap" \notin AtWork /\ erasures \in Nat
  BY DEF ArtTypes, EraserTypes, AtWork
<1>2. \A e \in Erasers : eraser[e].at \in AtWork \union {"reap", "idle"}
  BY DEF ArtTypes, EraserTypes, EraserRows, EraserPlaces, AtWork
<1>3. ASSUME Claimable
      PROVE  anonymised = {} /\ erasures = 0 /\ \A f \in Erasers : eraser[f].at = "idle"
  BY <1>2, <1>3 DEF Claimable, ErasureInv, ErasedOnce
<1>4. CASE Ask
  <2>1. UNCHANGED <<eraser, anonymised, erasures>> /\ erasure.status = "none" /\ erasure'.status = "pending"
    BY <1>1, <1>4, RequestRow DEF Ask
  <2> QED
    BY <1>2, <2>1 DEF ErasureInv, ErasedOnce
<1>5. CASE Reject
  <2>1. UNCHANGED <<eraser, anonymised, erasures>> /\ Claimable /\ erasure'.status = "rejected"
    BY <1>1, <1>5, RequestRow DEF Reject
  <2> QED
    BY <1>1, <1>3, <2>1 DEF ErasureInv, ErasedOnce
<1>6. ASSUME NEW e \in Erasers, NEW entry \in EraserRows, EraserGoes(e, entry), entry.at \in AtWork,
             eraser[e].at \in AtWork, UNCHANGED <<erasure, anonymised, erasures>>
      PROVE  ErasureInv'
  <2>1. \A f \in Erasers : eraser[f].at # "idle" => f = e
    BY <1>1, <1>6 DEF ErasureInv
  <2>2. erasure'.status = "processing"
    BY <1>6 DEF ErasureInv
  <2> QED
    BY <1>1, <1>6, <2>1, <2>2, OneEraserMoves DEF ErasureInv, ErasedOnce
<1>7. ASSUME NEW e \in Erasers, ClaimErasure(e)
      PROVE  ErasureInv'
  <2>1. PICK entry \in EraserRows : entry.at = "collect" /\ EraserGoes(e, entry)
    BY <1>7, ErasureStepsOf
  <2>2. Claimable /\ UNCHANGED <<anonymised, erasures>> /\ erasure'.status = "processing"
    BY <1>1, <1>7, RequestRow DEF ClaimErasure
  <2>3. \A f \in Erasers : eraser[f].at # "idle" => f = e
    BY <1>3, <2>2
  <2>4. /\ \A f \in Erasers : eraser'[f].at \in AtWork => erasure'.status = "processing"
        /\ \A f \in Erasers : eraser'[f].at = "reap" => erasure'.status = "completed"
        /\ \A f, g \in Erasers : eraser'[f].at # "idle" /\ eraser'[g].at # "idle" => f = g
    BY <2>1, <2>2, <2>3, OneEraserMoves
  <2> QED
    BY <1>3, <2>2, <2>4 DEF ErasureInv, ErasedOnce
<1>8. ASSUME NEW e \in Erasers,
             CollectBlobURLs(e) \/ EraseUploads(e) \/ EraseSnapshots(e) \/ AnonymiseOrders(e) \/ ErasureFails(e)
      PROVE  ErasureInv'
  <2>1. \E entry \in EraserRows : entry.at \in AtWork /\ EraserGoes(e, entry)
    BY <1>8, ErasureStepsOf DEF AtWork
  <2>2. eraser[e].at \in AtWork /\ UNCHANGED <<erasure, anonymised, erasures>>
    BY <1>8 DEF CollectBlobURLs, EraseUploads, EraseSnapshots, AnonymiseOrders, Statement, ErasureFails,
       InErasureTx, AtWork
  <2> QED
    BY <1>6, <2>1, <2>2
<1>9. ASSUME NEW e \in Erasers, CommitErasure(e)
      PROVE  ErasureInv'
  <2>1. PICK entry \in EraserRows : entry.at = "reap" /\ EraserGoes(e, entry)
    BY <1>9, ErasureStepsOf
  <2>2. eraser[e].at = "commit" /\ erasures' = erasures + 1 /\ erasure'.status = "completed"
    BY <1>1, <1>9, RequestRow DEF CommitErasure
  <2>3. erasure.status = "processing" /\ \A f \in Erasers : eraser[f].at # "idle" => f = e
    BY <2>2 DEF ErasureInv, AtWork
  <2>4. erasures = 0
    BY <2>3 DEF ErasureInv, ErasedOnce
  <2>5. /\ \A f \in Erasers : eraser'[f].at \in AtWork => erasure'.status = "processing"
        /\ \A f \in Erasers : eraser'[f].at = "reap" => erasure'.status = "completed"
        /\ \A f, g \in Erasers : eraser'[f].at # "idle" /\ eraser'[g].at # "idle" => f = g
    BY <1>1, <2>1, <2>2, <2>3, OneEraserMoves
  <2>6. ErasedOnce'
    BY <2>2, <2>4 DEF ErasedOnce
  <2> QED
    BY <2>2, <2>5, <2>6 DEF ErasureInv
<1>10. ASSUME NEW e \in Erasers, MarkFailed(e) \/ AmendReceipt(e) \/ EraserDies(e)
       PROVE  ErasureInv'
  <2>1. PICK entry \in EraserRows : entry.at = "idle" /\ EraserGoes(e, entry)
    BY <1>10, ErasureStepsOf
  <2>2. UNCHANGED <<anonymised, erasures>> /\ eraser[e].at # "idle"
    BY <1>10 DEF MarkFailed, AmendReceipt, EraserDies
  <2>3. \/ erasure'.status = erasure.status
        \/ erasure.status = "processing" /\ erasure'.status = "failed"
    BY <1>1, <1>10, RequestRow DEF MarkFailed, AmendReceipt, EraserDies, ErasureInv, AtWork
  <2>4. \A f \in Erasers : eraser[f].at # "idle" => f = e
    BY <2>2 DEF ErasureInv
  <2>5. /\ \A f \in Erasers : eraser'[f].at \in AtWork => erasure'.status = "processing"
        /\ \A f \in Erasers : eraser'[f].at = "reap" => erasure'.status = "completed"
        /\ \A f, g \in Erasers : eraser'[f].at # "idle" /\ eraser'[g].at # "idle" => f = g
    BY <1>1, <2>1, <2>4, OneEraserMoves
  <2> QED
    BY <2>2, <2>3, <2>5 DEF ErasureInv, ErasedOnce
<1>11. ASSUME NEW e \in Erasers, NEW k \in eraser[e].keys, ReapBlob(e, k)
       PROVE  ErasureInv'
  <2>1. PICK entry \in EraserRows : entry.at = "reap" /\ EraserGoes(e, entry)
    BY <1>11, ErasureStepsOf
  <2>2. UNCHANGED <<erasure, anonymised, erasures>> /\ eraser[e].at = "reap"
    BY <1>11 DEF ReapBlob
  <2>3. erasure'.status = "completed" /\ \A f \in Erasers : eraser[f].at # "idle" => f = e
    BY <2>2 DEF ErasureInv
  <2>4. /\ \A f \in Erasers : eraser'[f].at \in AtWork => erasure'.status = "processing"
        /\ \A f \in Erasers : eraser'[f].at = "reap" => erasure'.status = "completed"
        /\ \A f, g \in Erasers : eraser'[f].at # "idle" /\ eraser'[g].at # "idle" => f = g
    BY <1>1, <2>1, <2>3, OneEraserMoves
  <2> QED
    BY <2>2, <2>3, <2>4 DEF ErasureInv, ErasedOnce
<1> QED
  BY <1>4, <1>5, <1>7, <1>8, <1>9, <1>10, <1>11 DEF ErasureStep

LEMMA ShopKeepsErasure ==
  ASSUME StageInv, ArtTypes, ErasureInv, [ShopNext]_shopVars
  PROVE  ErasureInv'
<1>1. CASE ErasureStep
  BY <1>1, ErasureKeepsInv DEF StageInv
<1>2. CASE UNCHANGED erasureVars
  BY <1>2 DEF ErasureInv, ErasedOnce, erasureVars
<1>3. CASE UNCHANGED shopVars
  BY <1>2, <1>3 DEF shopVars
<1> QED
  BY <1>1, <1>2, <1>3 DEF ShopNext

-----------------------------------------------------------------------------
(* The pictures of an order *)

RowPlaces == {"items", "orders", "commit"}
HasRead(c) == stage[c] \in TxStages \union {"lookup", "insert", "placed", "reused"}

\* A picture that no order names, but one it was taken along from, and whose row
\* is gone; a key that the buyer gave up, or of such a picture.
Lost(u) ==
  /\ upload[u].state = "gone"
  /\ \A c \in Checkouts : \A a \in snapshots[c] : a.upload = u => TakenAlong(c)
KeyLost(k) == k[1] \in Uploads /\ (k[1] \in withdrawn \/ Lost(k[1]))

\* The subject has an order with pictures of the cart.
SubjectsCart == \E d \in SubjectOrders : Attached[d] # {}

\* A request read what it attached, and its order has what it read.
AnswersFit ==
  \A c \in Checkouts :
    /\ \A a \in answers[c] : a.upload \in Attached[c]
    /\ HasRead(c) => \A u \in Attached[c] : \E a \in answers[c] : a.upload = u
    /\ snapshots[c] \subseteq answers[c]
    /\ c \notin placed => snapshots[c] = {}

\* The rows locked are those of the transactions that have come that far.
HoldersFit ==
  \A u \in Uploads :
    /\ \A c \in Checkouts : uploadHolder[u] = c <=> HasClaimed(c) /\ u \in Attached[c]
    /\ \A e \in Erasers : uploadHolder[u] = e <=> eraser[e].at \in RowPlaces /\ u \in eraser[e].rows

\* Nobody deletes a row that a checkout has.
HeldIsThere == \A u \in Uploads : uploadHolder[u] \in Checkouts => Present(u)

OrderedIsClaimed ==
  \A c \in Checkouts : \A a \in snapshots[c] : upload[a.upload].state \in {"claimed", "gone"}

LoadedIsWithdrawn == \A l \in loaded : l.row.upload \in withdrawn

TakenIsLost ==
  /\ \A k \in doomed \union destroyed : KeyLost(k)
  /\ \A e \in Erasers : eraser[e].at = "reap" => \A k \in eraser[e].keys : KeyLost(k)

\* What an erasure has collected so far is the subject's, and all there is of it.
CollectedFits(e) ==
  eraser[e].at = "uploads" =>
    \A k \in eraser[e].keys : \E c \in SubjectOrders : \E a \in snapshots[c] : a.upload = k[1]
RowsFit(e) ==
  eraser[e].at \in RowPlaces =>
    /\ \A k \in eraser[e].keys : k[1] \in eraser[e].rows \/ upload[k[1]].state = "gone"
    /\ eraser[e].keys # {} \/ eraser[e].rows # {} => SubjectsCart
ItemsFit(e) ==
  eraser[e].at \in {"orders", "commit"} =>
    \A c \in placed : \A a \in snapshots[c] :
      EmailOf[c] = Subject
        /\ (a.upload \in eraser[e].rows \/ (\E k \in eraser[e].keys : k[1] = a.upload)) => c \in eraser[e].items
OrdersFit(e) ==
  /\ eraser[e].at = "orders" => eraser[e].items \subseteq SubjectOrders
  /\ eraser[e].at = "commit" =>
       /\ eraser[e].items \subseteq eraser[e].orders
       /\ eraser[e].keys # {} \/ eraser[e].rows # {} => \E d \in eraser[e].orders : Attached[d] # {}
ErasersFit == \A e \in Erasers : CollectedFits(e) /\ RowsFit(e) /\ ItemsFit(e) /\ OrdersFit(e)

OrdersKeepRows ==
  \A c \in placed \ anonymised : \A a \in answers[c] :
    a \in snapshots[c]
    /\ (a.upload \in withdrawn \/ TakenAlong(c) \/ upload[a.upload].state = "claimed")

ArtInv ==
  /\ AnswersFit /\ HoldersFit /\ HeldIsThere /\ OrderedIsClaimed /\ LoadedIsWithdrawn
  /\ TakenIsLost /\ ErasersFit /\ OrdersKeepRows /\ ClaimedIsOrdered

LEMMA NamesAreUploads ==
  ASSUME NameTypes, NEW c \in Checkouts
  PROVE  /\ answers[c] \subseteq PictureNames /\ snapshots[c] \subseteq PictureNames
         /\ \A a \in answers[c] \union snapshots[c] : a.upload \in Uploads
<1>1. answers[c] \subseteq PictureNames /\ snapshots[c] \subseteq PictureNames
  BY DEF NameTypes
<1> QED
  BY <1>1 DEF PictureNames

\* No object of a picture that its order keeps was destroyed.
LEMMA ArtInvSafe ==
  ASSUME StageTypes, ArtTypes, ArtInv
  PROVE  ArtworkSafe
<1>1. RowsBeforeObjects
  <2> SUFFICES ASSUME NEW k \in destroyed, k[1] \notin withdrawn
               PROVE  /\ ~Present(k[1])
                      /\ \A c \in Checkouts : \A a \in snapshots[c] : k \in KeysOf(a) => TakenAlong(c)
    BY DEF RowsBeforeObjects
  <2>1. k[1] \in Uploads /\ Lost(k[1])
    BY DEF ArtInv, TakenIsLost, KeyLost
  <2>2. ~Present(k[1])
    BY <2>1 DEF Lost, Present, TakenAlong
  <2>3. \A c \in Checkouts : \A a \in snapshots[c] : k \in KeysOf(a) => TakenAlong(c)
    BY <2>1, KeysName, NamesAreUploads DEF Lost, ArtTypes
  <2> QED
    BY <2>2, <2>3
<1>2. OrderKeepsArtwork
  <2> SUFFICES ASSUME NEW c \in placed \ anonymised, NEW a \in answers[c]
               PROVE  /\ a \in snapshots[c]
                      /\ \/ a.upload \in withdrawn \/ TakenAlong(c)
                         \/ Present(a.upload) /\ KeysOf(a) \intersect destroyed = {}
    BY DEF OrderKeepsArtwork
  <2>1. a \in snapshots[c] /\ (a.upload \in withdrawn \/ TakenAlong(c) \/ upload[a.upload].state = "claimed")
    BY DEF ArtInv, OrdersKeepRows
  <2>2. c \in Checkouts
    BY DEF StageTypes
  <2>3. a \in PictureNames
    BY <2>1, <2>2, NamesAreUploads DEF ArtTypes
  <2>4. ASSUME a.upload \notin withdrawn, ~TakenAlong(c), NEW k \in KeysOf(a) \intersect destroyed
        PROVE  FALSE
    <3>1. k[1] = a.upload
      BY <2>3, KeysName
    <3>2. Lost(a.upload)
      BY <2>4, <3>1 DEF ArtInv, TakenIsLost, KeyLost
    <3> QED
      BY <2>1, <2>2, <2>4, <3>2 DEF Lost
  <2> QED
    BY <2>1, <2>4 DEF Present
<1>3. ClaimedIsOrdered
  BY DEF ArtInv
<1> QED
  BY <1>1, <1>2, <1>3 DEF ArtworkSafe

LEMMA ArtInitInv ==
  ASSUME ShopInit
  PROVE  ArtInv
<1>1. /\ upload \in [Uploads -> {NoUpload, Uploaded}] /\ uploadHolder = [u \in Uploads |-> Nobody]
      /\ loaded = {} /\ doomed = {} /\ destroyed = {}
      /\ \A c \in Checkouts : answers[c] = {} /\ snapshots[c] = {} /\ stage[c] = "idle"
      /\ \A e \in Erasers : eraser[e] = Resting
      /\ placed = {}
  BY DEF ShopInit, ArtworkInit, ErasureInit, CheckoutInit
<1>2. \A c \in Checkouts : ~HasRead(c) /\ ~HasClaimed(c)
  BY <1>1 DEF HasRead, HasClaimed, TxStages
<1>3. \A e \in Erasers : eraser[e].at = "idle"
  BY <1>1, RestingRow
<1>4. \A u \in Uploads : upload[u].state # "claimed"
  BY <1>1 DEF NoUpload, Uploaded
<1>5. AnswersFit /\ OrderedIsClaimed /\ LoadedIsWithdrawn /\ TakenIsLost /\ OrdersKeepRows
  BY <1>1, <1>2, <1>3 DEF AnswersFit, OrderedIsClaimed, LoadedIsWithdrawn, TakenIsLost, OrdersKeepRows, TakenAlong
<1>6. HoldersFit /\ HeldIsThere
  BY <1>1, <1>2, <1>3, ArtworkConstants DEF HoldersFit, HeldIsThere, RowPlaces
<1>7. ErasersFit
  BY <1>3 DEF ErasersFit, CollectedFits, RowsFit, ItemsFit, OrdersFit, RowPlaces, SubjectsCart, SubjectOrders
<1>8. ClaimedIsOrdered
  BY <1>4 DEF ClaimedIsOrdered
<1> QED
  BY <1>5, <1>6, <1>7, <1>8 DEF ArtInv

\* What a buyer, a browser and the sweeper do to rows and objects.
LEMMA RowsMove ==
  ASSUME StageTypes, ArtTypes, ArtInv,
         UNCHANGED <<uploadHolder, answers, snapshots, stage, placed, eraser, anonymised>>,
         withdrawn \subseteq withdrawn',
         \A u \in Uploads :
           /\ upload[u].state = "gone" => upload'[u].state = "gone"
           /\ upload[u].state = "claimed" =>
                upload'[u].state = "claimed" \/ (upload'[u].state = "gone" /\ u \in withdrawn')
           /\ upload'[u].state = "claimed" => upload[u].state = "claimed"
           /\ Present(u) /\ uploadHolder[u] # Nobody => Present(u)',
         \A l \in loaded' : l.row.upload \in withdrawn',
         \A k \in doomed' \union destroyed' :
           \/ k \in doomed \union destroyed
           \/ k[1] \in Uploads /\ k[1] \in withdrawn'
           \/ k[1] \in Uploads /\ Unclaimed(k[1]) /\ upload'[k[1]].state = "gone"
  PROVE  ArtInv'
<1>1. \A c \in Checkouts : \A a \in answers[c] \union snapshots[c] : a.upload \in Uploads
  BY NamesAreUploads DEF ArtTypes
<1>2. AnswersFit' /\ HoldersFit'
  BY DEF ArtInv, AnswersFit, HasRead, HoldersFit, HasClaimed
<1>3. HeldIsThere'
  BY ArtworkConstants DEF ArtInv, HeldIsThere
<1>4. OrderedIsClaimed'
  BY <1>1 DEF ArtInv, OrderedIsClaimed
<1>5. LoadedIsWithdrawn'
  BY DEF LoadedIsWithdrawn
<1>6. \A k : KeyLost(k) => KeyLost(k)'
  BY DEF KeyLost, Lost, TakenAlong
<1>7. TakenIsLost'
  <2>1. ASSUME NEW u \in Uploads, Unclaimed(u), upload'[u].state = "gone"
        PROVE  Lost(u)'
    BY <2>1 DEF ArtInv, OrderedIsClaimed, Unclaimed, Lost, TakenAlong
  <2> QED
    BY <1>6, <2>1 DEF ArtInv, TakenIsLost, KeyLost
<1>8. ErasersFit'
  <2>1. ASSUME NEW e \in Erasers PROVE RowsFit(e)'
    <3>1. \A k \in eraser[e].keys : k[1] \in Uploads
      BY DEF ArtTypes, EraserTypes, EraserRows, PictureKeys
    <3> QED
      BY <3>1 DEF ArtInv, ErasersFit, RowsFit, SubjectsCart, SubjectOrders
  <2>2. ASSUME NEW e \in Erasers PROVE CollectedFits(e)' /\ ItemsFit(e)' /\ OrdersFit(e)'
    BY DEF ArtInv, ErasersFit, CollectedFits, ItemsFit, OrdersFit, SubjectOrders
  <2> QED
    BY <2>1, <2>2 DEF ErasersFit
<1>9. OrdersKeepRows'
  BY <1>1 DEF ArtInv, OrdersKeepRows, StageTypes, TakenAlong
<1>10. ClaimedIsOrdered'
  BY DEF ArtInv, ClaimedIsOrdered
<1> QED
  BY <1>2, <1>3, <1>4, <1>5, <1>7, <1>8, <1>9, <1>10 DEF ArtInv

\* A step of the cart moves no request and no erasure.
LEMMA BuyerKeepsArt ==
  ASSUME StageTypes, ArtTypes, ArtInv, NEW u \in Uploads, BuyerEvents(u),
         UNCHANGED <<stage, placed, eraser, anonymised>>
  PROVE  ArtInv'
<1>1. /\ UNCHANGED <<uploadHolder, answers, snapshots>> /\ upload \in [Uploads -> UploadRows] /\ UploadTypes
      /\ LoadedIsWithdrawn
  BY CartUntouched DEF ArtTypes, UploadTypes, ArtInv
<1>2. CASE CreateUploadURL(u)
  <2>1. /\ upload[u].state = "none" /\ upload'[u].state = "pending"
        /\ \A v \in Uploads \ {u} : upload'[v] = upload[v]
        /\ UNCHANGED <<loaded, doomed, destroyed, withdrawn>>
    BY <1>1, <1>2 DEF CreateUploadURL
  <2> QED
    BY <1>1, <2>1, RowsMove DEF Present, LoadedIsWithdrawn
<1>3. CASE MarkVerified(u) \/ PrepareCrop(u) \/ ExtendLease(u)
  <2>1. /\ Unclaimed(u) /\ upload'[u].state \in {upload[u].state, "verified"}
        /\ \A v \in Uploads \ {u} : upload'[v] = upload[v]
        /\ UNCHANGED <<loaded, doomed, destroyed, withdrawn>>
    BY <1>1, <1>3 DEF MarkVerified, PrepareCrop, ExtendLease, Unclaimed, UploadRows
  <2> QED
    BY <1>1, <2>1, RowsMove DEF Present, Unclaimed, LoadedIsWithdrawn
<1>4. CASE RefuseObject(u)
  <2>1. /\ UNCHANGED <<upload, loaded, doomed>> /\ withdrawn' = withdrawn \union {u}
        /\ destroyed' = destroyed \union {<<u, 0>>}
    BY <1>4 DEF RefuseObject
  <2>2. LoadedIsWithdrawn'
    BY <1>1, <2>1 DEF LoadedIsWithdrawn
  <2> QED
    BY <1>1, <2>1, <2>2, RowsMove DEF LoadedIsWithdrawn, Present
<1>5. CASE \E object \in {"good", "bad"} : PutObject(u, object)
  <2>1. UNCHANGED <<upload, loaded, doomed, destroyed, withdrawn>>
    BY <1>5 DEF PutObject
  <2> QED
    BY <1>1, <2>1, RowsMove DEF LoadedIsWithdrawn, Present
<1>6. CASE \E destroys \in BOOLEAN : LoadForDelete(u, destroys)
  <2>1. PICK destroys \in BOOLEAN : LoadForDelete(u, destroys)
    BY <1>6
  <2>2. /\ UNCHANGED <<upload, doomed, destroyed>> /\ withdrawn' = withdrawn \union {u}
        /\ loaded' = loaded \union {[row |-> RowOf(u), destroys |-> destroys]}
    BY <2>1 DEF LoadForDelete
  <2>3. \A l \in loaded' : l.row.upload \in withdrawn'
    BY <1>1, <2>2, RowsName DEF LoadedIsWithdrawn
  <2> QED
    BY <1>1, <2>2, <2>3, RowsMove DEF Present
<1>7. CASE \E l \in loaded : l.row.upload = u /\ DeleteLoaded(l)
  <2>1. PICK l \in loaded : l.row.upload = u /\ DeleteLoaded(l)
    BY <1>7
  <2>2. /\ uploadHolder[u] = Nobody /\ loaded' = loaded \ {l} /\ upload' = Without({u})
        /\ UNCHANGED <<destroyed, withdrawn>> /\ doomed' \subseteq doomed \union KeysOf(l.row)
    BY <2>1 DEF DeleteLoaded, UploadFree
  <2>3. u \in withdrawn /\ l.row \in PictureNames
    BY <1>1, <2>1 DEF LoadedIsWithdrawn, ArtTypes, LoadTypes
  <2>4. upload'[u].state = "gone" /\ \A v \in Uploads \ {u} : upload'[v] = upload[v]
    BY <1>1, <2>2, WithoutRows
  <2>5. \A k \in KeysOf(l.row) : k[1] = u
    BY <2>1, <2>3, KeysName
  <2> QED
    BY <1>1, <2>2, <2>3, <2>4, <2>5, RowsMove DEF Present, LoadedIsWithdrawn
<1> QED
  BY <1>2, <1>3, <1>4, <1>5, <1>6, <1>7 DEF BuyerEvents

LEMMA SweeperKeepsArt ==
  ASSUME StageTypes, ArtTypes, ArtInv, SweeperEvents, UNCHANGED <<stage, placed, eraser, anonymised>>
  PROVE  ArtInv'
<1>1. /\ UNCHANGED <<uploadHolder, answers, snapshots>> /\ upload \in [Uploads -> UploadRows] /\ UploadTypes
      /\ LoadedIsWithdrawn
  BY CartUntouched DEF ArtTypes, UploadTypes, ArtInv
<1>2. ASSUME NEW u \in Uploads, Age(u)
      PROVE  ArtInv'
  <2>1. /\ \A v \in Uploads : upload'[v].state = upload[v].state
        /\ UNCHANGED <<loaded, doomed, destroyed, withdrawn>>
    BY <1>1, <1>2 DEF Age, UploadRows
  <2> QED
    BY <1>1, <2>1, RowsMove DEF Present, LoadedIsWithdrawn
<1>3. CASE Sweep
  <2> DEFINE us == {u \in Uploads : Sweepable(u)}
  <2>1. /\ upload' = Without(us) /\ UNCHANGED <<loaded, destroyed, withdrawn>>
        /\ doomed' = doomed \union UNION {KeysOf(RowOf(u)) : u \in us}
    BY <1>3 DEF Sweep
  <2>2. \A u \in us : u \in Uploads /\ Unclaimed(u) /\ uploadHolder[u] = Nobody
    BY DEF Sweepable, UploadFree
  <2>3. us \in SUBSET Uploads
    OBVIOUS
  <2> HIDE DEF us
  <2>4. \A u \in Uploads : IF u \in us THEN upload'[u].state = "gone" ELSE upload'[u] = upload[u]
    BY <1>1, <2>1, <2>3, WithoutRows
  <2>5. \A u \in us : \A k \in KeysOf(RowOf(u)) : k[1] = u
    BY <1>1, <2>2, RowsName, KeysName
  <2>6. \A k \in doomed' \union destroyed' :
          k \in doomed \union destroyed \/ (k[1] \in Uploads /\ Unclaimed(k[1]) /\ upload'[k[1]].state = "gone")
    BY <2>1, <2>2, <2>4, <2>5
  <2> QED
    BY <1>1, <2>1, <2>2, <2>4, <2>6, RowsMove DEF Present, Unclaimed, LoadedIsWithdrawn
<1>4. CASE \E k \in doomed : Destroy(k)
  <2>1. /\ UNCHANGED <<upload, loaded, withdrawn>>
        /\ doomed' \union destroyed' \subseteq doomed \union destroyed
    BY <1>4 DEF Destroy
  <2> QED
    BY <1>1, <2>1, RowsMove DEF Present, LoadedIsWithdrawn
<1> QED
  BY <1>2, <1>3, <1>4 DEF SweeperEvents

LEMMA UntouchedArt ==
  ASSUME ArtInv, UNCHANGED <<artworkVars, stage, placed, eraser, anonymised>>
  PROVE  ArtInv'
<1>1. AnswersFit' /\ HoldersFit' /\ HeldIsThere'
  BY DEF ArtInv, artworkVars, AnswersFit, HasRead, HoldersFit, HasClaimed, HeldIsThere, Present
<1>2. OrderedIsClaimed' /\ LoadedIsWithdrawn' /\ TakenIsLost'
  BY DEF ArtInv, artworkVars, OrderedIsClaimed, LoadedIsWithdrawn, TakenIsLost, KeyLost, Lost, TakenAlong
<1>3. ErasersFit'
  BY DEF ArtInv, artworkVars, ErasersFit, CollectedFits, RowsFit, ItemsFit, OrdersFit, SubjectOrders, SubjectsCart
<1>4. OrdersKeepRows' /\ ClaimedIsOrdered'
  BY DEF ArtInv, artworkVars, OrdersKeepRows, ClaimedIsOrdered, TakenAlong
<1> QED
  BY <1>1, <1>2, <1>3, <1>4 DEF ArtInv

\* A request that goes on without touching a picture.
LEMMA QuietKeepsArt ==
  ASSUME ArtInv, UNCHANGED <<artworkVars, placed, eraser, anonymised>>,
         \A d \in Checkouts : (HasClaimed(d)' <=> HasClaimed(d)) /\ (HasRead(d)' => HasRead(d))
  PROVE  ArtInv'
<1>1. AnswersFit'
  BY DEF ArtInv, artworkVars, AnswersFit
<1>2. HoldersFit' /\ HeldIsThere'
  BY DEF ArtInv, artworkVars, HoldersFit, HeldIsThere, Present
<1>3. OrderedIsClaimed' /\ LoadedIsWithdrawn' /\ TakenIsLost'
  BY DEF ArtInv, artworkVars, OrderedIsClaimed, LoadedIsWithdrawn, TakenIsLost, KeyLost, Lost, TakenAlong
<1>4. ErasersFit'
  BY DEF ArtInv, artworkVars, ErasersFit, CollectedFits, RowsFit, ItemsFit, OrdersFit, SubjectOrders, SubjectsCart
<1>5. OrdersKeepRows' /\ ClaimedIsOrdered'
  BY DEF ArtInv, artworkVars, OrdersKeepRows, ClaimedIsOrdered, TakenAlong
<1> QED
  BY <1>1, <1>2, <1>3, <1>4, <1>5 DEF ArtInv

LEMMA PriceKeepsArt ==
  ASSUME StageInv, ArtTypes, ArtInv, NEW c \in Checkouts, Price(c), UNCHANGED <<eraser, anonymised>>
  PROVE  ArtInv'
<1>1. /\ stage[c] = "idle" /\ stage'[c] = "lookup" /\ c \notin placed /\ placed' = placed
      /\ \A d \in Checkouts \ {c} : stage'[d] = stage[d]
  BY DEF Price, Moves, StageInv, StageTypes
<1>2. /\ answers' = [answers EXCEPT ![c] = {RowOf(u) : u \in Attached[c]}]
      /\ UNCHANGED <<upload, uploadHolder, loaded, doomed, destroyed, withdrawn, snapshots>>
      /\ answers \in [Checkouts -> SUBSET PictureNames] /\ placed \subseteq Checkouts /\ UploadTypes
  BY DEF Price, ReadUploads, ArtTypes, NameTypes, StageInv, StageTypes
<1>3. /\ answers'[c] = {RowOf(u) : u \in Attached[c]}
      /\ \A d \in Checkouts \ {c} : answers'[d] = answers[d]
  BY <1>2
<1>4. \A u \in Attached[c] : RowOf(u).upload = u
  BY <1>2, RowsName, ArtworkConstants
<1>5. \A d \in Checkouts : HasClaimed(d)' <=> HasClaimed(d)
  BY <1>1 DEF HasClaimed
<1>6. AnswersFit'
  <2>1. snapshots[c] = {}
    BY <1>1 DEF ArtInv, AnswersFit
  <2> QED
    BY <1>1, <1>2, <1>3, <1>4, <2>1 DEF ArtInv, AnswersFit, HasRead
<1>7. HoldersFit' /\ HeldIsThere'
  BY <1>2, <1>5 DEF ArtInv, HoldersFit, HeldIsThere, Present
<1>8. OrderedIsClaimed' /\ LoadedIsWithdrawn' /\ TakenIsLost'
  BY <1>2 DEF ArtInv, OrderedIsClaimed, LoadedIsWithdrawn, TakenIsLost, KeyLost, Lost, TakenAlong
<1>9. ErasersFit'
  BY <1>1, <1>2 DEF ArtInv, ErasersFit, CollectedFits, RowsFit, ItemsFit, OrdersFit, SubjectOrders, SubjectsCart
<1>10. OrdersKeepRows' /\ ClaimedIsOrdered'
  BY <1>1, <1>2, <1>3 DEF ArtInv, OrdersKeepRows, ClaimedIsOrdered, TakenAlong
<1> QED
  BY <1>6, <1>7, <1>8, <1>9, <1>10 DEF ArtInv

LEMMA ClaimKeepsArt ==
  ASSUME StageInv, ArtTypes, ArtInv, NEW c \in Checkouts, AttachArtwork(c), UNCHANGED <<eraser, anonymised>>
  PROVE  ArtInv'
<1>1. PICK to \in TxStages : stage[c] = "artwork" /\ stage'[c] = to
  BY GoesOnTo, StepsInOrder DEF AttachArtwork, StageInv, TxStages
<1>2. /\ \A d \in Checkouts \ {c} : HasClaimed(d)' <=> HasClaimed(d)
      /\ \A d \in Checkouts \ {c} : stage'[d] = stage[d]
  BY OthersStay DEF CheckoutStep
<1>3. HasClaimed(c)' /\ ~HasClaimed(c)
  BY <1>1, GoesOnLocks, StepsInOrder DEF AttachArtwork, HasClaimed, TxStages
<1>4. /\ uploadHolder' = [u \in Uploads |-> IF \E a \in answers[c] : a.upload = u THEN c ELSE uploadHolder[u]]
      /\ UNCHANGED <<upload, loaded, doomed, destroyed, withdrawn, answers, snapshots, placed>>
      /\ \A a \in answers[c] : uploadHolder[a.upload] = Nobody /\ Present(a.upload)
  BY DEF AttachArtwork, ClaimUploads, RowsFree, UploadFree, RowsPresent
<1>5. /\ \A a \in answers[c] : a.upload \in Attached[c]
      /\ \A u \in Attached[c] : \E a \in answers[c] : a.upload = u
  BY <1>1 DEF ArtInv, AnswersFit, HasRead, TxStages
<1>6. \A u \in Uploads : IF u \in Attached[c] THEN uploadHolder[u] = Nobody /\ uploadHolder'[u] = c /\ Present(u)
                         ELSE uploadHolder'[u] = uploadHolder[u]
  BY <1>4, <1>5
<1>7. AnswersFit'
  BY <1>1, <1>2, <1>4, <1>5 DEF ArtInv, AnswersFit, HasRead
<1>8. HoldersFit'
  <2>1. ASSUME NEW u \in Uploads, NEW d \in Checkouts
        PROVE  uploadHolder'[u] = d <=> HasClaimed(d)' /\ u \in Attached[d]
    <3>1. uploadHolder[u] = d <=> HasClaimed(d) /\ u \in Attached[d]
      BY DEF ArtInv, HoldersFit
    <3>2. CASE d = c
      BY <1>3, <1>6, <3>1, <3>2
    <3>3. CASE d # c
      BY <1>2, <1>6, <3>1, <3>3, ArtworkConstants
    <3> QED
      BY <3>2, <3>3
  <2>2. ASSUME NEW u \in Uploads, NEW e \in Erasers
        PROVE  uploadHolder'[u] = e <=> eraser'[e].at \in RowPlaces /\ u \in eraser'[e].rows
    BY <1>6, ArtworkConstants DEF ArtInv, HoldersFit
  <2> QED
    BY <2>1, <2>2 DEF HoldersFit
<1>9. HeldIsThere'
  BY <1>4, <1>6 DEF ArtInv, HeldIsThere, Present
<1>10. OrderedIsClaimed' /\ LoadedIsWithdrawn' /\ TakenIsLost'
  BY <1>4 DEF ArtInv, OrderedIsClaimed, LoadedIsWithdrawn, TakenIsLost, KeyLost, Lost, TakenAlong
<1>11. ErasersFit'
  BY <1>4 DEF ArtInv, ErasersFit, CollectedFits, RowsFit, ItemsFit, OrdersFit, SubjectOrders, SubjectsCart
<1>12. OrdersKeepRows' /\ ClaimedIsOrdered'
  BY <1>4 DEF ArtInv, OrdersKeepRows, ClaimedIsOrdered, TakenAlong
<1> QED
  BY <1>7, <1>8, <1>9, <1>10, <1>11, <1>12 DEF ArtInv

LEMMA RollbackKeepsArt ==
  ASSUME StageInv, ArtTypes, ArtInv, NEW c \in Checkouts, Rollback(c), UNCHANGED <<eraser, anonymised>>
  PROVE  ArtInv'
<1>1. stage'[c] = "failed" /\ \A d \in Checkouts \ {c} : stage'[d] = stage[d]
  BY DEF Rollback, StageInv, StageTypes
<1>2. /\ ~HasClaimed(c)' /\ ~HasRead(c)'
      /\ \A d \in Checkouts \ {c} : (HasClaimed(d)' <=> HasClaimed(d)) /\ (HasRead(d)' <=> HasRead(d))
  BY <1>1 DEF HasClaimed, HasRead, TxStages
<1>3. /\ UNCHANGED <<upload, loaded, doomed, destroyed, withdrawn, answers, snapshots, placed>>
      /\ uploadHolder' = Released(c)
  BY DEF Rollback, ArtworkRollback
<1>4. \A u \in Uploads : uploadHolder'[u] = IF uploadHolder[u] = c THEN Nobody ELSE uploadHolder[u]
  BY <1>3, ReleasedRows
<1>5. AnswersFit'
  BY <1>2, <1>3 DEF ArtInv, AnswersFit
<1>6. HoldersFit'
  <2>1. ASSUME NEW u \in Uploads, NEW d \in Checkouts
        PROVE  uploadHolder'[u] = d <=> HasClaimed(d)' /\ u \in Attached[d]
    <3>1. uploadHolder[u] = d <=> HasClaimed(d) /\ u \in Attached[d]
      BY DEF ArtInv, HoldersFit
    <3> QED
      BY <1>2, <1>4, <3>1, ArtworkConstants
  <2>2. ASSUME NEW u \in Uploads, NEW e \in Erasers
        PROVE  uploadHolder'[u] = e <=> eraser'[e].at \in RowPlaces /\ u \in eraser'[e].rows
    BY <1>4, ArtworkConstants DEF ArtInv, HoldersFit
  <2> QED
    BY <2>1, <2>2 DEF HoldersFit
<1>7. HeldIsThere'
  BY <1>3, <1>4, ArtworkConstants DEF ArtInv, HeldIsThere, Present
<1>8. OrderedIsClaimed' /\ LoadedIsWithdrawn' /\ TakenIsLost'
  BY <1>3 DEF ArtInv, OrderedIsClaimed, LoadedIsWithdrawn, TakenIsLost, KeyLost, Lost, TakenAlong
<1>9. ErasersFit'
  BY <1>3 DEF ArtInv, ErasersFit, CollectedFits, RowsFit, ItemsFit, OrdersFit, SubjectOrders, SubjectsCart
<1>10. OrdersKeepRows' /\ ClaimedIsOrdered'
  BY <1>3 DEF ArtInv, OrdersKeepRows, ClaimedIsOrdered, TakenAlong
<1> QED
  BY <1>5, <1>6, <1>7, <1>8, <1>9, <1>10 DEF ArtInv

LEMMA CommitKeepsArt ==
  ASSUME StageInv, ArtTypes, ArtInv, NEW c \in Checkouts, Commit(c), UNCHANGED <<eraser, anonymised>>
  PROVE  ArtInv'
<1>1. /\ stage[c] = "commit" /\ stage'[c] = "placed" /\ placed' = placed \union {c} /\ c \notin placed
      /\ \A d \in Checkouts \ {c} : stage'[d] = stage[d]
      /\ placed \subseteq Checkouts
  BY DEF Commit, Moves, StageInv, StageTypes
<1>2. /\ upload' = Claimed(c) /\ uploadHolder' = Released(c)
      /\ snapshots' = [snapshots EXCEPT ![c] = answers[c]]
      /\ UNCHANGED <<loaded, doomed, destroyed, withdrawn, answers>>
      /\ UploadTypes /\ snapshots \in [Checkouts -> SUBSET PictureNames]
  BY DEF Commit, ArtworkCommit, ArtTypes, NameTypes
<1>3. /\ \A u \in Uploads : IF uploadHolder[u] = c THEN upload'[u].state = "claimed"
                            ELSE upload'[u] = upload[u]
      /\ \A u \in Uploads : uploadHolder'[u] = IF uploadHolder[u] = c THEN Nobody ELSE uploadHolder[u]
  BY <1>2, ClaimedRows, ReleasedRows
<1>4. snapshots'[c] = answers[c] /\ \A d \in Checkouts \ {c} : snapshots'[d] = snapshots[d]
  BY <1>2
<1>5. /\ \A d \in Checkouts : \A a \in answers[d] \union snapshots[d] : a.upload \in Uploads
      /\ \A e \in Erasers : \A k \in eraser[e].keys : k[1] \in Uploads
  BY NamesAreUploads DEF ArtTypes, EraserTypes, EraserRows, PictureKeys
<1>6. \A a \in answers[c] : uploadHolder[a.upload] = c /\ Present(a.upload)
  <2> SUFFICES ASSUME NEW a \in answers[c] PROVE uploadHolder[a.upload] = c /\ Present(a.upload)
    OBVIOUS
  <2>1. a.upload \in Attached[c] /\ a.upload \in Uploads
    BY <1>5 DEF ArtInv, AnswersFit
  <2>2. HasClaimed(c)
    BY <1>1, <2>1 DEF HasClaimed
  <2> QED
    BY <2>1, <2>2 DEF ArtInv, HoldersFit, HeldIsThere
<1>7. \A d \in Checkouts \ {c} : (HasClaimed(d)' <=> HasClaimed(d)) /\ (HasRead(d)' <=> HasRead(d))
  BY <1>1 DEF HasClaimed, HasRead
<1>8. ~HasClaimed(c)' /\ HasRead(c)
  BY <1>1 DEF HasClaimed, HasRead, TxStages
<1>9. \A u \in Uploads : upload[u].state = "gone" => uploadHolder[u] # c /\ upload'[u].state = "gone"
  BY <1>3 DEF ArtInv, HeldIsThere, Present
<1>10. AnswersFit'
  BY <1>1, <1>2, <1>4, <1>7, <1>8 DEF ArtInv, AnswersFit
<1>11. HoldersFit'
  <2>1. ASSUME NEW u \in Uploads, NEW d \in Checkouts
        PROVE  uploadHolder'[u] = d <=> HasClaimed(d)' /\ u \in Attached[d]
    <3>1. uploadHolder[u] = d <=> HasClaimed(d) /\ u \in Attached[d]
      BY DEF ArtInv, HoldersFit
    <3> QED
      BY <1>3, <1>7, <1>8, <3>1, ArtworkConstants
  <2>2. ASSUME NEW u \in Uploads, NEW e \in Erasers
        PROVE  uploadHolder'[u] = e <=> eraser'[e].at \in RowPlaces /\ u \in eraser'[e].rows
    BY <1>3, ArtworkConstants DEF ArtInv, HoldersFit
  <2> QED
    BY <2>1, <2>2 DEF HoldersFit
<1>12. HeldIsThere'
  BY <1>3, ArtworkConstants DEF ArtInv, HeldIsThere, Present
<1>13. OrderedIsClaimed'
  <2> SUFFICES ASSUME NEW d \in Checkouts, NEW a \in snapshots'[d]
               PROVE  upload'[a.upload].state \in {"claimed", "gone"}
    BY DEF OrderedIsClaimed
  <2>1. CASE d = c
    BY <1>3, <1>4, <1>5, <1>6, <2>1
  <2>2. CASE d # c
    BY <1>3, <1>4, <1>5, <2>2 DEF ArtInv, OrderedIsClaimed
  <2> QED
    BY <2>1, <2>2
<1>14. LoadedIsWithdrawn'
  BY <1>2 DEF ArtInv, LoadedIsWithdrawn
<1>15. TakenIsLost'
  <2>1. ASSUME NEW u \in Uploads, Lost(u)
        PROVE  Lost(u)'
    <3>1. \A a \in answers[c] : a.upload # u
      BY <1>6, <2>1 DEF Lost, Present
    <3> QED
      BY <1>4, <1>9, <2>1, <3>1 DEF Lost, TakenAlong
  <2>2. \A k : KeyLost(k) => KeyLost(k)'
    BY <1>2, <2>1 DEF KeyLost
  <2> QED
    BY <1>2, <2>2 DEF ArtInv, TakenIsLost
<1>16. ErasersFit'
  <2> SUFFICES ASSUME NEW e \in Erasers
               PROVE  CollectedFits(e)' /\ RowsFit(e)' /\ ItemsFit(e)' /\ OrdersFit(e)'
    BY DEF ErasersFit
  <2>1. CollectedFits(e) /\ RowsFit(e) /\ ItemsFit(e) /\ OrdersFit(e)
    BY DEF ArtInv, ErasersFit
  <2>2. /\ SubjectOrders \subseteq SubjectOrders' /\ SubjectOrders \subseteq Checkouts \ {c}
    BY <1>1 DEF SubjectOrders
  <2>3. CollectedFits(e)'
    BY <1>4, <2>1, <2>2 DEF CollectedFits
  <2>4. RowsFit(e)'
    BY <1>5, <1>9, <2>1, <2>2 DEF RowsFit, SubjectsCart
  <2>5. ItemsFit(e)'
    <3> SUFFICES ASSUME eraser[e].at \in {"orders", "commit"}, NEW d \in placed', NEW a \in snapshots'[d],
                        EmailOf[d] = Subject,
                        a.upload \in eraser[e].rows \/ (\E k \in eraser[e].keys : k[1] = a.upload)
                 PROVE  d \in eraser[e].items
      BY DEF ItemsFit
    <3>1. CASE d = c
      <4>1. uploadHolder[a.upload] = c /\ Present(a.upload) /\ a.upload \in Uploads
        BY <1>4, <1>5, <1>6, <3>1
      <4>2. a.upload \notin eraser[e].rows
        BY <4>1, ArtworkConstants DEF ArtInv, HoldersFit, RowPlaces
      <4>3. \A k \in eraser[e].keys : k[1] # a.upload
        BY <2>1, <4>1, <4>2 DEF RowsFit, RowPlaces, Present, SubjectsCart, SubjectOrders
      <4> QED
        BY <4>2, <4>3
    <3>2. CASE d # c
      BY <1>1, <1>4, <2>1, <3>2 DEF ItemsFit
    <3> QED
      BY <3>1, <3>2
  <2>6. OrdersFit(e)'
    BY <2>1, <2>2 DEF OrdersFit
  <2> QED
    BY <2>3, <2>4, <2>5, <2>6
<1>17. OrdersKeepRows'
  <2> SUFFICES ASSUME NEW d \in placed' \ anonymised, NEW a \in answers[d]
               PROVE  /\ a \in snapshots'[d]
                      /\ a.upload \in withdrawn \/ TakenAlong(d) \/ upload'[a.upload].state = "claimed"
    BY <1>2 DEF OrdersKeepRows, TakenAlong
  <2>1. CASE d = c
    BY <1>3, <1>4, <1>5, <1>6, <2>1
  <2>2. CASE d # c
    BY <1>1, <1>3, <1>4, <1>5, <2>2 DEF ArtInv, OrdersKeepRows, TakenAlong
  <2> QED
    BY <2>1, <2>2
<1>18. ClaimedIsOrdered'
  <2> SUFFICES ASSUME NEW u \in Uploads, upload'[u].state = "claimed"
               PROVE  \E d \in placed' : \E a \in answers[d] : a.upload = u
    BY <1>2 DEF ClaimedIsOrdered
  <2>1. CASE uploadHolder[u] = c
    BY <1>1, <1>8, <2>1 DEF ArtInv, HoldersFit, AnswersFit
  <2>2. CASE uploadHolder[u] # c
    BY <1>1, <1>3, <2>2 DEF ArtInv, ClaimedIsOrdered
  <2> QED
    BY <2>1, <2>2
<1> QED
  BY <1>10, <1>11, <1>12, <1>13, <1>14, <1>15, <1>16, <1>17, <1>18 DEF ArtInv

LEMMA CheckoutKeepsArt ==
  ASSUME StageInv, ArtTypes, ArtInv, NEW c \in Checkouts, CheckoutStep(c), UNCHANGED erasureVars
  PROVE  ArtInv'
<1>1. UNCHANGED <<eraser, anonymised>>
  BY DEF erasureVars
<1>2. CASE Price(c) \/ AttachArtwork(c) \/ Commit(c) \/ Rollback(c)
  BY <1>1, <1>2, PriceKeepsArt, ClaimKeepsArt, CommitKeepsArt, RollbackKeepsArt
<1>3. ASSUME UNCHANGED <<artworkVars, placed>>, HasClaimed(c)' <=> HasClaimed(c), HasRead(c)' => HasRead(c)
      PROVE  ArtInv'
  <2>1. \A d \in Checkouts \ {c} : stage'[d] = stage[d]
    BY OthersStay
  <2>2. \A d \in Checkouts : (HasClaimed(d)' <=> HasClaimed(d)) /\ (HasRead(d)' => HasRead(d))
    BY <1>3, <2>1 DEF HasClaimed, HasRead
  <2> QED
    BY <1>1, <1>3, <2>2, QuietKeepsArt
<1>4. CASE PriceRefused(c) \/ Lookup(c)
  <2>1. UNCHANGED <<artworkVars, placed>>
    BY <1>4 DEF PriceRefused, Lookup
  <2>2. \/ stage[c] = "idle" /\ stage'[c] = "refused"
        \/ stage[c] = "lookup" /\ stage'[c] \in {"insert", "reused"}
    BY <1>4 DEF PriceRefused, Lookup, Moves, StageInv, StageTypes
  <2>3. (HasClaimed(c)' <=> HasClaimed(c)) /\ (HasRead(c)' => HasRead(c))
    BY <2>2 DEF HasClaimed, HasRead, TxStages
  <2> QED
    BY <1>3, <2>1, <2>3
<1>5. CASE InsertOrder(c) \/ ApplyCoupon(c) \/ IncrementCoupon(c) \/ DebitCard(c) \/ RedeemPointsTx(c)
  <2>1. UNCHANGED <<artworkVars, placed, quote>>
    BY <1>5 DEF InsertOrder, ApplyCoupon, IncrementCoupon, DebitCard, RedeemPointsTx
  <2>2. PICK from \in DOMAIN Position : from # "artwork" /\ GoesOn(c, from)
    BY <1>5, StepsInOrder DEF InsertOrder, ApplyCoupon, IncrementCoupon, DebitCard, RedeemPointsTx, TxStages
  <2>3. HasClaimed(c)' <=> HasClaimed(c)
    BY <2>1, <2>2, GoesOnLocks
  <2>4. stage[c] = from
    BY <2>2 DEF GoesOn, Moves
  <2>5. HasRead(c)
    BY <2>4, StepsInOrder DEF HasRead
  <2> QED
    BY <1>3, <2>1, <2>3, <2>5
<1> QED
  BY <1>2, <1>4, <1>5 DEF CheckoutStep

-----------------------------------------------------------------------------
(* What an erasure takes *)

ErasersStay(e) == \A f \in Erasers \ {e} : eraser[f].at = "idle"

\* A process at an erasure is alone, and nothing has been erased.
LEMMA AloneAtWork ==
  ASSUME ErasureInv, NEW e \in Erasers, eraser[e].at \in AtWork
  PROVE  ErasersStay(e) /\ anonymised = {}
<1>1. erasure.status = "processing" /\ eraser[e].at # "idle"
  BY DEF ErasureInv, AtWork
<1> QED
  BY <1>1 DEF ErasureInv, ErasersStay

LEMMA IdleFits ==
  ASSUME NEW f \in Erasers, eraser'[f].at = "idle" \/ eraser'[f].at = "failing" \/ eraser'[f].at = "collect"
                            \/ eraser'[f].at = "reap"
  PROVE  CollectedFits(f)' /\ RowsFit(f)' /\ ItemsFit(f)' /\ OrdersFit(f)'
  BY DEF CollectedFits, RowsFit, ItemsFit, OrdersFit, RowPlaces, SubjectsCart, SubjectOrders

\* A process that looks, and takes no row: what it has is what its row says.
LEMMA LookingKeepsArt ==
  ASSUME ArtInv, NEW e \in Erasers, NEW entry \in EraserRows, EraserGoes(e, entry),
         UNCHANGED <<artworkVars, stage, placed, anonymised>>,
         eraser[e].at \in RowPlaces <=> entry.at \in RowPlaces,
         entry.at \in RowPlaces => entry.rows = eraser[e].rows,
         entry.at = "reap" => eraser[e].at = "reap" /\ entry.keys = eraser[e].keys,
         CollectedFits(e)' /\ RowsFit(e)' /\ ItemsFit(e)' /\ OrdersFit(e)'
  PROVE  ArtInv'
<1>1. eraser'[e] = entry /\ \A f \in Erasers \ {e} : eraser'[f] = eraser[f]
  BY DEF EraserGoes
<1>2. AnswersFit'
  BY DEF ArtInv, artworkVars, AnswersFit, HasRead
<1>3. HoldersFit' /\ HeldIsThere'
  BY <1>1 DEF ArtInv, artworkVars, HoldersFit, HasClaimed, HeldIsThere, Present
<1>4. OrderedIsClaimed' /\ LoadedIsWithdrawn'
  BY DEF ArtInv, artworkVars, OrderedIsClaimed, LoadedIsWithdrawn
<1>5. TakenIsLost'
  BY <1>1 DEF ArtInv, artworkVars, TakenIsLost, KeyLost, Lost, TakenAlong
<1>6. \A f \in Erasers \ {e} : CollectedFits(f)' /\ RowsFit(f)' /\ ItemsFit(f)' /\ OrdersFit(f)'
  BY <1>1 DEF ArtInv, artworkVars, ErasersFit, CollectedFits, RowsFit, ItemsFit, OrdersFit, SubjectOrders, SubjectsCart
<1>7. OrdersKeepRows' /\ ClaimedIsOrdered'
  BY DEF ArtInv, artworkVars, OrdersKeepRows, ClaimedIsOrdered, TakenAlong
<1> QED
  BY <1>2, <1>3, <1>4, <1>5, <1>6, <1>7 DEF ArtInv, ErasersFit

LEMMA ClaimErasureKeepsArt ==
  ASSUME StageTypes, ArtTypes, ArtInv, NEW e \in Erasers, ClaimErasure(e), UNCHANGED <<stage, placed>>
  PROVE  ArtInv'
<1>1. PICK entry \in EraserRows : entry.at = "collect" /\ EraserGoes(e, entry)
  BY ErasureStepsOf
<1>2. eraser[e].at = "idle" /\ UNCHANGED <<artworkVars, anonymised>>
  BY DEF ClaimErasure
<1>3. CollectedFits(e)' /\ RowsFit(e)' /\ ItemsFit(e)' /\ OrdersFit(e)'
  BY <1>1, IdleFits DEF EraserGoes
<1> QED
  BY <1>1, <1>2, <1>3, LookingKeepsArt DEF RowPlaces

LEMMA CollectKeepsArt ==
  ASSUME StageTypes, ArtTypes, ArtInv, NEW e \in Erasers, CollectBlobURLs(e), UNCHANGED <<stage, placed>>
  PROVE  ArtInv'
<1>1. PICK entry \in EraserRows : entry.at = "uploads" /\ entry.keys = CollectedKeys /\ EraserGoes(e, entry)
  BY ErasureStepsOf
<1>2. eraser[e].at = "collect" /\ UNCHANGED <<artworkVars, anonymised>>
  BY DEF CollectBlobURLs, Statement
<1>3. eraser'[e] = entry /\ SubjectOrders' = SubjectOrders /\ UNCHANGED snapshots
  BY <1>1, <1>2 DEF EraserGoes, SubjectOrders, artworkVars
<1>4. ASSUME NEW k \in CollectedKeys
      PROVE  \E c \in SubjectOrders : \E a \in snapshots[c] : a.upload = k[1]
  <2>1. PICK c \in SubjectOrders : \E a \in snapshots[c] : k \in KeysOf(a)
    BY <1>4 DEF CollectedKeys
  <2>2. c \in Checkouts
    BY SubjectsAreRequests
  <2> QED
    BY <2>1, <2>2, NamesAreUploads, KeysName DEF ArtTypes
<1>5. CollectedFits(e)'
  BY <1>1, <1>3, <1>4 DEF CollectedFits
<1>6. RowsFit(e)' /\ ItemsFit(e)' /\ OrdersFit(e)'
  BY <1>1, <1>3 DEF RowsFit, ItemsFit, OrdersFit, RowPlaces, SubjectsCart, SubjectOrders
<1> QED
  BY <1>1, <1>2, <1>5, <1>6, LookingKeepsArt DEF RowPlaces

\* An order of the subject that names a picture shows that the cart is the subject's.
LEMMA NamedIsSubjects ==
  ASSUME StageTypes, ArtInv, NEW c \in SubjectOrders, NEW a \in snapshots[c]
  PROVE  SubjectsCart
<1>1. c \in Checkouts /\ EmailOf[c] = Subject
  BY SubjectsAreRequests DEF SubjectOrders
<1>2. a.upload \in Attached[c]
  BY <1>1 DEF ArtInv, AnswersFit
<1> QED
  BY <1>1, <1>2 DEF SubjectsCart

LEMMA UploadsKeepArt ==
  ASSUME StageTypes, ArtTypes, ArtInv, ErasureInv, NEW e \in Erasers, EraseUploads(e),
         UNCHANGED <<stage, placed>>
  PROVE  ArtInv'
<1>1. PICK entry \in EraserRows :
        entry.at = "items" /\ entry.keys = eraser[e].keys /\ entry.rows = CartRows /\ EraserGoes(e, entry)
  BY ErasureStepsOf
<1>2. /\ eraser[e].at = "uploads"
      /\ \A u \in CartRows : uploadHolder[u] = Nobody
      /\ uploadHolder' = [u \in Uploads |-> IF u \in CartRows THEN e ELSE uploadHolder[u]]
      /\ UNCHANGED <<upload, loaded, doomed, destroyed, withdrawn, answers, snapshots, anonymised>>
  BY DEF EraseUploads, Statement, CartRows, UploadFree
<1>3. /\ eraser'[e] = entry /\ \A f \in Erasers \ {e} : eraser'[f] = eraser[f] /\ eraser[f].at = "idle"
      /\ SubjectOrders' = SubjectOrders
  BY <1>1, <1>2, AloneAtWork DEF EraserGoes, SubjectOrders, AtWork, ErasersStay
<1>4. AnswersFit'
  BY <1>2 DEF ArtInv, AnswersFit, HasRead
<1>5. HoldersFit'
  <2>1. ASSUME NEW u \in Uploads, NEW c \in Checkouts
        PROVE  uploadHolder'[u] = c <=> HasClaimed(c)' /\ u \in Attached[c]
    <3>1. uploadHolder[u] = c <=> HasClaimed(c)' /\ u \in Attached[c]
      BY DEF ArtInv, HoldersFit, HasClaimed
    <3> QED
      BY <1>2, <3>1, ArtworkConstants
  <2>2. ASSUME NEW u \in Uploads, NEW f \in Erasers
        PROVE  uploadHolder'[u] = f <=> eraser'[f].at \in RowPlaces /\ u \in eraser'[f].rows
    <3>1. uploadHolder[u] # f
      BY <1>2, <1>3 DEF ArtInv, HoldersFit, RowPlaces
    <3> QED
      BY <1>1, <1>2, <1>3, <3>1 DEF RowPlaces
  <2> QED
    BY <2>1, <2>2 DEF HoldersFit
<1>6. HeldIsThere'
  BY <1>2, ArtworkConstants DEF ArtInv, HeldIsThere, Present
<1>7. OrderedIsClaimed' /\ LoadedIsWithdrawn'
  BY <1>2 DEF ArtInv, OrderedIsClaimed, LoadedIsWithdrawn
<1>8. TakenIsLost'
  BY <1>1, <1>2, <1>3 DEF ArtInv, TakenIsLost, KeyLost, Lost, TakenAlong
<1>9. RowsFit(e)'
  <2>1. ASSUME NEW k \in eraser[e].keys
        PROVE  SubjectsCart /\ (k[1] \in CartRows \/ upload[k[1]].state = "gone")
    <3>1. PICK c \in SubjectOrders : \E a \in snapshots[c] : a.upload = k[1]
      BY <1>2 DEF ArtInv, ErasersFit, CollectedFits
    <3>2. PICK a \in snapshots[c] : a.upload = k[1]
      BY <3>1
    <3>3. c \in Checkouts
      BY SubjectsAreRequests
    <3>4. upload[k[1]].state \in {"claimed", "gone"} /\ k[1] \in Uploads
      BY <3>2, <3>3, NamesAreUploads DEF ArtInv, OrderedIsClaimed, ArtTypes
    <3>5. upload[k[1]].state = "claimed" => k[1] \in CartRows
      BY <3>2, <3>4 DEF CartRows, Linked, Present
    <3> QED
      BY <3>2, <3>4, <3>5, NamedIsSubjects
  <2>2. ASSUME CartRows # {}
        PROVE  SubjectsCart
    BY <2>2, NamedIsSubjects DEF CartRows, Linked
  <2> QED
    BY <1>1, <1>2, <1>3, <2>1, <2>2 DEF RowsFit, SubjectsCart, SubjectOrders
<1>10. ErasersFit'
  <2>1. CollectedFits(e)' /\ ItemsFit(e)' /\ OrdersFit(e)'
    BY <1>1, <1>3 DEF CollectedFits, ItemsFit, OrdersFit
  <2>2. \A f \in Erasers \ {e} : CollectedFits(f)' /\ RowsFit(f)' /\ ItemsFit(f)' /\ OrdersFit(f)'
    BY <1>3, IdleFits
  <2> QED
    BY <1>9, <2>1, <2>2 DEF ErasersFit
<1>11. OrdersKeepRows' /\ ClaimedIsOrdered'
  BY <1>2 DEF ArtInv, OrdersKeepRows, ClaimedIsOrdered, TakenAlong
<1> QED
  BY <1>4, <1>5, <1>6, <1>7, <1>8, <1>10, <1>11 DEF ArtInv

LEMMA ItemsKeepArt ==
  ASSUME StageTypes, ArtTypes, ArtInv, ErasureInv, NEW e \in Erasers, EraseSnapshots(e),
         UNCHANGED <<stage, placed>>
  PROVE  ArtInv'
<1>1. PICK entry \in EraserRows :
        /\ entry.at = "orders" /\ entry.keys = eraser[e].keys /\ entry.rows = eraser[e].rows
        /\ entry.items = SubjectOrders /\ EraserGoes(e, entry)
  BY ErasureStepsOf
<1>2. eraser[e].at = "items" /\ UNCHANGED <<artworkVars, anonymised>> /\ anonymised = {}
  BY AloneAtWork DEF EraseSnapshots, Statement, AtWork
<1>3. eraser'[e] = entry /\ SubjectOrders' = SubjectOrders /\ UNCHANGED <<snapshots, upload>>
  BY <1>1, <1>2 DEF EraserGoes, SubjectOrders, artworkVars
<1>4. RowsFit(e)'
  BY <1>1, <1>2, <1>3 DEF ArtInv, ErasersFit, RowsFit, RowPlaces, SubjectsCart, SubjectOrders
<1>5. ItemsFit(e)'
  <2>1. \A c \in placed : EmailOf[c] = Subject => c \in SubjectOrders
    BY <1>2 DEF SubjectOrders
  <2> QED
    BY <1>1, <1>3, <2>1 DEF ItemsFit
<1>6. CollectedFits(e)' /\ OrdersFit(e)'
  BY <1>1, <1>3 DEF CollectedFits, OrdersFit
<1> QED
  BY <1>1, <1>2, <1>4, <1>5, <1>6, LookingKeepsArt DEF RowPlaces

LEMMA OrdersKeepArt ==
  ASSUME StageTypes, ArtTypes, ArtInv, NEW e \in Erasers, AnonymiseOrders(e), UNCHANGED <<stage, placed>>
  PROVE  ArtInv'
<1>1. PICK entry \in EraserRows :
        /\ entry.at = "commit" /\ entry.keys = eraser[e].keys /\ entry.rows = eraser[e].rows
        /\ entry.items = eraser[e].items /\ entry.orders = SubjectOrders /\ EraserGoes(e, entry)
  BY ErasureStepsOf
<1>2. eraser[e].at = "orders" /\ UNCHANGED <<artworkVars, anonymised>>
  BY DEF AnonymiseOrders, Statement
<1>3. eraser'[e] = entry /\ UNCHANGED <<snapshots, upload, placed>>
  BY <1>1, <1>2 DEF EraserGoes, artworkVars
<1>4. RowsFit(e)' /\ ItemsFit(e)' /\ OrdersFit(e)'
  <2>1. RowsFit(e) /\ ItemsFit(e) /\ OrdersFit(e)
    BY DEF ArtInv, ErasersFit
  <2>2. RowsFit(e)' /\ ItemsFit(e)'
    BY <1>1, <1>2, <1>3, <2>1 DEF RowsFit, ItemsFit, RowPlaces, SubjectsCart, SubjectOrders
  <2>3. OrdersFit(e)'
    BY <1>1, <1>2, <1>3, <2>1 DEF RowsFit, OrdersFit, RowPlaces, SubjectsCart
  <2> QED
    BY <2>2, <2>3
<1>5. CollectedFits(e)'
  BY <1>1, <1>3 DEF CollectedFits
<1> QED
  BY <1>1, <1>2, <1>4, <1>5, LookingKeepsArt DEF RowPlaces

\* A transaction that gives its rows back and takes none: the locks.
LEMMA ReleaseKeepsHolders ==
  ASSUME HoldersFit, NEW e \in Erasers, NEW entry \in EraserRows, EraserGoes(e, entry),
         entry.at \notin RowPlaces, uploadHolder' = Released(e), UNCHANGED stage
  PROVE  /\ HoldersFit'
         /\ \A u \in Uploads, c \in Checkouts : uploadHolder'[u] = c <=> uploadHolder[u] = c
<1>1. \A u \in Uploads : uploadHolder'[u] = IF uploadHolder[u] = e THEN Nobody ELSE uploadHolder[u]
  BY ReleasedRows
<1>2. \A u \in Uploads, c \in Checkouts : uploadHolder'[u] = c <=> uploadHolder[u] = c
  BY <1>1, ArtworkConstants
<1>3. \A f \in Erasers \ {e} : eraser'[f] = eraser[f]
  BY DEF EraserGoes
<1>4. \A u \in Uploads, f \in Erasers \ {e} : uploadHolder'[u] = f <=> uploadHolder[u] = f
  BY <1>1, ArtworkConstants
<1>5. \A u \in Uploads : uploadHolder'[u] # e /\ eraser'[e].at \notin RowPlaces
  BY <1>1, ArtworkConstants DEF EraserGoes
<1>6. ASSUME NEW u \in Uploads, NEW c \in Checkouts
      PROVE  uploadHolder'[u] = c <=> HasClaimed(c)' /\ u \in Attached[c]
  <2>1. uploadHolder[u] = c <=> HasClaimed(c)' /\ u \in Attached[c]
    BY DEF HoldersFit, HasClaimed
  <2> QED
    BY <1>2, <2>1
<1>7. ASSUME NEW u \in Uploads, NEW f \in Erasers
      PROVE  uploadHolder'[u] = f <=> eraser'[f].at \in RowPlaces /\ u \in eraser'[f].rows
  <2>1. CASE f = e
    BY <1>5, <2>1
  <2>2. CASE f # e
    BY <1>3, <1>4, <2>2 DEF HoldersFit
  <2> QED
    BY <2>1, <2>2
<1> QED
  BY <1>2, <1>6, <1>7 DEF HoldersFit

\* The commit takes the rows, the snapshots and the orders' names at once.
LEMMA CommitErasureKeepsArt ==
  ASSUME StageTypes, ArtTypes, ArtInv, ErasureInv, NEW e \in Erasers, CommitErasure(e),
         UNCHANGED <<stage, placed>>
  PROVE  ArtInv'
<1> DEFINE rows == eraser[e].rows
           items == eraser[e].items
           orders == eraser[e].orders
           keys == eraser[e].keys
<1>1. PICK entry \in EraserRows : entry.at = "reap" /\ entry.keys = keys /\ EraserGoes(e, entry)
  BY ErasureStepsOf
<1>2. /\ eraser[e].at = "commit" /\ upload' = Without(rows) /\ uploadHolder' = Released(e)
      /\ \A c \in Checkouts : snapshots'[c] = IF c \in items THEN {} ELSE snapshots[c]
      /\ anonymised' = anonymised \union orders
      /\ UNCHANGED <<loaded, doomed, destroyed, withdrawn, answers>>
  BY DEF CommitErasure
<1>3. /\ eraser'[e] = entry /\ \A f \in Erasers \ {e} : eraser'[f] = eraser[f] /\ eraser[f].at = "idle"
  BY <1>1, <1>2, AloneAtWork DEF EraserGoes, AtWork, ErasersStay
<1>4. /\ rows \in SUBSET Uploads /\ \A k \in keys : k[1] \in Uploads
  BY DEF ArtTypes, EraserTypes, EraserRows, PictureKeys
<1>5. \A u \in Uploads : IF u \in rows THEN upload'[u].state = "gone" ELSE upload'[u] = upload[u]
  <2> HIDE DEF rows
  <2> QED
    BY <1>2, <1>4, WithoutRows DEF ArtTypes
<1>6. \A c \in Checkouts : snapshots'[c] \subseteq snapshots[c]
  BY <1>2
<1>7. \A c \in Checkouts : \A a \in answers[c] \union snapshots[c] : a.upload \in Uploads
  BY NamesAreUploads DEF ArtTypes
<1>8. /\ \A c \in placed : \A a \in snapshots[c] :
           EmailOf[c] = Subject /\ (a.upload \in rows \/ (\E k \in keys : k[1] = a.upload)) => c \in items
      /\ keys # {} \/ rows # {} => \A c \in Checkouts : EmailOf[c] # Subject => TakenAlong(c)'
      /\ \A c : TakenAlong(c) => TakenAlong(c)'
  <2>1. ItemsFit(e) /\ OrdersFit(e)
    BY DEF ArtInv, ErasersFit
  <2>2. keys # {} \/ rows # {} => \E d \in anonymised' : Attached[d] # {}
    BY <1>2, <2>1 DEF OrdersFit
  <2>3. anonymised \subseteq anonymised'
    BY <1>2
  <2> QED
    BY <1>2, <2>1, <2>2, <2>3 DEF ItemsFit, TakenAlong
<1> HIDE DEF rows, items, orders, keys
<1>9. AnswersFit'
  BY <1>2, <1>6 DEF ArtInv, AnswersFit, HasRead
<1>10. /\ HoldersFit'
       /\ \A u \in Uploads, c \in Checkouts : uploadHolder'[u] = c <=> uploadHolder[u] = c
  BY <1>1, <1>2, ReleaseKeepsHolders DEF ArtInv, RowPlaces
<1>11. HeldIsThere'
  <2> SUFFICES ASSUME NEW u \in Uploads, uploadHolder'[u] \in Checkouts
               PROVE  Present(u)'
    BY DEF HeldIsThere
  <2>1. uploadHolder[u] \in Checkouts /\ Present(u)
    BY <1>10 DEF ArtInv, HeldIsThere
  <2>2. u \notin rows
    BY <1>2, <2>1, ArtworkConstants DEF ArtInv, HoldersFit, RowPlaces, rows
  <2> QED
    BY <1>5, <2>1, <2>2 DEF Present
<1>12. OrderedIsClaimed'
  <2> SUFFICES ASSUME NEW c \in Checkouts, NEW a \in snapshots'[c]
               PROVE  upload'[a.upload].state \in {"claimed", "gone"}
    BY DEF OrderedIsClaimed
  <2>1. upload[a.upload].state \in {"claimed", "gone"} /\ a.upload \in Uploads
    BY <1>6, <1>7 DEF ArtInv, OrderedIsClaimed
  <2> QED
    BY <1>5, <2>1
<1>13. LoadedIsWithdrawn'
  BY <1>2 DEF ArtInv, LoadedIsWithdrawn
<1>14. TakenIsLost'
  <2>1. \A u \in Uploads : Lost(u) => Lost(u)'
    BY <1>5, <1>6, <1>8 DEF Lost
  <2>2. \A k \in doomed \union destroyed : KeyLost(k)'
    BY <1>2, <2>1 DEF ArtInv, TakenIsLost, KeyLost
  <2>3. ASSUME NEW k \in keys PROVE KeyLost(k)'
    <3>1. upload'[k[1]].state = "gone"
      BY <1>2, <1>4, <1>5 DEF ArtInv, ErasersFit, RowsFit, RowPlaces, rows, keys, SubjectsCart, SubjectOrders
    <3>2. ASSUME NEW c \in Checkouts, NEW a \in snapshots'[c], a.upload = k[1]
          PROVE  TakenAlong(c)'
      <4>1. c \notin items /\ a \in snapshots[c]
        BY <1>2, <3>2
      <4>2. c \in placed
        BY <4>1 DEF ArtInv, AnswersFit
      <4> QED
        BY <1>8, <3>2, <4>1, <4>2
    <3> QED
      BY <1>4, <3>1, <3>2 DEF KeyLost, Lost
  <2> QED
    BY <1>1, <1>2, <1>3, <2>2, <2>3 DEF TakenIsLost
<1>15. ErasersFit'
  BY <1>1, <1>3, IdleFits DEF ErasersFit
<1>16. OrdersKeepRows'
  <2> SUFFICES ASSUME NEW c \in placed, c \notin anonymised', NEW a \in answers[c]
               PROVE  /\ a \in snapshots'[c]
                      /\ a.upload \in withdrawn \/ TakenAlong(c)' \/ upload'[a.upload].state = "claimed"
    BY <1>2 DEF OrdersKeepRows
  <2>1. c \notin anonymised /\ c \notin items /\ c \in Checkouts
    BY <1>2 DEF ArtInv, ErasersFit, OrdersFit, StageTypes, items, orders
  <2>2. /\ a \in snapshots[c]
        /\ a.upload \in withdrawn \/ TakenAlong(c)' \/ upload[a.upload].state = "claimed"
    BY <1>8, <2>1 DEF ArtInv, OrdersKeepRows
  <2>3. a.upload \in Uploads /\ (a.upload \notin rows \/ TakenAlong(c)')
    BY <1>7, <1>8, <2>1, <2>2
  <2> QED
    BY <1>2, <1>5, <2>1, <2>2, <2>3
<1>17. ClaimedIsOrdered'
  BY <1>2, <1>5 DEF ArtInv, ClaimedIsOrdered
<1> QED
  BY <1>9, <1>10, <1>11, <1>12, <1>13, <1>14, <1>15, <1>16, <1>17 DEF ArtInv

\* A transaction that is given up has taken nothing.
LEMMA FailsKeepsArt ==
  ASSUME StageTypes, ArtTypes, ArtInv, ErasureInv, NEW e \in Erasers, ErasureFails(e) \/ EraserDies(e),
         UNCHANGED <<stage, placed>>
  PROVE  ArtInv'
<1>1. PICK entry \in EraserRows : entry.at \in {"idle", "failing"} /\ EraserGoes(e, entry)
  BY ErasureStepsOf
<1>2. /\ eraser[e].at # "idle" /\ uploadHolder' = Released(e)
      /\ UNCHANGED <<upload, loaded, doomed, destroyed, withdrawn, answers, snapshots, anonymised>>
  BY DEF ErasureFails, EraserDies, InErasureTx
<1>3. /\ eraser'[e] = entry /\ \A f \in Erasers \ {e} : eraser'[f] = eraser[f] /\ eraser[f].at = "idle"
  BY <1>1, <1>2 DEF EraserGoes, ErasureInv
<1>4. AnswersFit' /\ OrderedIsClaimed' /\ LoadedIsWithdrawn'
  BY <1>2 DEF ArtInv, AnswersFit, HasRead, OrderedIsClaimed, LoadedIsWithdrawn
<1>5. /\ HoldersFit'
      /\ \A u \in Uploads, c \in Checkouts : uploadHolder'[u] = c <=> uploadHolder[u] = c
  BY <1>1, <1>2, ReleaseKeepsHolders DEF ArtInv, RowPlaces
<1>6. HeldIsThere'
  BY <1>2, <1>5 DEF ArtInv, HeldIsThere, Present
<1>7. TakenIsLost'
  BY <1>1, <1>2, <1>3 DEF ArtInv, TakenIsLost, KeyLost, Lost, TakenAlong
<1>8. ErasersFit'
  BY <1>1, <1>3, IdleFits DEF ErasersFit
<1>9. OrdersKeepRows' /\ ClaimedIsOrdered'
  BY <1>2 DEF ArtInv, OrdersKeepRows, ClaimedIsOrdered, TakenAlong
<1> QED
  BY <1>4, <1>5, <1>6, <1>7, <1>8, <1>9 DEF ArtInv

LEMMA RecordKeepsArt ==
  ASSUME StageTypes, ArtTypes, ArtInv, NEW e \in Erasers, MarkFailed(e) \/ AmendReceipt(e),
         UNCHANGED <<stage, placed>>
  PROVE  ArtInv'
<1>1. PICK entry \in EraserRows : entry.at = "idle" /\ EraserGoes(e, entry)
  BY ErasureStepsOf
<1>2. eraser[e].at \notin RowPlaces /\ UNCHANGED <<artworkVars, anonymised>>
  BY DEF MarkFailed, AmendReceipt, RowPlaces
<1>3. CollectedFits(e)' /\ RowsFit(e)' /\ ItemsFit(e)' /\ OrdersFit(e)'
  BY <1>1, IdleFits DEF EraserGoes
<1> QED
  BY <1>1, <1>2, <1>3, LookingKeepsArt DEF RowPlaces

\* What is destroyed after the commit, nothing names any more.
LEMMA ReapKeepsArt ==
  ASSUME StageTypes, ArtTypes, ArtInv, NEW e \in Erasers, NEW k \in eraser[e].keys, ReapBlob(e, k),
         UNCHANGED <<stage, placed>>
  PROVE  ArtInv'
<1>1. PICK entry \in EraserRows : entry.at = "reap" /\ entry.keys = eraser[e].keys \ {k} /\ EraserGoes(e, entry)
  BY ErasureStepsOf
<1>2. /\ eraser[e].at = "reap" /\ destroyed' \subseteq destroyed \union {k}
      /\ UNCHANGED <<upload, uploadHolder, loaded, doomed, withdrawn, answers, snapshots, anonymised>>
  BY DEF ReapBlob
<1>3. eraser'[e] = entry /\ \A f \in Erasers \ {e} : eraser'[f] = eraser[f]
  BY <1>1 DEF EraserGoes
<1>4. AnswersFit' /\ OrderedIsClaimed' /\ LoadedIsWithdrawn'
  BY <1>2 DEF ArtInv, AnswersFit, HasRead, OrderedIsClaimed, LoadedIsWithdrawn
<1>5. HoldersFit' /\ HeldIsThere'
  BY <1>1, <1>2, <1>3 DEF ArtInv, HoldersFit, HasClaimed, HeldIsThere, Present, RowPlaces
<1>6. TakenIsLost'
  <2>1. KeyLost(k)
    BY <1>2 DEF ArtInv, TakenIsLost
  <2>2. \A j : KeyLost(j) => KeyLost(j)'
    BY <1>2 DEF KeyLost, Lost, TakenAlong
  <2> QED
    BY <1>1, <1>2, <1>3, <2>1, <2>2 DEF ArtInv, TakenIsLost
<1>7. ErasersFit'
  <2>1. \A f \in Erasers \ {e} : CollectedFits(f)' /\ RowsFit(f)' /\ ItemsFit(f)' /\ OrdersFit(f)'
    BY <1>2, <1>3 DEF ArtInv, ErasersFit, CollectedFits, RowsFit, ItemsFit, OrdersFit, SubjectOrders, SubjectsCart
  <2> QED
    BY <1>1, <1>3, <2>1, IdleFits DEF ErasersFit
<1>8. OrdersKeepRows' /\ ClaimedIsOrdered'
  BY <1>2 DEF ArtInv, OrdersKeepRows, ClaimedIsOrdered, TakenAlong
<1> QED
  BY <1>4, <1>5, <1>6, <1>7, <1>8 DEF ArtInv

LEMMA ErasureKeepsArt ==
  ASSUME StageTypes, ArtTypes, ArtInv, ErasureInv, ErasureStep, UNCHANGED checkoutVars
  PROVE  ArtInv'
<1>1. UNCHANGED <<stage, placed>>
  BY DEF checkoutVars
<1>2. CASE Ask \/ Reject
  BY <1>1, <1>2, UntouchedArt DEF Ask, Reject
<1>3. ASSUME NEW e \in Erasers, ClaimErasure(e) \/ CollectBlobURLs(e) \/ EraseUploads(e)
      PROVE  ArtInv'
  BY <1>1, <1>3, ClaimErasureKeepsArt, CollectKeepsArt, UploadsKeepArt
<1>4. ASSUME NEW e \in Erasers, EraseSnapshots(e) \/ AnonymiseOrders(e) \/ CommitErasure(e)
      PROVE  ArtInv'
  BY <1>1, <1>4, ItemsKeepArt, OrdersKeepArt, CommitErasureKeepsArt
<1>5. ASSUME NEW e \in Erasers, ErasureFails(e) \/ MarkFailed(e) \/ AmendReceipt(e) \/ EraserDies(e)
      PROVE  ArtInv'
  BY <1>1, <1>5, FailsKeepsArt, RecordKeepsArt
<1>6. ASSUME NEW e \in Erasers, NEW k \in eraser[e].keys, ReapBlob(e, k)
      PROVE  ArtInv'
  BY <1>1, <1>6, ReapKeepsArt
<1> QED
  BY <1>2, <1>3, <1>4, <1>5, <1>6 DEF ErasureStep

-----------------------------------------------------------------------------
(* The uploads and the erasure of a shop *)

ShopperInv == StageInv /\ ArtTypes /\ ErasureInv
PictureInv == ShopperInv /\ ArtInv

LEMMA ShopperInitInv == ShopInit => ShopperInv
  BY CheckoutInitInv, ArtInitTypes, ErasureInitInv DEF CheckoutInv, ShopperInv

LEMMA ShopKeepsShoppers ==
  ASSUME CheckoutInv, ShopperInv, [ShopNext]_shopVars
  PROVE  ShopperInv'
<1>1. StageInv'
  BY ShopKeepsLocks DEF CheckoutInv
<1> QED
  BY <1>1, ShopKeepsTypes, ShopKeepsErasure DEF ShopperInv

LEMMA ShopKeepsArt ==
  ASSUME PictureInv, [ShopNext]_shopVars
  PROVE  ArtInv'
<1> USE DEF PictureInv, ShopperInv
<1>1. StageTypes
  BY DEF StageInv
<1>2. CASE (\E c \in Checkouts : CheckoutStep(c)) /\ UNCHANGED erasureVars
  BY <1>2, CheckoutKeepsArt
<1>3. CASE (SweeperEvents \/ \E u \in Uploads : BuyerEvents(u)) /\ UNCHANGED <<checkoutVars, erasureVars>>
  BY <1>1, <1>3, BuyerKeepsArt, SweeperKeepsArt DEF checkoutVars, erasureVars
<1>4. CASE ErasureStep /\ UNCHANGED checkoutVars
  BY <1>1, <1>4, ErasureKeepsArt
<1>5. CASE UNCHANGED <<artworkVars, checkoutVars, erasureVars>>
  BY <1>5, UntouchedArt DEF checkoutVars, erasureVars
<1>6. CASE UNCHANGED shopVars
  BY <1>5, <1>6 DEF shopVars, valueVars
<1> QED
  BY <1>2, <1>3, <1>4, <1>5, <1>6 DEF ShopNext

\* A customer who asked is erased once, however many workers and operators are
\* at it and wherever they die, and a request that was refused never.
THEOREM ErasureHappensOnce == ShopSpec => []ErasedOnce
<1>1. ShopInit => CheckoutInv /\ ShopperInv
  BY CheckoutInitInv, ShopperInitInv
<1>2. CheckoutInv /\ ShopperInv /\ [ShopNext]_shopVars => (CheckoutInv /\ ShopperInv)'
  BY ShopKeepsLocks, ShopKeepsShoppers
<1>3. ShopperInv => ErasedOnce
  BY DEF ShopperInv, ErasureInv
<1> QED
  BY <1>1, <1>2, <1>3, PTL DEF ShopSpec, shopVars

\* Rows go before their objects, and an order has the pictures it was placed
\* with but for what the properties name, for any number of customers,
\* checkouts, uploads and erasing processes.
THEOREM ArtworkIsKept == ShopSpec => []ArtworkSafe
<1>1. ShopInit => CheckoutInv /\ PictureInv
  BY CheckoutInitInv, ShopperInitInv, ArtInitInv DEF PictureInv
<1>2. CheckoutInv /\ PictureInv /\ [ShopNext]_shopVars => (CheckoutInv /\ PictureInv)'
  BY ShopKeepsLocks, ShopKeepsShoppers, ShopKeepsArt DEF PictureInv
<1>3. PictureInv => ArtworkSafe
  BY ArtInvSafe DEF PictureInv, ShopperInv, StageInv
<1> QED
  BY <1>1, <1>2, <1>3, PTL DEF ShopSpec, shopVars

-----------------------------------------------------------------------------
(* The parcels of a share *)

Results == {"none", "succeeded", "failed", "unsupported"}
Rows == [status : Statuses, action : Actions, cancel : Results]
Requests == [pc : {"idle", "buy", "persist", "stamp"}, label : Labels \union {0}, alone : BOOLEAN]
Sold(l) == courier[l] # "unsold"
Holds(d, l) == desk[d].pc \in {"persist", "stamp"} /\ desk[d].label = l

\* Rows, parcels and the processes' notes have their types.
ParcelTypes ==
  /\ row \in [Labels -> Rows]
  /\ courier \in [Labels -> {"unsold", "booked", "moving", "delivered", "cancelled", "returning"}]
  /\ pickups \in [Labels -> Nat] /\ heard \in [Labels -> SUBSET Statuses]
  /\ desk \in [Desks -> Requests]
  /\ tracker \in [Trackers -> [pc : {"idle", "sent", "track", "advance"},
                               label : Labels \union {0}, status : Statuses, news : Statuses]]
  /\ canceller \in [Cancellers -> [pc : {"idle", "carrier", "record", "release"},
                                   label : Labels \union {0}, action : Actions, result : Results]]

\* Labels are sold in order.  A request has a label of its own, which it
\* contends for when it did not run alone; one that does run alone is the only one
\* under way, for a share without its stamp.
DesksInOrder ==
  /\ \E n \in 0..MaxLabels : \A l \in Labels : Sold(l) <=> l <= n
  /\ \A d \in Desks : desk[d].pc \in {"persist", "stamp"} =>
       /\ desk[d].label \in Labels /\ Sold(desk[d].label)
       /\ desk[d].alone \/ desk[d].label \in contended
  /\ \A d, e \in Desks, l \in Labels : Holds(d, l) /\ Holds(e, l) => d = e
  /\ \A d \in Desks : desk[d].pc = "stamp" => Saved(desk[d].label) \/ desk[d].label \in abandoned
  /\ \A d \in Desks : desk[d].pc # "idle" /\ desk[d].alone =>
       stamp = 0 /\ \A e \in Desks : desk[e].pc # "idle" => e = d

\* A label that was sold is on the allocations, or on its way there.
SoldIsKnown ==
  \A l \in Labels \ (abandoned \union contended) :
    Sold(l) => stamp = l \/ \E d \in Desks : Holds(d, l)

\* Nobody has heard of a label whose row is not there yet.
Unheard(l) == ~Sold(l) \/ \E d \in Desks : desk[d].pc = "persist" /\ desk[d].label = l
UnheardIsQuiet ==
  \A l \in Labels : Unheard(l) =>
    ~Saved(l) /\ row[l].cancel = "none" /\ heard[l] = {} /\ pickups[l] = 0 /\ ~Cancelling(l)

\* What a cancel of that kind is to have done at the carrier.
Done(l, action) ==
  \/ action = "reverse_pickup" /\ pickups[l] > 0
  \/ action # "reverse_pickup" /\ courier[l] \in {"cancelled", "returning"}

\* A call is about a label, and has the success that it is about to record.
CallsTrue ==
  \A c \in Cancellers : canceller[c].pc # "idle" =>
    /\ canceller[c].label \in Labels
    /\ canceller[c].pc = "record" /\ canceller[c].result = "succeeded"
         => Done(canceller[c].label, canceller[c].action)

Calling(c, l) == canceller[c].pc # "idle" /\ canceller[c].label = l

\* Of calls that follow one another, one is under way at a time, none starts
\* after a success, and no courier was sent before one asks the carrier.
CallsInTurn ==
  \A l \in Labels \ disturbed :
    /\ \A c, d \in Cancellers : Calling(c, l) /\ Calling(d, l) => c = d
    /\ \A c \in Cancellers : Calling(c, l) =>
         /\ canceller[c].pc \in {"carrier", "record"} => row[l].cancel # "succeeded"
         /\ canceller[c].pc = "carrier" => pickups[l] = 0
    /\ pickups[l] <= 1
    /\ pickups[l] > 0 =>
         \/ ~Saved(l) \/ row[l].cancel = "succeeded"
         \/ \E c \in Cancellers : Calling(c, l) /\ canceller[c].pc = "record"
                                  /\ canceller[c].result = "succeeded"

News == {"in_transit", "exception", "delivered"}

\* A row has the status it was saved with or one that was heard, unless it was
\* overtaken.
StatusHeard ==
  /\ \A t \in Trackers : tracker[t].pc # "idle" => tracker[t].label \in Labels
  /\ \A t \in Trackers : tracker[t].pc \in {"sent", "advance"} => tracker[t].news \in News
  /\ \A l \in Labels \ overtaken : Saved(l) =>
       (row[l].status = "pending" /\ heard[l] = {}) \/ row[l].status \in heard[l]

ParcelInv ==
  /\ ParcelTypes /\ DesksInOrder /\ SoldIsKnown /\ UnheardIsQuiet
  /\ CallsTrue /\ CallsInTurn /\ StatusHeard /\ DeliveredStays /\ RecordedIsDone

LEMMA LabelsAreNumbers == Labels \subseteq Nat \ {0} /\ MaxLabels \in Nat /\ 0 \notin Labels
  BY ParcelsAssumption DEF Labels

LEMMA ParcelInitInv == ParcelInit => ParcelInv
<1> SUFFICES ASSUME ParcelInit PROVE ParcelInv
  OBVIOUS
<1>1. ParcelTypes
  <2>1. /\ row \in [Labels -> Rows] /\ heard \in [Labels -> SUBSET Statuses]
        /\ courier \in [Labels -> {"unsold", "booked", "moving", "delivered", "cancelled", "returning"}]
        /\ pickups \in [Labels -> Nat]
    BY DEF ParcelInit, UnlabelledInit, LabelledInit, RestInit, Rows, Results, Actions, Statuses,
           Unsaved, Fresh
  <2>2. desk \in [Desks -> Requests]
    <3>1. desk = [d \in Desks |-> NoRequest]
      BY DEF ParcelInit, UnlabelledInit, LabelledInit, RestInit
    <3>2. NoRequest \in Requests
      BY DEF NoRequest, Requests
    <3> QED
      BY <3>1, <3>2
  <2>3. tracker \in [Trackers -> [pc : {"idle", "sent", "track", "advance"},
                                  label : Labels \union {0}, status : Statuses, news : Statuses]]
    BY DEF ParcelInit, UnlabelledInit, LabelledInit, RestInit, Quiet, Statuses
  <2>4. canceller \in [Cancellers -> [pc : {"idle", "carrier", "record", "release"},
                                      label : Labels \union {0}, action : Actions, result : Results]]
    BY DEF ParcelInit, UnlabelledInit, LabelledInit, RestInit, Ready, Actions, Results
  <2> QED
    BY <2>1, <2>2, <2>3, <2>4 DEF ParcelTypes
<1>2. \A l \in Labels : /\ Sold(l) <=> (l <= stamp)
                        /\ ~Sold(l) => row[l] = Unsaved
                        /\ Sold(l) => row[l] = Fresh /\ stamp = l
  BY LabelsAreNumbers DEF ParcelInit, UnlabelledInit, LabelledInit, Sold
<1>3. /\ \A d \in Desks : desk[d].pc = "idle"
      /\ \A c \in Cancellers : canceller[c] = Ready
      /\ \A t \in Trackers : tracker[t] = Quiet
      /\ \A l \in Labels : heard[l] = {} /\ pickups[l] = 0
  BY DEF ParcelInit, UnlabelledInit, LabelledInit, RestInit, NoRequest
<1>4. DesksInOrder
  <2>1. stamp \in 0..MaxLabels \/ (MaxLabels = 0 /\ stamp = 1)
    BY LabelsAreNumbers DEF ParcelInit, UnlabelledInit, LabelledInit
  <2>2. CASE stamp \in 0..MaxLabels
    BY <1>2, <1>3, <2>2 DEF DesksInOrder, Holds
  <2>3. CASE MaxLabels = 0
    BY <1>3, <2>3, LabelsAreNumbers DEF DesksInOrder, Labels, Holds
  <2> QED
    BY <2>1, <2>2, <2>3
<1>5. SoldIsKnown /\ UnheardIsQuiet
  BY <1>2, <1>3 DEF SoldIsKnown, UnheardIsQuiet, Unheard, Saved, Unsaved, Cancelling, Ready
<1>6. CallsTrue /\ CallsInTurn
  BY <1>3 DEF CallsTrue, CallsInTurn, Calling, Ready
<1>7. StatusHeard /\ DeliveredStays /\ RecordedIsDone
  BY <1>2, <1>3 DEF StatusHeard, DeliveredStays, RecordedIsDone, Saved, Fresh, Unsaved, Quiet
<1> QED
  BY <1>1, <1>4, <1>5, <1>6, <1>7 DEF ParcelInv

-----------------------------------------------------------------------------
(* The label requests *)

\* What leaves the requests and the sales alone leaves their order alone.
LEMMA DesksStay ==
  ASSUME ParcelInv, UNCHANGED <<desk, contended>>, abandoned \subseteq abandoned',
         stamp' = stamp \/ (stamp' = 0 /\ stamp \in abandoned'),
         \A k \in Labels : Sold(k)' <=> Sold(k),
         \A k \in Labels : Saved(k) => Saved(k)' \/ k \in abandoned'
  PROVE  DesksInOrder' /\ SoldIsKnown'
<1>1. DesksInOrder'
  BY DEF ParcelInv, DesksInOrder, Holds
<1>2. SoldIsKnown'
  BY DEF ParcelInv, SoldIsKnown, Holds
<1> QED
  BY <1>1, <1>2

\* A request moves, and nothing else but the labels it leaves behind.
LEMMA RequestKeeps ==
  ASSUME ParcelInv, desk' \in [Desks -> Requests],
         UNCHANGED <<row, courier, pickups, tracker, canceller, heard, overtaken, disturbed>>
  PROVE  ParcelTypes' /\ CallsTrue' /\ CallsInTurn' /\ StatusHeard' /\ DeliveredStays' /\ RecordedIsDone'
BY DEF ParcelInv, ParcelTypes, CallsTrue, CallsInTurn, StatusHeard, DeliveredStays,
       RecordedIsDone, Done, Calling, Saved

LEMMA NextIsUnsold ==
  ASSUME ParcelInv, NextLabel \in Labels
  PROVE  /\ NextLabel \in Nat /\ NextLabel \in 0..MaxLabels
         /\ \A l \in Labels : Sold(l) <=> l < NextLabel
<1>1. PICK n \in 0..MaxLabels : \A l \in Labels : Sold(l) <=> l <= n
  BY DEF ParcelInv, DesksInOrder
<1>2. n \in Nat /\ {l \in Labels : courier[l] # "unsold"} = 1..n
  BY <1>1, LabelsAreNumbers DEF Labels, Sold
<1>3. Cardinality(1..n) = n
  BY <1>2, FS_Interval
<1>4. NextLabel = n + 1
  BY <1>2, <1>3 DEF NextLabel
<1> QED
  BY <1>1, <1>2, <1>4, LabelsAreNumbers DEF Labels

LEMMA AloneOrNot ==
  ASSUME NEW r \in Requests, NEW x \in BOOLEAN
  PROVE  /\ [r EXCEPT !.alone = x] \in Requests /\ [r EXCEPT !.alone = x].alone = x
         /\ [r EXCEPT !.alone = x].pc = r.pc /\ [r EXCEPT !.alone = x].label = r.label
  BY DEF Requests

LEMMA AskKeeps ==
  ASSUME ParcelInv, NEW d \in Desks, AskLabel(d)
  PROVE  ParcelInv'
<1> DEFINE asked == [pc |-> "buy", label |-> 0, alone |-> Busy = {}]
           still(e) == desk[e].alone /\ e \notin Busy
           beside(e) == [desk[e] EXCEPT !.alone = still(e)]
<1>0. \A e \in Desks : desk[e] \in Requests
  BY DEF ParcelInv, ParcelTypes
<1>1. /\ desk[d].pc = "idle" /\ stamp = 0
      /\ contended \subseteq contended' /\ \A e \in Busy : desk[e].label \in contended'
      /\ UNCHANGED <<row, stamp, courier, pickups, carrier, tracker, canceller,
                     abandoned, heard, overtaken, disturbed>>
  <2>1. /\ desk[d].pc = "idle" /\ stamp = 0
        /\ UNCHANGED <<row, stamp, courier, pickups, carrier, tracker, canceller,
                       abandoned, heard, overtaken, disturbed>>
    BY DEF AskLabel, StillOwed
  <2>2. contended' = contended \union {desk[e].label : e \in Busy}
    BY DEF AskLabel
  <2> QED
    BY <2>1, <2>2
<1>2. /\ desk'[d].pc = "buy" /\ (desk'[d].alone <=> Busy = {})
      /\ \A e \in Desks : e # d =>
           /\ desk'[e].pc = desk[e].pc /\ desk'[e].label = desk[e].label
           /\ e \in Busy => ~desk'[e].alone
  <2>1. desk' = [e \in Desks |-> IF e = d THEN asked ELSE beside(e)]
    BY DEF AskLabel
  <2>2. desk'[d] = asked /\ \A e \in Desks : e # d => desk'[e] = beside(e)
    BY <2>1
  <2>3. asked.pc = "buy" /\ (asked.alone <=> Busy = {})
    OBVIOUS
  <2>4. ASSUME NEW e \in Desks
        PROVE  /\ beside(e).pc = desk[e].pc /\ beside(e).label = desk[e].label
               /\ e \in Busy => ~beside(e).alone
    <3>1. still(e) \in BOOLEAN /\ (e \in Busy => still(e) = FALSE)
      OBVIOUS
    <3> HIDE DEF still
    <3> QED
      BY <1>0, <3>1, AloneOrNot
  <2> HIDE DEF asked, beside
  <2> QED
    BY <2>2, <2>3, <2>4
<1>3. desk' \in [Desks -> Requests]
  <2>1. desk' = [e \in Desks |-> IF e = d THEN asked ELSE beside(e)]
    BY DEF AskLabel
  <2>2. asked \in Requests
    BY DEF Requests
  <2>3. ASSUME NEW e \in Desks PROVE beside(e) \in Requests
    <3>1. still(e) \in BOOLEAN
      OBVIOUS
    <3> HIDE DEF still
    <3> QED
      BY <1>0, <3>1, AloneOrNot
  <2> HIDE DEF asked, beside
  <2> QED
    BY <2>1, <2>2, <2>3
<1>4. \A e \in Desks : e \in Busy <=> desk[e].pc # "idle"
  BY DEF Busy
<1>5. \A e \in Desks, l \in Labels : Holds(e, l)' <=> Holds(e, l)
  BY <1>1, <1>2 DEF Holds
<1>6. \A e \in Desks, l \in Labels : Holds(e, l) => l \in contended'
  BY <1>1, <1>4 DEF Holds
<1>7. DesksInOrder'
  <2>1. \E n \in 0..MaxLabels : \A l \in Labels : Sold(l)' <=> l <= n
    BY <1>1 DEF ParcelInv, DesksInOrder, Sold
  <2>2. ASSUME NEW e \in Desks, desk'[e].pc \in {"persist", "stamp"}
        PROVE  desk'[e].label \in Labels /\ Sold(desk[e].label)' /\ desk'[e].label \in contended'
    <3>1. /\ desk'[e].label = desk[e].label /\ desk[e].label \in Labels
          /\ Sold(desk[e].label) /\ Holds(e, desk[e].label)
      BY <1>2, <2>2 DEF ParcelInv, DesksInOrder, Holds
    <3> QED
      BY <1>1, <1>6, <3>1 DEF Sold
  <2>3. \A e, f \in Desks, l \in Labels : Holds(e, l)' /\ Holds(f, l)' => e = f
    BY <1>5 DEF ParcelInv, DesksInOrder
  <2>4. \A e \in Desks : desk'[e].pc = "stamp" => Saved(desk[e].label)' \/ desk'[e].label \in abandoned'
    BY <1>1, <1>2 DEF ParcelInv, DesksInOrder, Saved
  <2>5. ASSUME NEW e \in Desks, desk'[e].pc # "idle", desk'[e].alone
        PROVE  stamp' = 0 /\ \A f \in Desks : desk'[f].pc # "idle" => f = e
    BY <1>1, <1>2, <1>4, <2>5
  <2> QED
    BY <2>1, <2>2, <2>3, <2>4, <2>5 DEF DesksInOrder
<1>8. SoldIsKnown'
  <2>1. \A l \in Labels \ (abandoned' \union contended') : ~Sold(l)
    BY <1>1, <1>6, LabelsAreNumbers DEF ParcelInv, SoldIsKnown
  <2> QED
    BY <1>1, <2>1 DEF SoldIsKnown, Sold
<1>9. UnheardIsQuiet'
  BY <1>1, <1>2 DEF ParcelInv, UnheardIsQuiet, Unheard, Sold, Saved, Cancelling
<1> QED
  BY <1>1, <1>3, <1>7, <1>8, <1>9, RequestKeeps DEF ParcelInv

LEMMA BuyKeeps ==
  ASSUME ParcelInv, NEW d \in Desks, BuyParcelLabel(d)
  PROVE  ParcelInv'
<1> DEFINE b == NextLabel
<1>1. /\ b \in Labels /\ desk[d].pc = "buy"
      /\ courier' = [courier EXCEPT ![b] = "booked"]
      /\ contended \subseteq contended' /\ (desk[d].alone \/ b \in contended')
      /\ UNCHANGED <<row, stamp, pickups, carrier, tracker, canceller,
                     abandoned, heard, overtaken, disturbed>>
  <2>1. contended' = IF desk[d].alone THEN contended ELSE contended \union {b}
    BY DEF BuyParcelLabel
  <2>2. contended \subseteq contended' /\ (desk[d].alone \/ b \in contended')
    BY <2>1
  <2> QED
    BY <2>2 DEF BuyParcelLabel
<1>2. b \in Nat /\ b \in 0..MaxLabels /\ ~Sold(b) /\ \A l \in Labels : Sold(l) <=> l < b
  BY <1>1, NextIsUnsold
<1> HIDE DEF b
<1>3. /\ courier' \in [Labels -> {"unsold", "booked", "moving", "delivered", "cancelled", "returning"}]
      /\ courier'[b] = "booked" /\ \A l \in Labels : l # b => courier'[l] = courier[l]
  BY <1>1 DEF ParcelInv, ParcelTypes
<1>4. /\ desk' \in [Desks -> Requests]
      /\ desk'[d].pc = "persist" /\ desk'[d].label = b /\ desk'[d].alone = desk[d].alone
      /\ \A e \in Desks : e # d => desk'[e] = desk[e]
  <2> DEFINE bought == [desk[d] EXCEPT !.pc = "persist", !.label = b]
  <2>1. desk[d] \in Requests /\ desk \in [Desks -> Requests]
    BY DEF ParcelInv, ParcelTypes
  <2>2. desk' = [desk EXCEPT ![d] = bought]
    BY <2>1 DEF BuyParcelLabel, b
  <2>3. /\ bought \in Requests /\ bought.pc = "persist" /\ bought.label = b
        /\ bought.alone = desk[d].alone
    BY <1>1, <2>1 DEF Requests
  <2> HIDE DEF bought
  <2> QED
    BY <2>1, <2>2, <2>3
<1>5. ~Saved(b) /\ row[b].cancel = "none" /\ heard[b] = {} /\ pickups[b] = 0 /\ ~Cancelling(b)
  BY <1>1, <1>2 DEF ParcelInv, UnheardIsQuiet, Unheard
<1>6. \A l \in Labels : Sold(l)' <=> Sold(l) \/ l = b
  BY <1>1, <1>3 DEF Sold
<1>7. \A e \in Desks, l \in Labels : Holds(e, l)' <=> Holds(e, l) \/ (e = d /\ l = b)
  BY <1>1, <1>4 DEF Holds
<1>8. \A e \in Desks : ~Holds(e, b)
  BY <1>2 DEF ParcelInv, DesksInOrder, Holds
<1>9. ParcelTypes'
  BY <1>1, <1>3, <1>4 DEF ParcelInv, ParcelTypes
<1>10. DesksInOrder'
  <2>1. \A l \in Labels : Sold(l)' <=> l <= b
    BY <1>1, <1>2, <1>6, LabelsAreNumbers
  <2>2. ASSUME NEW e \in Desks, desk'[e].pc \in {"persist", "stamp"}
        PROVE  /\ desk'[e].label \in Labels /\ Sold(desk[e].label)'
               /\ desk'[e].alone \/ desk'[e].label \in contended'
    <3>1. CASE e = d
      BY <1>1, <1>4, <1>6, <3>1
    <3>2. CASE e # d
      BY <1>1, <1>4, <1>6, <2>2, <3>2 DEF ParcelInv, DesksInOrder
    <3> QED
      BY <3>1, <3>2
  <2>3. \A e, f \in Desks, l \in Labels : Holds(e, l)' /\ Holds(f, l)' => e = f
    BY <1>7, <1>8 DEF ParcelInv, DesksInOrder
  <2>4. \A e \in Desks : desk'[e].pc = "stamp" => Saved(desk[e].label)' \/ desk'[e].label \in abandoned'
    BY <1>1, <1>4 DEF ParcelInv, DesksInOrder, Saved
  <2>5. ASSUME NEW e \in Desks, desk'[e].pc # "idle", desk'[e].alone
        PROVE  stamp' = 0 /\ \A f \in Desks : desk'[f].pc # "idle" => f = e
    BY <1>1, <1>4, <2>5 DEF ParcelInv, DesksInOrder
  <2> QED
    BY <1>2, <2>1, <2>2, <2>3, <2>4, <2>5 DEF DesksInOrder
<1>11. SoldIsKnown'
  BY <1>1, <1>6, <1>7 DEF ParcelInv, SoldIsKnown
<1>12. UnheardIsQuiet'
  <2>1. \A l \in Labels : Unheard(l)' => Unheard(l)
    BY <1>2, <1>4, <1>6 DEF Unheard
  <2> QED
    BY <1>1, <2>1 DEF ParcelInv, UnheardIsQuiet, Saved, Cancelling
<1>13. CallsTrue' /\ RecordedIsDone'
  BY <1>1, <1>3, <1>5 DEF ParcelInv, CallsTrue, RecordedIsDone, Done, Cancelling
<1>14. CallsInTurn' /\ StatusHeard' /\ DeliveredStays'
  BY <1>1 DEF ParcelInv, CallsInTurn, StatusHeard, DeliveredStays, Calling, Saved
<1> QED
  BY <1>9, <1>10, <1>11, <1>12, <1>13, <1>14 DEF ParcelInv

\* A request is over: it was refused, has stamped its label, or has left it behind.
LEMMA EndRequestKeeps ==
  ASSUME ParcelInv, NEW d \in Desks, EndRequest(d),
         desk[d].pc # "idle",
         UNCHANGED <<row, courier, pickups, tracker, canceller, contended, heard, overtaken, disturbed>>,
         abandoned \subseteq abandoned', stamp' \in {0} \union Labels \union {stamp},
         stamp' # stamp => stamp = 0,
         \A l \in Labels \ (abandoned' \union contended') : Holds(d, l) => stamp' = l
  PROVE  ParcelInv'
<1>1. /\ desk' \in [Desks -> Requests] /\ desk'[d].pc = "idle"
      /\ \A e \in Desks : e # d => desk'[e] = desk[e]
  BY DEF EndRequest, NoRequest, ParcelInv, ParcelTypes, Requests
<1>2. \A e \in Desks, l \in Labels : Holds(e, l)' <=> Holds(e, l) /\ e # d
  BY <1>1 DEF Holds
<1>3. DesksInOrder'
  <2>1. \E n \in 0..MaxLabels : \A l \in Labels : Sold(l)' <=> l <= n
    BY DEF ParcelInv, DesksInOrder, Sold
  <2>2. \A e \in Desks : desk'[e].pc \in {"persist", "stamp"} =>
          /\ desk'[e].label \in Labels /\ Sold(desk[e].label)'
          /\ desk'[e].alone \/ desk'[e].label \in contended'
    BY <1>1 DEF ParcelInv, DesksInOrder, Sold
  <2>3. \A e, f \in Desks, l \in Labels : Holds(e, l)' /\ Holds(f, l)' => e = f
    BY <1>2 DEF ParcelInv, DesksInOrder
  <2>4. \A e \in Desks : desk'[e].pc = "stamp" => Saved(desk[e].label)' \/ desk'[e].label \in abandoned'
    BY <1>1 DEF ParcelInv, DesksInOrder, Saved
  <2>5. \A e \in Desks : ~(desk'[e].pc # "idle" /\ desk'[e].alone)
    BY <1>1 DEF ParcelInv, DesksInOrder
  <2> QED
    BY <2>1, <2>2, <2>3, <2>4, <2>5 DEF DesksInOrder
<1>4. SoldIsKnown'
  <2> SUFFICES ASSUME NEW l \in Labels \ (abandoned' \union contended'), Sold(l)'
               PROVE  stamp' = l \/ \E e \in Desks : Holds(e, l)'
    BY DEF SoldIsKnown
  <2>1. stamp = l \/ \E e \in Desks : Holds(e, l)
    BY DEF ParcelInv, SoldIsKnown, Sold
  <2> QED
    BY <1>2, <2>1, LabelsAreNumbers
<1>5. UnheardIsQuiet'
  BY <1>1 DEF ParcelInv, UnheardIsQuiet, Unheard, Sold, Saved, Cancelling
<1> QED
  BY <1>1, <1>3, <1>4, <1>5, RequestKeeps DEF ParcelInv

LEMMA SellsNoneKeeps ==
  ASSUME ParcelInv, NEW d \in Desks, CarrierSellsNone(d)
  PROVE  ParcelInv'
<1>1. \A l \in Labels : ~Holds(d, l)
  BY DEF CarrierSellsNone, Holds
<1> QED
  BY <1>1, EndRequestKeeps DEF CarrierSellsNone, histories

LEMMA PersistKeeps ==
  ASSUME ParcelInv, NEW d \in Desks, PersistShipment(d)
  PROVE  ParcelInv'
<1> DEFINE b == desk[d].label
<1>1. /\ desk[d].pc = "persist" /\ b \in Labels /\ Sold(b)
      /\ row' = [row EXCEPT ![b] = Fresh]
      /\ UNCHANGED <<stamp, courier, pickups, carrier, tracker, canceller, budgets, histories>>
  BY DEF PersistShipment, ParcelInv, DesksInOrder
<1>2. /\ desk' \in [Desks -> Requests]
      /\ desk'[d].pc = "stamp" /\ desk'[d].label = b /\ desk'[d].alone = desk[d].alone
      /\ \A e \in Desks : e # d => desk'[e] = desk[e]
  BY DEF PersistShipment, ParcelInv, ParcelTypes, Requests
<1>3. /\ row' \in [Labels -> Rows] /\ row'[b] = Fresh
      /\ \A l \in Labels : l # b => row'[l] = row[l]
  <2>1. Fresh \in Rows
    BY DEF Rows, Results, Actions, Statuses, Fresh
  <2> QED
    BY <1>1, <2>1 DEF ParcelInv, ParcelTypes
<1>4. ~Saved(b) /\ row[b].cancel = "none" /\ heard[b] = {} /\ pickups[b] = 0 /\ ~Cancelling(b)
  BY <1>1 DEF ParcelInv, UnheardIsQuiet, Unheard
<1>5. ParcelTypes'
  BY <1>1, <1>2, <1>3 DEF ParcelInv, ParcelTypes, histories
<1>6. \A e \in Desks, l \in Labels : Holds(e, l)' <=> Holds(e, l)
  BY <1>1, <1>2 DEF Holds
<1>7. DesksInOrder'
  <2>1. \E n \in 0..MaxLabels : \A l \in Labels : Sold(l)' <=> l <= n
    BY <1>1 DEF ParcelInv, DesksInOrder, Sold
  <2>2. \A e \in Desks : desk'[e].pc \in {"persist", "stamp"} =>
          /\ desk'[e].label \in Labels /\ Sold(desk[e].label)'
          /\ desk'[e].alone \/ desk'[e].label \in contended'
    BY <1>1, <1>2 DEF ParcelInv, DesksInOrder, Sold, histories
  <2>3. \A e, f \in Desks, l \in Labels : Holds(e, l)' /\ Holds(f, l)' => e = f
    BY <1>6 DEF ParcelInv, DesksInOrder
  <2>4. ASSUME NEW e \in Desks, desk'[e].pc = "stamp"
        PROVE  Saved(desk[e].label)' \/ desk'[e].label \in abandoned'
    <3>1. CASE e = d
      BY <1>2, <1>3, <3>1 DEF Saved, Fresh
    <3>2. CASE e # d
      <4>1. /\ desk'[e] = desk[e] /\ desk[e].label \in Labels
            /\ Saved(desk[e].label) \/ desk[e].label \in abandoned
        BY <1>2, <2>4, <3>2 DEF ParcelInv, DesksInOrder
      <4> QED
        BY <1>1, <1>3, <4>1 DEF Saved, Fresh, histories
    <3> QED
      BY <3>1, <3>2
  <2>5. \A e \in Desks : desk'[e].pc # "idle" /\ desk'[e].alone =>
          stamp' = 0 /\ \A f \in Desks : desk'[f].pc # "idle" => f = e
    BY <1>1, <1>2 DEF ParcelInv, DesksInOrder
  <2> QED
    BY <2>1, <2>2, <2>3, <2>4, <2>5 DEF DesksInOrder
<1>8. SoldIsKnown'
  BY <1>1, <1>6 DEF ParcelInv, SoldIsKnown, Sold, histories
<1>9. UnheardIsQuiet'
  <2>1. \A l \in Labels : Unheard(l)' => Unheard(l) /\ l # b
    <3>1. \A e \in Desks : e # d => ~Holds(e, b)
      BY <1>1 DEF ParcelInv, DesksInOrder, Holds
    <3> QED
      BY <1>1, <1>2, <3>1 DEF Unheard, Sold, Holds
  <2> QED
    BY <1>1, <1>3, <2>1 DEF ParcelInv, UnheardIsQuiet, Saved, Cancelling, histories
<1>10. CallsTrue' /\ RecordedIsDone'
  BY <1>1, <1>3 DEF ParcelInv, CallsTrue, RecordedIsDone, Done, Fresh
<1>11. CallsInTurn'
  BY <1>1, <1>3, <1>4 DEF ParcelInv, CallsInTurn, Calling, Cancelling, Saved, Fresh, histories
<1>12. StatusHeard' /\ DeliveredStays'
  BY <1>1, <1>3, <1>4 DEF ParcelInv, StatusHeard, DeliveredStays, Saved, Fresh, histories
<1> QED
  BY <1>5, <1>7, <1>8, <1>9, <1>10, <1>11, <1>12 DEF ParcelInv

LEMMA StampKeeps ==
  ASSUME ParcelInv, NEW d \in Desks, StampAllocations(d)
  PROVE  ParcelInv'
<1> DEFINE b == desk[d].label
<1>1. /\ desk[d].pc = "stamp" /\ EndRequest(d) /\ b \in Labels
      /\ stamp' = (IF stamp = 0 /\ Saved(b) THEN b ELSE stamp)
      /\ UNCHANGED <<row, courier, pickups, tracker, canceller, histories>>
  BY DEF StampAllocations, ParcelInv, DesksInOrder
<1>2. ASSUME NEW l \in Labels \ (abandoned' \union contended'), Holds(d, l) PROVE stamp' = l
  <2>1. l = b /\ l \notin abandoned /\ l \notin contended
    BY <1>1, <1>2 DEF Holds, histories
  <2>2. stamp = 0 /\ Saved(b)
    BY <1>1, <2>1 DEF ParcelInv, DesksInOrder
  <2> QED
    BY <1>1, <2>1, <2>2
<1> QED
  BY <1>1, <1>2, EndRequestKeeps DEF histories

LEMMA LabelDiesKeeps ==
  ASSUME ParcelInv, NEW d \in Desks, LabelDies(d)
  PROVE  ParcelInv'
<1>1. /\ desk[d].pc \in {"persist", "stamp"} /\ EndRequest(d)
      /\ abandoned' = abandoned \union {desk[d].label}
      /\ UNCHANGED <<row, stamp, courier, pickups, tracker, canceller,
                     contended, heard, overtaken, disturbed>>
  BY DEF LabelDies
<1>2. \A l \in Labels \ (abandoned' \union contended') : ~Holds(d, l)
  BY <1>1 DEF Holds
<1> QED
  BY <1>1, <1>2, EndRequestKeeps

-----------------------------------------------------------------------------
(* The road, the merchant and the trackers *)

LEMMA TravelsKeeps ==
  ASSUME ParcelInv, NEW l \in Labels, Travels(l)
  PROVE  ParcelInv'
<1>1. /\ courier[l] \in {"booked", "moving"} /\ courier'[l] \in {"moving", "delivered"}
      /\ \A k \in Labels : k # l => courier'[k] = courier[k]
      /\ courier' \in [Labels -> {"unsold", "booked", "moving", "delivered", "cancelled", "returning"}]
      /\ UNCHANGED <<row, stamp, pickups, desk, tracker, canceller, abandoned, contended, heard, overtaken, disturbed>>
  BY DEF Travels, ParcelInv, ParcelTypes, histories
<1>2. ParcelTypes' /\ CallsInTurn' /\ StatusHeard' /\ DeliveredStays'
  BY <1>1 DEF ParcelInv, ParcelTypes, CallsInTurn, StatusHeard, DeliveredStays, Calling, Saved
<1>3. \A k \in Labels : courier'[k] # "unsold" <=> courier[k] # "unsold"
  BY <1>1
<1>4. DesksInOrder' /\ SoldIsKnown'
  BY <1>1, <1>3, DesksStay DEF Sold, Saved
<1>5. UnheardIsQuiet'
  BY <1>1, <1>3 DEF ParcelInv, UnheardIsQuiet, Unheard, Sold, Saved, Cancelling
<1>6. CallsTrue' /\ RecordedIsDone'
  BY <1>1 DEF ParcelInv, CallsTrue, RecordedIsDone, Done
<1> QED
  BY <1>2, <1>4, <1>5, <1>6 DEF ParcelInv

LEMMA UpdateStatusKeeps ==
  ASSUME ParcelInv, NEW l \in Labels, UpdateStatus(l)
  PROVE  ParcelInv'
<1>1. PICK s \in Statuses \ {"none", "pending"} : row' = [row EXCEPT ![l].status = s]
  BY DEF UpdateStatus
<1>2. /\ Saved(l) /\ overtaken' = overtaken \union {l}
      /\ UNCHANGED <<stamp, courier, pickups, desk, tracker, canceller, abandoned, contended, heard, disturbed>>
  BY DEF UpdateStatus
<1>3. /\ row' \in [Labels -> Rows]
      /\ row'[l].status = s /\ row'[l].action = row[l].action /\ row'[l].cancel = row[l].cancel
      /\ \A k \in Labels : k # l => row'[k] = row[k]
  BY <1>1 DEF ParcelInv, ParcelTypes, Rows
<1>4. \A k \in Labels : (row'[k].status # "none" <=> row[k].status # "none")
                        /\ row'[k].action = row[k].action /\ row'[k].cancel = row[k].cancel
  BY <1>2, <1>3 DEF Saved
<1>5. ParcelTypes'
  BY <1>2, <1>3 DEF ParcelInv, ParcelTypes
<1>6. DesksInOrder' /\ SoldIsKnown'
  BY <1>2, <1>4, DesksStay DEF Sold, Saved
<1>7. UnheardIsQuiet'
  BY <1>2, <1>4 DEF ParcelInv, UnheardIsQuiet, Unheard, Sold, Saved, Cancelling
<1>8. CallsTrue' /\ RecordedIsDone'
  BY <1>2, <1>4 DEF ParcelInv, CallsTrue, RecordedIsDone, Done
<1>9. CallsInTurn'
  BY <1>2, <1>4 DEF ParcelInv, CallsInTurn, Calling, Saved
<1>10. StatusHeard' /\ DeliveredStays'
  BY <1>2, <1>3 DEF ParcelInv, StatusHeard, DeliveredStays, Saved
<1> QED
  BY <1>5, <1>6, <1>7, <1>8, <1>9, <1>10 DEF ParcelInv

LEMMA DeleteKeeps ==
  ASSUME ParcelInv, NEW l \in Labels, DeleteShipment(l)
  PROVE  ParcelInv'
<1>1. /\ Saved(l) /\ row' = [row EXCEPT ![l] = Unsaved]
      /\ stamp' = (IF stamp = l THEN 0 ELSE stamp) /\ abandoned' = abandoned \union {l}
      /\ UNCHANGED <<courier, pickups, desk, tracker, canceller, contended, heard, overtaken, disturbed>>
  BY DEF DeleteShipment
<1>2. Unsaved \in Rows
  BY DEF Rows, Results, Actions, Statuses, Unsaved
<1>3. /\ row' \in [Labels -> Rows] /\ row'[l] = Unsaved
      /\ \A k \in Labels : k # l => row'[k] = row[k]
  BY <1>1, <1>2 DEF ParcelInv, ParcelTypes
<1>4. ParcelTypes'
  BY <1>1, <1>3 DEF ParcelInv, ParcelTypes
<1>5. DesksInOrder' /\ SoldIsKnown'
  BY <1>1, <1>3, DesksStay DEF Sold, Saved
<1>6. UnheardIsQuiet'
  BY <1>1, <1>3 DEF ParcelInv, UnheardIsQuiet, Unheard, Sold, Saved, Cancelling, Unsaved
<1>7. CallsTrue' /\ RecordedIsDone'
  BY <1>1, <1>3 DEF ParcelInv, CallsTrue, RecordedIsDone, Done, Unsaved
<1>8. CallsInTurn'
  BY <1>1, <1>3 DEF ParcelInv, CallsInTurn, Calling, Saved, Unsaved
<1>9. StatusHeard' /\ DeliveredStays'
  BY <1>1, <1>3 DEF ParcelInv, StatusHeard, DeliveredStays, Saved, Unsaved
<1> QED
  BY <1>4, <1>5, <1>6, <1>7, <1>8, <1>9 DEF ParcelInv

\* What a tracker may note.
Notes == [pc : {"idle", "sent", "track", "advance"},
          label : Labels \union {0}, status : Statuses, news : Statuses]
Noted(note) ==
  /\ note \in Notes
  /\ note.pc # "idle" => note.label \in Labels
  /\ note.pc \in {"sent", "advance"} => note.news \in News

LEMMA NoteKeeps ==
  ASSUME ParcelInv, NEW t \in Trackers, NEW note, Noted(note),
         tracker' = [tracker EXCEPT ![t] = note],
         UNCHANGED <<row, stamp, courier, pickups, carrier, desk, canceller, budgets, histories>>
  PROVE  ParcelInv'
<1>1. /\ tracker' \in [Trackers -> Notes]
      /\ \A u \in Trackers : tracker'[u] = (IF u = t THEN note ELSE tracker[u])
  BY DEF ParcelInv, ParcelTypes, Noted, Notes
<1>2. ParcelTypes'
  BY <1>1 DEF ParcelInv, ParcelTypes, Notes, histories
<1>3. DesksInOrder' /\ SoldIsKnown'
  BY DesksStay DEF Sold, Saved, histories
<1>6. UnheardIsQuiet'
  BY DEF ParcelInv, UnheardIsQuiet, Unheard, Sold, Saved, Cancelling, histories
<1>4. CallsTrue' /\ RecordedIsDone' /\ CallsInTurn' /\ DeliveredStays'
  BY DEF ParcelInv, CallsTrue, RecordedIsDone, Done, CallsInTurn, DeliveredStays, Calling, Saved, histories
<1>5. StatusHeard'
  BY <1>1 DEF ParcelInv, StatusHeard, Noted, Saved, histories
<1> QED
  BY <1>2, <1>3, <1>4, <1>5, <1>6 DEF ParcelInv

LEMMA TellsNews == ASSUME NEW l PROVE Tells(l) \subseteq News
  BY DEF Tells, News

LEMMA QuietIsNoted == Noted(Quiet)
  BY DEF Noted, Notes, Quiet, Statuses

LEMMA ScansKeep ==
  ASSUME ParcelInv, NEW t \in Trackers,
         (\E l \in Labels : Scan(t, l) \/ LookUp(t, l)) \/ ReceiveScan(t) \/ GetTracking(t)
  PROVE  ParcelInv'
<1> DEFINE now == tracker[t]
<1>1. /\ now \in Notes
      /\ now.pc # "idle" => now.label \in Labels
      /\ now.pc = "sent" => now.news \in News
  BY DEF ParcelInv, ParcelTypes, StatusHeard, Notes
<1>2. \A l \in Labels : row[l].status \in Statuses
  BY DEF ParcelInv, ParcelTypes, Rows
<1>3. News \subseteq Statuses /\ "none" \in Statuses
  BY DEF News, Statuses
<1>4. ASSUME NEW l \in Labels, Scan(t, l) PROVE ParcelInv'
  <2>1. PICK news \in Tells(l) :
          tracker' = [tracker EXCEPT ![t] = [pc |-> "sent", label |-> l, status |-> "none", news |-> news]]
    BY <1>4 DEF Scan, Track
  <2>2. Noted([pc |-> "sent", label |-> l, status |-> "none", news |-> news])
    BY <1>3, <2>1, TellsNews DEF Noted, Notes
  <2> QED
    BY <1>4, <2>1, <2>2, NoteKeeps DEF Scan
<1>5. ASSUME NEW l \in Labels, LookUp(t, l) PROVE ParcelInv'
  <2>1. Noted([pc |-> "track", label |-> l, status |-> row[l].status, news |-> "none"])
    BY <1>2, <1>3 DEF Noted, Notes
  <2> QED
    BY <1>5, <2>1, NoteKeeps DEF LookUp, Track
<1>6. ASSUME ReceiveScan(t) PROVE ParcelInv'
  <2>1. now.pc = "sent" /\ now.label \in Labels /\ now.news \in News
    BY <1>1, <1>6 DEF ReceiveScan
  <2>2. Noted([pc |-> "advance", label |-> now.label, status |-> row[now.label].status, news |-> now.news])
    BY <1>2, <1>3, <2>1 DEF Noted, Notes
  <2> QED
    BY <1>6, <2>2, QuietIsNoted, NoteKeeps DEF ReceiveScan, Track
<1>7. ASSUME GetTracking(t) PROVE ParcelInv'
  <2>1. PICK news \in Tells(now.label) : tracker' = [tracker EXCEPT ![t] =
          [pc |-> "advance", label |-> now.label, status |-> now.status, news |-> news]]
    BY <1>7 DEF GetTracking, Track
  <2>2. Noted([pc |-> "advance", label |-> now.label, status |-> now.status, news |-> news])
    BY <1>1, <1>3, <1>7, <2>1, TellsNews DEF GetTracking, Noted, Notes
  <2> QED
    BY <1>7, <2>1, <2>2, NoteKeeps DEF GetTracking
<1> QED
  BY <1>4, <1>5, <1>6, <1>7

LEMMA AdvanceKeeps ==
  ASSUME ParcelInv, NEW t \in Trackers, Advance(t)
  PROVE  ParcelInv'
<1> DEFINE l == tracker[t].label
           news == tracker[t].news
           read == tracker[t].status
<1>1. tracker[t].pc = "advance" /\ l \in Labels /\ news \in News /\ read \in Statuses
  BY DEF Advance, ParcelInv, ParcelTypes, StatusHeard, Notes
<1>2. /\ tracker' = [tracker EXCEPT ![t] = Quiet]
      /\ UNCHANGED <<stamp, courier, pickups, carrier, desk, canceller, budgets, abandoned, contended, disturbed>>
  BY DEF Advance
<1>3. CASE UNCHANGED <<row, heard, overtaken>>
  BY <1>2, <1>3, QuietIsNoted, NoteKeeps DEF histories
<1>4. CASE /\ news # read /\ ~GoesBack(t) /\ Saved(l)
           /\ row' = [row EXCEPT ![l].status = news]
           /\ heard' = [heard EXCEPT ![l] = @ \union {news}]
           /\ overtaken' = IF row[l].status = read THEN overtaken ELSE overtaken \union {l}
  <2>1. News \subseteq Statuses \ {"none", "pending"}
    BY DEF News, Statuses
  <2>2. /\ row' \in [Labels -> Rows]
        /\ row'[l].status = news /\ row'[l].action = row[l].action /\ row'[l].cancel = row[l].cancel
        /\ \A k \in Labels : k # l => row'[k] = row[k]
    <3> DEFINE new == [row[l] EXCEPT !.status = news]
    <3>1. row \in [Labels -> Rows] /\ row' = [row EXCEPT ![l] = new]
      BY <1>4 DEF ParcelInv, ParcelTypes
    <3>2. /\ new \in Rows /\ new.status = news
          /\ new.action = row[l].action /\ new.cancel = row[l].cancel
      BY <1>1, <2>1, <3>1 DEF Rows
    <3> HIDE DEF new
    <3> QED
      BY <1>1, <3>1, <3>2
  <2>3. /\ heard' \in [Labels -> SUBSET Statuses] /\ heard'[l] = heard[l] \union {news}
        /\ \A k \in Labels : k # l => heard'[k] = heard[k]
    BY <1>1, <1>4, <2>1 DEF ParcelInv, ParcelTypes
  <2>4. \A k \in Labels : (row'[k].status # "none" <=> row[k].status # "none")
                          /\ row'[k].action = row[k].action /\ row'[k].cancel = row[k].cancel
    BY <1>1, <1>4, <2>1, <2>2 DEF Saved
  <2>5. /\ tracker' \in [Trackers -> Notes]
        /\ \A u \in Trackers : tracker'[u] = (IF u = t THEN Quiet ELSE tracker[u])
    BY <1>2, QuietIsNoted DEF ParcelInv, ParcelTypes, Noted, Notes
  <2>6. ParcelTypes'
    BY <1>2, <2>2, <2>3, <2>5 DEF ParcelInv, ParcelTypes, Notes
  <2>7. DesksInOrder' /\ SoldIsKnown'
    BY <1>2, <2>4, DesksStay DEF Sold, Saved
  <2>8. ~Unheard(l)
    BY <1>1, <1>4 DEF ParcelInv, UnheardIsQuiet
  <2>9. UnheardIsQuiet'
    BY <1>2, <2>3, <2>4, <2>8 DEF ParcelInv, UnheardIsQuiet, Unheard, Sold, Saved, Cancelling
  <2>10. CallsTrue' /\ RecordedIsDone'
    BY <1>2, <2>4 DEF ParcelInv, CallsTrue, RecordedIsDone, Done
  <2>11. CallsInTurn'
    BY <1>2, <2>4 DEF ParcelInv, CallsInTurn, Calling, Saved
  <2>12. StatusHeard'
    BY <1>4, <2>2, <2>3, <2>5 DEF ParcelInv, StatusHeard, Saved, Quiet
  <2>13. ASSUME row[l].status = read, l \notin overtaken,
                "delivered" \in heard[l], "exception" \notin heard[l], news # "exception"
         PROVE  news = "delivered"
    <3>1. read = "delivered"
      BY <1>1, <1>4, <2>13 DEF ParcelInv, DeliveredStays
    <3>2. CASE news = "in_transit"
      BY <1>4, <3>1, <3>2 DEF GoesBack, Place
    <3> QED
      BY <1>1, <2>13, <3>2 DEF News
  <2>14. DeliveredStays'
    BY <1>1, <1>4, <2>2, <2>3, <2>13 DEF ParcelInv, DeliveredStays, Saved, News
  <2> QED
    BY <2>6, <2>7, <2>9, <2>10, <2>11, <2>12, <2>14 DEF ParcelInv
<1> QED
  BY <1>3, <1>4 DEF Advance

-----------------------------------------------------------------------------
(* The calls that cancel *)

\* What a call may come to next: it is about a label somebody has heard of, and
\* has the success it is about to record.
Calls == [pc : {"idle", "carrier", "record", "release"},
          label : Labels \union {0}, action : Actions, result : Results]
GoodCall(call) ==
  /\ call \in Calls
  /\ call.pc # "idle" =>
       /\ call.label \in Labels /\ ~Unheard(call.label)
       /\ call.pc = "record" /\ call.result = "succeeded" => Done(call.label, call.action)

LEMMA CallsTyped ==
  ASSUME ParcelInv, NEW c \in Cancellers
  PROVE  /\ canceller[c] \in Calls
         /\ canceller[c].pc # "idle" => canceller[c].label \in Labels /\ ~Unheard(canceller[c].label)
  BY DEF ParcelInv, ParcelTypes, CallsTrue, UnheardIsQuiet, Cancelling, Calls

LEMMA ReadyIsGood == GoodCall(Ready)
  BY DEF GoodCall, Calls, Ready, Actions, Results

\* A call goes on, and nothing else changes but what is known to be disturbed.
LEMMA CallKeeps ==
  ASSUME ParcelInv, NEW c \in Cancellers, NEW call, GoodCall(call),
         canceller' = [canceller EXCEPT ![c] = call],
         UNCHANGED <<row, stamp, courier, pickups, desk, tracker, abandoned, contended, heard, overtaken>>,
         CallsInTurn'
  PROVE  ParcelInv'
<1>1. \A d \in Cancellers : canceller'[d] = (IF d = c THEN call ELSE canceller[d])
  BY DEF ParcelInv, ParcelTypes
<1>2. canceller' \in [Cancellers -> Calls]
  BY DEF ParcelInv, ParcelTypes, GoodCall, Calls
<1>3. ParcelTypes'
  BY <1>2 DEF ParcelInv, ParcelTypes, Calls
<1>4. DesksInOrder' /\ SoldIsKnown'
  BY DesksStay DEF Sold, Saved
<1>5. UnheardIsQuiet'
  BY <1>1 DEF ParcelInv, UnheardIsQuiet, Unheard, Sold, Saved, Cancelling, GoodCall
<1>6. CallsTrue'
  BY <1>1 DEF ParcelInv, CallsTrue, Done, GoodCall
<1>7. StatusHeard' /\ DeliveredStays' /\ RecordedIsDone'
  BY DEF ParcelInv, StatusHeard, DeliveredStays, RecordedIsDone, Saved
<1> QED
  BY <1>3, <1>4, <1>5, <1>6, <1>7 DEF ParcelInv

LEMMA ReadKeeps ==
  ASSUME ParcelInv, NEW c \in Cancellers, NEW l \in Labels, ReadShipment(c, l)
  PROVE  ParcelInv'
<1> DEFINE call == [pc |-> "carrier", label |-> l, action |-> ResolveAction(row[l].status),
                    result |-> "none"]
<1>1. /\ canceller[c].pc = "idle" /\ Saved(l) /\ row[l].cancel # "succeeded"
      /\ canceller' = [canceller EXCEPT ![c] = call]
      /\ disturbed' = (IF Cancelling(l) THEN disturbed \union {l} ELSE disturbed)
      /\ UNCHANGED <<row, stamp, courier, pickups, desk, tracker, abandoned, contended, heard, overtaken>>
  BY DEF ReadShipment, AlreadyCancelled
<1>2. GoodCall(call)
  <2>1. ~Unheard(l)
    BY <1>1 DEF ParcelInv, UnheardIsQuiet
  <2>2. ResolveAction(row[l].status) \in Actions
    BY DEF ResolveAction, Actions
  <2> QED
    BY <2>1, <2>2 DEF GoodCall, Calls, Results
<1>3. \A d \in Cancellers : canceller'[d] = (IF d = c THEN call ELSE canceller[d])
  BY <1>1 DEF ParcelInv, ParcelTypes
<1>4. ASSUME NEW k \in Labels \ disturbed'
      PROVE  /\ k \notin disturbed /\ (k = l => ~Cancelling(l))
             /\ \A d \in Cancellers : Calling(d, k)' => (Calling(d, k) /\ d # c) \/ (d = c /\ k = l)
             /\ \A d \in Cancellers : Calling(d, k) => Calling(d, k)' /\ d # c
  BY <1>1, <1>3, <1>4 DEF Calling
<1>5. CallsInTurn'
  <2> SUFFICES ASSUME NEW k \in Labels \ disturbed'
               PROVE  /\ \A d, e \in Cancellers : Calling(d, k)' /\ Calling(e, k)' => d = e
                      /\ \A d \in Cancellers : Calling(d, k)' =>
                           /\ canceller'[d].pc \in {"carrier", "record"} => row'[k].cancel # "succeeded"
                           /\ canceller'[d].pc = "carrier" => pickups'[k] = 0
                      /\ pickups'[k] <= 1
                      /\ pickups'[k] > 0 =>
                           \/ ~Saved(k)' \/ row'[k].cancel = "succeeded"
                           \/ \E d \in Cancellers : Calling(d, k)' /\ canceller'[d].pc = "record"
                                                    /\ canceller'[d].result = "succeeded"
    BY DEF CallsInTurn
  <2>1. k \notin disturbed
    BY <1>4
  <2>2. CASE k = l
    <3>1. \A d \in Cancellers : ~Calling(d, l)
      BY <1>4, <2>2 DEF Cancelling, Calling
    <3>2. pickups[l] = 0
      BY <1>1, <2>1, <2>2, <3>1 DEF ParcelInv, CallsInTurn, ParcelTypes
    <3> QED
      BY <1>1, <1>3, <1>4, <2>2, <3>1, <3>2
  <2>3. CASE k # l
    BY <1>1, <1>3, <1>4, <2>1, <2>3 DEF ParcelInv, CallsInTurn, Saved
  <2> QED
    BY <2>2, <2>3
<1> QED
  BY <1>1, <1>2, <1>5, CallKeeps

\* The carrier refuses or cannot: there is nothing to record but that.
LEMMA RefusedKeeps ==
  ASSUME ParcelInv, NEW c \in Cancellers, Unsupported(c) \/ CarrierRefuses(c)
  PROVE  ParcelInv'
<1>1. /\ canceller[c].pc = "carrier"
      /\ \E result \in {"failed", "unsupported"} : Answered(c, result)
      /\ UNCHANGED <<row, stamp, courier, pickups, desk, tracker, abandoned, contended, heard, overtaken, disturbed>>
  BY DEF Unsupported, CarrierRefuses, Refusal, histories
<1>2. PICK result \in {"failed", "unsupported"} : Answered(c, result)
  BY <1>1
<1> DEFINE call == [canceller[c] EXCEPT !.pc = "record", !.result = result]
<1>3. canceller' = [canceller EXCEPT ![c] = call]
  BY <1>2 DEF Answered, ParcelInv, ParcelTypes
<1>4. call \in Calls /\ call.pc = "record" /\ call.result = result /\ call.label = canceller[c].label
  BY <1>2, CallsTyped DEF Calls, Results
<1>5. GoodCall(call)
  BY <1>1, <1>4, CallsTyped DEF GoodCall
<1>6. \A d \in Cancellers : canceller'[d] = (IF d = c THEN call ELSE canceller[d])
  BY <1>3 DEF ParcelInv, ParcelTypes
<1>7. /\ \A k, d : d \in Cancellers => (Calling(d, k)' <=> Calling(d, k))
      /\ \A d \in Cancellers : canceller'[d].pc = "carrier" => canceller[d].pc = "carrier"
      /\ \A d \in Cancellers : canceller'[d].pc \in {"carrier", "record"}
                                 => canceller[d].pc \in {"carrier", "record"}
      /\ \A d \in Cancellers : canceller[d].pc = "record" => canceller'[d] = canceller[d]
  BY <1>1, <1>4, <1>6 DEF Calling
<1>8. CallsInTurn'
  BY <1>1, <1>7 DEF ParcelInv, CallsInTurn, Saved
<1> HIDE DEF call
<1> QED
  BY <1>1, <1>3, <1>5, <1>8, CallKeeps

\* A call ends, or goes on to the release, without having recorded anything
\* that was not recorded before.
LEMMA EndKeeps ==
  ASSUME ParcelInv, NEW c \in Cancellers, RecordFails(c) \/ CancelDies(c) \/ ReleaseAllocations(c)
  PROVE  ParcelInv'
<1> DEFINE now == canceller[c]
<1>1. /\ now.pc # "idle" /\ UNCHANGED <<row, courier, pickups, desk, tracker, abandoned, contended, heard, overtaken>>
      /\ \/ disturbed' = disturbed \union {now.label}
         \/ now.pc = "release" /\ disturbed' = disturbed
  BY DEF RecordFails, CancelDies, ReleaseAllocations, histories
<1>2. stamp' = stamp
  BY DEF RecordFails, CancelDies, ReleaseAllocations, AllocationColumns
<1>3. PICK call : /\ canceller' = [canceller EXCEPT ![c] = call]
                  /\ call = Ready \/ call = [now EXCEPT !.pc = "release"]
                  /\ now.pc = "release" => call = Ready
  <2>1. CASE RecordFails(c)
    BY <2>1 DEF RecordFails, AfterRecord, ParcelInv, ParcelTypes
  <2>2. CASE CancelDies(c) \/ ReleaseAllocations(c)
    BY <2>2 DEF CancelDies, ReleaseAllocations
  <2> QED
    BY <2>1, <2>2
<1>4. /\ call.pc \in {"idle", "release"} /\ GoodCall(call)
      /\ call.pc = "release" => call.label = now.label
  <2>1. CASE call = Ready
    BY <2>1, ReadyIsGood DEF Ready
  <2>2. CASE call = [now EXCEPT !.pc = "release"]
    <3>1. call \in Calls /\ call.pc = "release" /\ call.label = now.label
      BY <2>2, CallsTyped DEF Calls
    <3> QED
      BY <1>1, <3>1, CallsTyped DEF GoodCall
  <2> QED
    BY <1>3, <2>1, <2>2
<1>5. \A d \in Cancellers : canceller'[d] = (IF d = c THEN call ELSE canceller[d])
  BY <1>3 DEF ParcelInv, ParcelTypes
<1>6. ASSUME NEW k \in Labels \ disturbed'
      PROVE  /\ k \notin disturbed
             /\ \A d \in Cancellers : Calling(d, k)' => Calling(d, k)
             /\ \A d \in Cancellers : canceller'[d].pc \in {"carrier", "record"}
                                        => canceller'[d] = canceller[d]
             /\ \A d \in Cancellers : Calling(d, k) /\ canceller[d].pc = "record"
                                        => canceller'[d] = canceller[d]
  <2>1. k \notin disturbed /\ (Calling(c, k) => now.pc = "release")
    BY <1>1, <1>6 DEF Calling
  <2> QED
    <3>1. /\ canceller'[c] = call /\ call.pc \in {"idle", "release"}
          /\ call.pc = "release" => call.label = now.label /\ now.pc # "idle"
          /\ \A d \in Cancellers : d # c => canceller'[d] = canceller[d]
      BY <1>1, <1>4, <1>5
    <3>2. \A d \in Cancellers : Calling(d, k)' => Calling(d, k)
      BY <3>1 DEF Calling
    <3>3. \A d \in Cancellers : Calling(d, k) /\ canceller[d].pc = "record"
                                 => canceller'[d] = canceller[d]
      BY <2>1, <3>1
    <3> QED
      BY <2>1, <3>1, <3>2, <3>3
<1>7. CallsInTurn'
  BY <1>1, <1>6 DEF ParcelInv, CallsInTurn, Saved, Calling
<1> QED
  BY <1>1, <1>2, <1>3, <1>4, <1>7, CallKeeps

\* What was done at the carrier is not undone there.
LEMMA DoneStays ==
  ASSUME ParcelInv, NEW c \in Cancellers, canceller[c].pc = "carrier",
         CarrierCancels(c) \/ CarrierCollects(c),
         NEW l, l = canceller[c].label, NEW asked, asked = canceller[c].action
  PROVE  /\ courier' \in [Labels -> {"unsold", "booked", "moving", "delivered", "cancelled", "returning"}]
         /\ pickups' \in [Labels -> Nat]
         /\ \A k \in Labels : courier'[k] # "unsold" <=> courier[k] # "unsold"
         /\ \A k \in Labels, action \in Actions : Done(k, action) => Done(k, action)'
         /\ Done(l, asked)'
         /\ \A k \in Labels : k # l => pickups'[k] = pickups[k]
         /\ pickups'[l] <= pickups[l] + 1
<1>1. l \in Labels /\ courier \in [Labels -> {"unsold", "booked", "moving", "delivered", "cancelled", "returning"}]
      /\ pickups \in [Labels -> Nat]
  BY DEF ParcelInv, ParcelTypes, CallsTrue
<1>2. CASE CarrierCancels(c)
  <2>1. PICK place \in {"cancelled", "returning"} : courier' = [courier EXCEPT ![l] = place]
    <3>1. CASE courier[l] = "booked"
      BY <1>2, <3>1 DEF CarrierCancels
    <3>2. CASE courier[l] = "moving"
      BY <1>2, <3>2 DEF CarrierCancels
    <3>3. CASE courier[l] \in {"cancelled", "returning"}
      BY <1>1, <1>2, <3>3 DEF CarrierCancels
    <3> QED
      BY <1>2, <3>1, <3>2, <3>3 DEF CarrierCancels
  <2>2. courier[l] # "unsold" /\ pickups' = pickups /\ canceller[c].action # "reverse_pickup"
    BY <1>2 DEF CarrierCancels
  <2>3. courier'[l] = place /\ \A k \in Labels : k # l => courier'[k] = courier[k]
    BY <1>1, <2>1
  <2>4. \A k \in Labels, action \in Actions : Done(k, action) => Done(k, action)'
    BY <2>2, <2>3 DEF Done
  <2>5. courier' \in [Labels -> {"unsold", "booked", "moving", "delivered", "cancelled", "returning"}]
    BY <1>1, <2>1
  <2>6. pickups'[l] <= pickups[l] + 1
    BY <1>1, <2>2
  <2> QED
    BY <1>1, <2>2, <2>3, <2>4, <2>5, <2>6 DEF Done
<1>3. CASE CarrierCollects(c)
  <2>1. /\ canceller[c].action = "reverse_pickup" /\ courier' = courier
        /\ pickups' = [pickups EXCEPT ![l] = pickups[l] + 1]
    BY <1>3 DEF CarrierCollects
  <2>2. pickups'[l] = pickups[l] + 1 /\ \A k \in Labels : k # l => pickups'[k] = pickups[k]
    BY <1>1, <2>1
  <2>3. pickups' \in [Labels -> Nat] /\ pickups'[l] > 0 /\ pickups'[l] <= pickups[l] + 1
    BY <1>1, <2>1, <2>2
  <2>4. \A k \in Labels, action \in Actions : Done(k, action) => Done(k, action)'
    BY <1>1, <2>1, <2>2, <2>3 DEF Done
  <2> QED
    BY <1>1, <2>1, <2>2, <2>3, <2>4 DEF Done
<1> QED
  BY <1>2, <1>3

LEMMA CarrierKeeps ==
  ASSUME ParcelInv, NEW c \in Cancellers, CarrierDoes(c) \/ AnswerLost(c)
  PROVE  ParcelInv'
<1> DEFINE now == canceller[c]
           l == now.label
<1>1. /\ now.pc = "carrier" /\ (CarrierCancels(c) \/ CarrierCollects(c))
      /\ UNCHANGED <<row, stamp, desk, tracker, abandoned, contended, heard, overtaken>>
      /\ \/ Answered(c, "succeeded") /\ disturbed' = disturbed
         \/ Answered(c, "failed") /\ disturbed' = disturbed \union {l}
  BY DEF CarrierDoes, AnswerLost, histories
<1>2. PICK result \in {"succeeded", "failed"} :
        /\ Answered(c, result)
        /\ IF result = "succeeded" THEN disturbed' = disturbed ELSE disturbed' = disturbed \union {l}
  BY <1>1
<1> DEFINE call == [now EXCEPT !.pc = "record", !.result = result]
<1>3. canceller' = [canceller EXCEPT ![c] = call]
  BY <1>2 DEF Answered, ParcelInv, ParcelTypes
<1>4. now \in Calls /\ l \in Labels /\ ~Unheard(l)
  BY <1>1, CallsTyped
<1>5. /\ call \in Calls /\ call.pc = "record" /\ call.result = result /\ call.label = l
      /\ call.action = now.action
  BY <1>2, <1>4 DEF Calls, Results
<1> HIDE DEF call
<1>6. \A d \in Cancellers : canceller'[d] = (IF d = c THEN call ELSE canceller[d])
  BY <1>3 DEF ParcelInv, ParcelTypes
<1>7. ParcelTypes'
  <2>1. canceller' \in [Cancellers -> Calls]
    BY <1>3, <1>5 DEF ParcelInv, ParcelTypes, Calls
  <2> QED
    BY <1>1, <2>1, DoneStays DEF ParcelInv, ParcelTypes, Calls
<1>8. DesksInOrder' /\ SoldIsKnown'
  BY <1>1, DoneStays, DesksStay DEF Sold, Saved
<1>9. \A k \in Labels : Unheard(k)' <=> Unheard(k)
  BY <1>1, DoneStays DEF Unheard, Sold
<1>10. UnheardIsQuiet'
  BY <1>1, <1>4, <1>5, <1>6, <1>9, DoneStays DEF ParcelInv, UnheardIsQuiet, Saved, Cancelling
<1>11. CallsTrue'
  <2>1. \A d \in Cancellers : canceller[d].action \in Actions
    BY DEF ParcelInv, ParcelTypes
  <2> QED
    BY <1>1, <1>4, <1>5, <1>6, <2>1, DoneStays DEF ParcelInv, CallsTrue
<1>12. RecordedIsDone'
  <2>1. \A k \in Labels : RecordedIsDone => (row[k].cancel = "succeeded" => Done(k, row[k].action))
    BY DEF RecordedIsDone, Done
  <2>2. \A k \in Labels : row[k].action \in Actions
    BY DEF ParcelInv, ParcelTypes, Rows
  <2>3. \A k \in Labels : row'[k].cancel = "succeeded" => Done(k, row[k].action)'
    BY <1>1, <2>1, <2>2, DoneStays DEF ParcelInv
  <2> QED
    BY <1>1, <2>3 DEF RecordedIsDone, Done
<1>13. CallsInTurn'
  <2>1. \A k, d : d \in Cancellers => (Calling(d, k)' <=> Calling(d, k))
    BY <1>1, <1>5, <1>6 DEF Calling
  <2>2. \A d \in Cancellers : d # c => canceller'[d] = canceller[d]
    BY <1>6
  <2>3. Calling(c, l) /\ canceller'[c].pc = "record" /\ canceller'[c].result = result
    BY <1>1, <1>5, <1>6 DEF Calling
  <2> SUFFICES ASSUME NEW k \in Labels \ disturbed'
               PROVE  /\ \A d, e \in Cancellers : Calling(d, k)' /\ Calling(e, k)' => d = e
                      /\ \A d \in Cancellers : Calling(d, k)' =>
                           /\ canceller'[d].pc \in {"carrier", "record"} => row'[k].cancel # "succeeded"
                           /\ canceller'[d].pc = "carrier" => pickups'[k] = 0
                      /\ pickups'[k] <= 1
                      /\ pickups'[k] > 0 =>
                           \/ ~Saved(k)' \/ row'[k].cancel = "succeeded"
                           \/ \E d \in Cancellers : Calling(d, k)' /\ canceller'[d].pc = "record"
                                                    /\ canceller'[d].result = "succeeded"
    BY DEF CallsInTurn
  <2>4. k \notin disturbed /\ (k = l => result = "succeeded")
    BY <1>2
  <2>5. CASE k = l
    <3>1. /\ \A d \in Cancellers : Calling(d, k) => d = c
          /\ row[k].cancel # "succeeded" /\ pickups[k] = 0
      BY <1>1, <2>3, <2>4, <2>5 DEF ParcelInv, CallsInTurn
    <3>2. pickups'[k] <= 1
      BY <1>1, <1>4, <2>5, <3>1, DoneStays
    <3> QED
      BY <1>1, <2>1, <2>3, <2>4, <2>5, <3>1, <3>2
  <2>6. CASE k # l
    <3>1. pickups'[k] = pickups[k] /\ ~Calling(c, k) /\ (Saved(k)' <=> Saved(k))
      BY <1>1, <2>6, DoneStays DEF Calling, Saved
    <3> QED
      BY <1>1, <2>1, <2>2, <2>4, <3>1 DEF ParcelInv, CallsInTurn
  <2> QED
    BY <2>5, <2>6
<1>14. StatusHeard' /\ DeliveredStays'
  BY <1>1, <1>2 DEF ParcelInv, StatusHeard, DeliveredStays, Saved
<1> QED
  BY <1>7, <1>8, <1>10, <1>11, <1>12, <1>13, <1>14 DEF ParcelInv

LEMMA RecordKeeps ==
  ASSUME ParcelInv, NEW c \in Cancellers, RecordOutcome(c)
  PROVE  ParcelInv'
<1> DEFINE now == canceller[c]
           l == now.label
<1>1. /\ now.pc = "record" /\ AfterRecord(c)
      /\ row' = IF Saved(l) THEN [row EXCEPT ![l].action = now.action, ![l].cancel = now.result] ELSE row
      /\ UNCHANGED <<stamp, courier, pickups, desk, tracker, abandoned, contended, heard, overtaken, disturbed>>
  BY DEF RecordOutcome, histories
<1>2. now \in Calls /\ l \in Labels /\ ~Unheard(l)
  BY <1>1, CallsTyped
<1>3. PICK call : /\ canceller' = [canceller EXCEPT ![c] = call]
                  /\ call = Ready \/ (call = [now EXCEPT !.pc = "release"] /\ now.result = "succeeded")
  BY <1>1 DEF AfterRecord, ParcelInv, ParcelTypes
<1>4. /\ call \in Calls /\ call.pc \in {"idle", "release"}
      /\ call.pc = "release" => call.label = l
  <2>1. CASE call = Ready
    BY <2>1, ReadyIsGood DEF GoodCall, Ready
  <2>2. CASE call = [now EXCEPT !.pc = "release"]
    BY <1>2, <2>2 DEF Calls
  <2> QED
    BY <1>3, <2>1, <2>2
<1>5. \A d \in Cancellers : canceller'[d] = (IF d = c THEN call ELSE canceller[d])
  BY <1>3 DEF ParcelInv, ParcelTypes
<1>6. /\ row' \in [Labels -> Rows]
      /\ \A k \in Labels : k # l => row'[k] = row[k]
      /\ row'[l].status = row[l].status
      /\ Saved(l) => row'[l].action = now.action /\ row'[l].cancel = now.result
      /\ ~Saved(l) => row'[l] = row[l]
  <2>1. row \in [Labels -> Rows] /\ now.action \in Actions /\ now.result \in Results
    BY <1>2 DEF ParcelInv, ParcelTypes, Calls
  <2>2. CASE ~Saved(l)
    BY <1>1, <2>1, <2>2
  <2>3. CASE Saved(l)
    <3> DEFINE new == [row[l] EXCEPT !.action = now.action, !.cancel = now.result]
    <3>1. row' = [row EXCEPT ![l] = new]
      BY <1>1, <1>2, <2>1, <2>3
    <3>2. new \in Rows /\ new.status = row[l].status /\ new.action = now.action /\ new.cancel = now.result
      BY <1>2, <2>1 DEF Rows
    <3> HIDE DEF new
    <3> QED
      BY <1>2, <2>1, <2>3, <3>1, <3>2
  <2> QED
    BY <2>2, <2>3
<1>7. \A k \in Labels : row'[k].status = row[k].status
  BY <1>6
<1>8. ParcelTypes'
  <2>1. canceller' \in [Cancellers -> Calls]
    BY <1>3, <1>4 DEF ParcelInv, ParcelTypes, Calls
  <2> QED
    BY <1>1, <1>6, <2>1 DEF ParcelInv, ParcelTypes, Calls
<1>9. DesksInOrder' /\ SoldIsKnown'
  BY <1>1, <1>7, DesksStay DEF Sold, Saved
<1>10. UnheardIsQuiet'
  BY <1>1, <1>2, <1>4, <1>5, <1>6, <1>7
     DEF ParcelInv, UnheardIsQuiet, Unheard, Sold, Saved, Cancelling
<1>11. CallsTrue'
  BY <1>1, <1>2, <1>4, <1>5 DEF ParcelInv, CallsTrue, Done
<1>12. RecordedIsDone'
  <2>1. now.result = "succeeded" => Done(l, now.action)
    BY <1>1 DEF ParcelInv, CallsTrue
  <2> QED
    BY <1>1, <1>6, <2>1 DEF ParcelInv, RecordedIsDone, Done
<1>13. CallsInTurn'
  <2>1. /\ \A d \in Cancellers : d # c => canceller'[d] = canceller[d]
        /\ canceller'[c].pc \notin {"carrier", "record"} /\ Calling(c, l)
        /\ \A k, d : d \in Cancellers /\ Calling(d, k)' => Calling(d, k)
        /\ \A k : k # l => ~Calling(c, k)
    BY <1>1, <1>4, <1>5 DEF Calling
  <2>2. \A k \in Labels : Saved(k)' <=> Saved(k)
    BY <1>7 DEF Saved
  <2> SUFFICES ASSUME NEW k \in Labels \ disturbed
               PROVE  /\ \A d, e \in Cancellers : Calling(d, k)' /\ Calling(e, k)' => d = e
                      /\ \A d \in Cancellers : Calling(d, k)' =>
                           /\ canceller'[d].pc \in {"carrier", "record"} => row'[k].cancel # "succeeded"
                           /\ canceller'[d].pc = "carrier" => pickups'[k] = 0
                      /\ pickups'[k] <= 1
                      /\ pickups'[k] > 0 =>
                           \/ ~Saved(k)' \/ row'[k].cancel = "succeeded"
                           \/ \E d \in Cancellers : Calling(d, k)' /\ canceller'[d].pc = "record"
                                                    /\ canceller'[d].result = "succeeded"
    BY <1>1 DEF CallsInTurn
  <2>3. CASE k = l
    <3>1. /\ \A d \in Cancellers : Calling(d, k) => d = c
          /\ row[k].cancel # "succeeded" /\ pickups[k] <= 1
          /\ pickups[k] > 0 => ~Saved(k) \/ now.result = "succeeded"
      BY <1>1, <2>1, <2>3 DEF ParcelInv, CallsInTurn
    <3> QED
      BY <1>1, <1>6, <2>1, <2>2, <2>3, <3>1
  <2>4. CASE k # l
    BY <1>1, <1>6, <2>1, <2>2, <2>4 DEF ParcelInv, CallsInTurn, Calling
  <2> QED
    BY <2>3, <2>4
<1>14. StatusHeard' /\ DeliveredStays'
  BY <1>1, <1>7 DEF ParcelInv, StatusHeard, DeliveredStays, Saved
<1> QED
  BY <1>8, <1>9, <1>10, <1>11, <1>12, <1>13, <1>14 DEF ParcelInv

-----------------------------------------------------------------------------
LEMMA ParcelStepKeeps == ParcelInv /\ [ParcelStep]_parcelVars => ParcelInv'
<1> SUFFICES ASSUME ParcelInv, [ParcelStep]_parcelVars PROVE ParcelInv'
  OBVIOUS
<1>1. CASE \E d \in Desks : LabelStep(d)
  BY <1>1, AskKeeps, BuyKeeps, SellsNoneKeeps, PersistKeeps, StampKeeps, LabelDiesKeeps DEF LabelStep
<1>2. CASE \E l \in Labels : Travels(l) \/ UpdateStatus(l) \/ DeleteShipment(l)
  BY <1>2, TravelsKeeps, UpdateStatusKeeps, DeleteKeeps
<1>3. CASE \E t \in Trackers : TrackStep(t)
  BY <1>3, ScansKeep, AdvanceKeeps DEF TrackStep
<1>4. CASE \E c \in Cancellers : CancelStep(c)
  BY <1>4, ReadKeeps, RefusedKeeps, CarrierKeeps, RecordKeeps, EndKeeps DEF CancelStep
<1>5. CASE UNCHANGED parcelVars
  BY <1>5 DEF parcelVars, budgets, histories, ParcelInv, ParcelTypes, DesksInOrder, SoldIsKnown,
       UnheardIsQuiet, Unheard, CallsTrue, Done, CallsInTurn, Calling, StatusHeard, DeliveredStays,
       RecordedIsDone, Sold, Saved, Cancelling, Holds
<1> QED
  BY <1>1, <1>2, <1>3, <1>4, <1>5 DEF ParcelStep

LEMMA ParcelInvSafe == ParcelInv => ParcelsSafe
<1> SUFFICES ASSUME ParcelInv PROVE ParcelsSafe
  OBVIOUS
<1>1. OneParcel
  <2> DEFINE sold == {l \in Labels \ (abandoned \union contended) : courier[l] # "unsold"}
  <2>1. ASSUME NEW k \in sold, NEW l \in sold PROVE k = l
    <3>1. \A j \in sold : j # 0 /\ (stamp = j \/ \E d \in Desks : Holds(d, j) /\ desk[d].alone)
      <4> SUFFICES ASSUME NEW j \in sold
                   PROVE  j # 0 /\ (stamp = j \/ \E d \in Desks : Holds(d, j) /\ desk[d].alone)
        OBVIOUS
      <4>1. j \in Labels /\ j \notin contended /\ j # 0
        BY LabelsAreNumbers
      <4>2. stamp = j \/ \E d \in Desks : Holds(d, j)
        BY DEF ParcelInv, SoldIsKnown, Sold
      <4>3. ASSUME NEW d \in Desks, Holds(d, j)
            PROVE  desk[d].alone
        BY <4>1, <4>3 DEF ParcelInv, DesksInOrder, Holds
      <4> QED BY <4>1, <4>2, <4>3
    <3>2. \A d, e \in Desks, i, j \in sold :
            Holds(d, i) /\ desk[d].alone => stamp = 0 /\ (Holds(e, j) => i = j)
      BY DEF ParcelInv, DesksInOrder, Holds
    <3> QED
      BY <2>1, <3>1, <3>2
  <2>2. CASE sold = {}
    BY <2>2, FS_EmptySet DEF OneParcel
  <2>3. CASE sold # {}
    <3>1. PICK l : sold = {l}
      BY <2>1, <2>3
    <3> HIDE DEF sold
    <3>2. Cardinality(sold) = 1
      BY <3>1, FS_Singleton
    <3> QED
      BY <3>2 DEF OneParcel, sold
  <2> QED
    BY <2>2, <2>3
<1> QED
  BY <1>1 DEF ParcelInv, CallsInTurn, ParcelsSafe, HitOnce

\* The share of an order at one warehouse: it is sold one label, one courier is
\* sent back for it, a cancel on record is one the carrier carried out, and a
\* delivered parcel stays delivered, but for what the properties name.  For any
\* number of label requests, labels, trackers and calls, all at once.
THEOREM ParcelsAreSafe == ParcelSpec => []ParcelsSafe
<1>1. ParcelInit => ParcelInv
  BY ParcelInitInv
<1>2. ParcelInv /\ [ParcelStep]_parcelVars => ParcelInv'
  BY ParcelStepKeeps
<1>3. ParcelInv => ParcelsSafe
  BY ParcelInvSafe
<1> QED
  BY <1>1, <1>2, <1>3, PTL DEF ParcelSpec
=============================================================================
