------------------------------- MODULE Loyalty --------------------------------
(***************************************************************************)
(* The loyalty program of a store (internal/loyalty): members enrol, earn  *)
(* on paid orders, redeem at checkout, are adjusted by the merchant, and   *)
(* lose points that grew old.                                              *)
(***************************************************************************)
EXTENDS Requests

CONSTANTS
  Members,        \* customers' emails
  PaidOrders,     \* paid orders whose payment webhook awards points
  BuyerOf,        \* the member who placed a paid order
  EarnBase,       \* floor(base * points_per_unit) of a paid order
  SignupBonus, ReferralBonus, RefereeBonus,
  UpperTierAt,    \* min_points of the upper tier, which doubles what is earned
  MaxAwards,      \* bound on deliveries of one order's payment event
  MaxAdjusts, MaxCycles, \* bounds on adjustments and on expiry cycles
  Overlapping     \* may two deliveries of one order be processed at once?

ASSUME LoyaltyAssumption ==
  /\ IsFiniteSet(PaidOrders) /\ BuyerOf \in [PaidOrders -> Members] /\ EarnBase \in [PaidOrders -> Nat \ {0}]
  /\ {SignupBonus, ReferralBonus, RefereeBonus, UpperTierAt} \subseteq Nat
  /\ {MaxAwards, MaxAdjusts, MaxCycles} \subseteq Nat /\ Overlapping \in BOOLEAN

Deliveries == PaidOrders \X (1..MaxAwards)

VARIABLES
  member,       \* customer_loyalties: balance, lifetime_points and tier
  pointsHolder, \* the checkout that has the member's row locked
  earn,         \* loyalty_transactions of type earn: those of each order
  award,        \* a delivery between its reads and its transaction: what it read
  debits,       \* loyalty_transactions that took points, as sums by member
  old,          \* orders whose earn is past the cutoff of point_expiry_days
  cycles, adjusts,
  expiredBy     \* history: how many cycles debited an order's earn
loyaltyVars == <<member, pointsHolder, earn, award, debits, old, cycles, adjusts, expiredBy>>

Stranger == [enrolled |-> FALSE, balance |-> 0, lifetime |-> 0, tier |-> 0]
Idle == [at |-> "waiting", lifetime |-> 0, tier |-> 0]
AwardOver == [Idle EXCEPT !.at = "done"]

\* calculateTier, by position.
TierOf(lifetime) == IF lifetime >= UpperTierAt THEN 1 ELSE 0

Enrolled(bonus) ==
  [enrolled |-> TRUE, balance |-> bonus, lifetime |-> bonus, tier |-> TierOf(bonus)]

\* Either nobody has joined, or all have.
LoyaltyInit ==
  /\ \/ member = [m \in Members |-> Stranger]
     \/ member = [m \in Members |-> Enrolled(SignupBonus)]
  /\ pointsHolder = Nobody
  /\ earn = [o \in PaidOrders |-> <<>>]
  /\ award = [d \in Deliveries |-> Idle]
  /\ debits = [m \in Members |-> 0]
  /\ old = {} /\ cycles = 0 /\ adjusts = 0
  /\ expiredBy = [o \in PaidOrders |-> 0]

\* CreditPoints, with the tier of the new lifetime.
Credited(row, points) ==
  [row EXCEPT !.balance = @ + points, !.lifetime = @ + points,
              !.tier = TierOf(row.lifetime + points)]

\* One transaction; the unique email makes a second enrolment a no-op.
Enroll(m, referrer) ==
  /\ pointsHolder = Nobody /\ ~member[m].enrolled
  /\ member' = IF referrer = m THEN [member EXCEPT ![m] = Enrolled(SignupBonus)]
               ELSE [member EXCEPT ![m] = Enrolled(SignupBonus + RefereeBonus),
                                   ![referrer] = Credited(@, ReferralBonus)]
  /\ UNCHANGED <<pointsHolder, earn, award, debits, old, cycles, adjusts, expiredBy>>

\* Mutant: no look at what the order earned before.
EarnsAnyway(o) == Len(earn[o]) >= 0

\* HasEarnForOrder.
EarnedNothing(o) == earn[o] = <<>>

\* A webhook delivery reads, outside any transaction, the member and whether
\* the order has earned.
AwardReads(o, n) ==
  /\ award[<<o, n>>].at = "waiting"
  /\ Overlapping \/ \A i \in 1..MaxAwards : award[<<o, i>>].at # "credit"
  /\ award' = [award EXCEPT ![<<o, n>>] =
       IF member[BuyerOf[o]].enrolled /\ EarnedNothing(o)
         THEN [at |-> "credit", lifetime |-> member[BuyerOf[o]].lifetime, tier |-> member[BuyerOf[o]].tier]
         ELSE AwardOver]
  /\ UNCHANGED <<member, pointsHolder, earn, debits, old, cycles, adjusts, expiredBy>>

\* floor(base * pointsPerUnit * tierMultiplier), at the lifetime read.
Points(o, n) == EarnBase[o] * (1 + TierOf(award[<<o, n>>].lifetime))

\* Mutant: the tier counts the points twice.
TierCountedTwice(o, n) == TierOf(member[BuyerOf[o]].lifetime + 2 * Points(o, n))

\* The tier comes from the lifetime points read before, and is written only if
\* it differs from the tier read before.
TierAfter(o, n) ==
  LET tier == TierOf(award[<<o, n>>].lifetime + Points(o, n)) IN
  IF tier = award[<<o, n>>].tier THEN member[BuyerOf[o]].tier ELSE tier

AwardPoints(o, n) ==
  LET m == BuyerOf[o] IN
  /\ award[<<o, n>>].at = "credit" /\ pointsHolder = Nobody
  /\ member' = [member EXCEPT ![m].balance = @ + Points(o, n),
                              ![m].lifetime = @ + Points(o, n),
                              ![m].tier = TierAfter(o, n)]
  /\ earn' = [earn EXCEPT ![o] = Append(@, Points(o, n))]
  /\ award' = [award EXCEPT ![<<o, n>>] = AwardOver]
  /\ UNCHANGED <<pointsHolder, debits, old, cycles, adjusts, expiredBy>>

\* The delivery dies between its reads and its transaction.
AwardLost(o, n) ==
  /\ award[<<o, n>>].at = "credit"
  /\ award' = [award EXCEPT ![<<o, n>>] = AwardOver]
  /\ UNCHANGED <<member, pointsHolder, earn, debits, old, cycles, adjusts, expiredBy>>

\* AdjustPoints by the merchant, one point up or down.
AdjustUp(m) ==
  /\ pointsHolder = Nobody /\ member[m].enrolled /\ adjusts < MaxAdjusts
  /\ adjusts' = adjusts + 1
  /\ member' = [member EXCEPT ![m] = Credited(@, 1)]
  /\ UNCHANGED <<pointsHolder, earn, award, debits, old, cycles, expiredBy>>

\* DebitPoints: the WHERE clause refuses to go below zero; the tier is
\* recomputed from the lifetime points, which stay.
AdjustDown(m) ==
  /\ pointsHolder = Nobody /\ member[m].enrolled /\ adjusts < MaxAdjusts
  /\ member[m].balance >= 1
  /\ adjusts' = adjusts + 1
  /\ member' = [member EXCEPT ![m].balance = @ - 1, ![m].tier = TierOf(member[m].lifetime)]
  /\ debits' = [debits EXCEPT ![m] = @ + 1]
  /\ UNCHANGED <<pointsHolder, earn, award, old, cycles, expiredBy>>

\* The earn of an order passes the cutoff.
Ages(o) ==
  /\ earn[o] # <<>> /\ o \notin old
  /\ old' = old \union {o}
  /\ UNCHANGED <<member, pointsHolder, earn, award, debits, cycles, adjusts, expiredBy>>

\* SelectExpiredTransactions leaves out an earn whose id begins the description
\* of an expire row, which no expire row's description does.
Expirable(m) == {o \in old : BuyerOf[o] = m}

ExpiringPoints(m) ==
  Total([o \in Expirable(m) |-> Total(earn[o], DOMAIN earn[o])], Expirable(m))

\* Mutant: the debit is not refused when points were redeemed meanwhile.
SomethingExpires(m) == ExpiringPoints(m) > 0

\* DebitPoints by the worker: all or nothing.
CanExpire(m) == ExpiringPoints(m) > 0 /\ member[m].balance >= ExpiringPoints(m)

\* One batch of one cycle; a member with too few points left is skipped.
ExpiryCycle ==
  LET due == {m \in Members : CanExpire(m)} IN
  /\ pointsHolder = Nobody /\ old # {} /\ cycles < MaxCycles
  /\ cycles' = cycles + 1
  /\ member' = [m \in Members |->
                  IF m \in due THEN [member[m] EXCEPT !.balance = @ - ExpiringPoints(m)] ELSE member[m]]
  /\ debits' = [m \in Members |-> debits[m] + (IF m \in due THEN ExpiringPoints(m) ELSE 0)]
  /\ expiredBy' = [o \in PaidOrders |->
                     expiredBy[o] + (IF o \in old /\ BuyerOf[o] \in due THEN 1 ELSE 0)]
  /\ UNCHANGED <<pointsHolder, earn, award, old, adjusts>>

LoyaltyEvents ==
  \/ \E m, r \in Members : (r = m \/ member[r].enrolled) /\ Enroll(m, r)
  \/ \E o \in PaidOrders, n \in 1..MaxAwards :
       AwardReads(o, n) \/ AwardPoints(o, n) \/ AwardLost(o, n)
  \/ \E m \in Members : AdjustUp(m) \/ AdjustDown(m)
  \/ \E o \in PaidOrders : Ages(o)
  \/ ExpiryCycle

-----------------------------------------------------------------------------
(* The part a checkout plays; see Checkout. *)

HasPoints(m, points) == member[m].enrolled /\ member[m].balance >= points

RedeemPoints(c, m, points) ==
  /\ pointsHolder = Nobody /\ HasPoints(m, points)
  /\ pointsHolder' = c
  /\ UNCHANGED <<member, earn, award, debits, old, cycles, adjusts, expiredBy>>

PointsRollback(c) ==
  /\ pointsHolder' = IF pointsHolder = c THEN Nobody ELSE pointsHolder
  /\ UNCHANGED <<member, earn, award, debits, old, cycles, adjusts, expiredBy>>

PointsCommit(c, m, points) ==
  IF pointsHolder # c THEN UNCHANGED loyaltyVars
  ELSE /\ member' = [member EXCEPT ![m].balance = @ - points]
       /\ debits' = [debits EXCEPT ![m] = @ + points]
       /\ pointsHolder' = Nobody
       /\ UNCHANGED <<earn, award, old, cycles, adjusts, expiredBy>>

-----------------------------------------------------------------------------
(* Properties *)

LoyaltyTypeOK ==
  /\ \A m \in Members : member[m].balance \in Nat /\ member[m].tier \in {0, 1}
  /\ pointsHolder \in Checkouts \union {Nobody}
  /\ \A d \in Deliveries : award[d].at \in {"waiting", "credit", "done"}
  /\ old \subseteq PaidOrders

\* No point is spent, taken or expired that was not credited before.
PointsExplained ==
  \A m \in Members : member[m].balance = member[m].lifetime - debits[m]

\* No member is in a tier above what was earned, though a delivery decides the
\* tier from what it read before others credited.
TierEarned == \A m \in Members : member[m].tier <= TierOf(member[m].lifetime)

\* Redelivered payment events, one after the other, award an order once.
AwardedOnce == ~Overlapping => \A o \in PaidOrders : Len(earn[o]) <= 1

PointsSafe == PointsExplained /\ TierEarned /\ AwardedOnce

\* What SelectExpiredTransactions says of the rows it returns: they "haven't
\* already been expired", so no points are taken from a member twice.
ExpiredOnce == \A o \in PaidOrders : expiredBy[o] <= 1
=============================================================================
