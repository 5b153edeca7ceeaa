----------------------------- MODULE RefundSplit -----------------------------
(***************************************************************************)
(* How one refund is divided between the payment provider and the gift     *)
(* cards that paid for the order (internal/orderrefund/split.go).          *)
(* Amounts are whole minor units.                                          *)
(***************************************************************************)
EXTENDS Integers

Lesser(a, b) == IF a < b THEN a ELSE b

\* Mutant: sums are not clamped.
Unclamped(v) == v

ClampZero(v) == IF v < 0 THEN 0 ELSE v

\* RefundLedgerState: the five sums a split is derived from.
LedgerState ==
  [charged : Nat, returned : Nat, applied : Nat, cardReturned : Nat, inFlight : Int]

\* The capacity in-flight refunds leave on each side.
GatewayOpen(s) == ClampZero(s.charged - s.returned)
InFlightGateway(s) == Lesser(ClampZero(s.inFlight), GatewayOpen(s))
GatewayAvailable(s) == GatewayOpen(s) - InFlightGateway(s)

CardAvailable(s) ==
  ClampZero(ClampZero(s.applied - s.cardReturned)
              - (ClampZero(s.inFlight) - InFlightGateway(s)))

Remaining(s) == GatewayAvailable(s) + CardAvailable(s)

\* SplitRefund's result, and whether it returns one at all.
Split(s, amount) ==
  LET gateway == Lesser(amount, GatewayAvailable(s))
  IN [gateway |-> gateway, card |-> Lesser(amount - gateway, CardAvailable(s))]

Covers(s, amount) ==
  amount > 0 /\ Split(s, amount).gateway + Split(s, amount).card >= amount

CreditTarget(returnedTotal, charged, applied, already) ==
  ClampZero(Lesser(ClampZero(returnedTotal - charged), ClampZero(applied)) - already)

-----------------------------------------------------------------------------
(* Properties of the split, for one ledger state and one amount.           *)

\* A granted refund is divided without loss and stays within what each side
\* still has (SplitRefund refuses everything else).
SplitExact(s, amount) ==
  Covers(s, amount) =>
    LET split == Split(s, amount)
    IN /\ split.gateway + split.card = amount
       /\ split.gateway \in 0 .. GatewayOpen(s)
       /\ split.card \in 0 .. ClampZero(s.applied - s.cardReturned)

\* "Real money comes back before store credit does."
RealMoneyFirst(s, amount) ==
  Covers(s, amount) /\ Split(s, amount).card > 0 =>
    Split(s, amount).gateway = GatewayAvailable(s)

\* A refund in flight takes the capacity it will take once it has settled:
\* the next refund is divided the same way before and after that
\* (available's gateway-first rule for in-flight refunds).
SettledState(s, amount) ==
  [s EXCEPT !.returned = s.returned + Split(s, amount).gateway,
            !.cardReturned = s.cardReturned + Split(s, amount).card]

InFlightAsSettled(s, first, second) ==
  s.inFlight = 0 /\ Covers(s, first) =>
    LET pending == [s EXCEPT !.inFlight = first]
        settled == SettledState(s, first)
    IN /\ Covers(pending, second) <=> Covers(settled, second)
       /\ Covers(pending, second) => Split(pending, second) = Split(settled, second)

\* Crediting the target and computing it again yields nothing: a replayed
\* finalizer credits a gift card once (GiftCardCreditTarget's promise).
CreditOnce(returnedTotal, charged, applied, already) ==
  LET owed == CreditTarget(returnedTotal, charged, applied, already)
  IN /\ CreditTarget(returnedTotal, charged, applied, already + owed) = 0
     /\ already <= ClampZero(applied) => already + owed <= ClampZero(applied)
=============================================================================
