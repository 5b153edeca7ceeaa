-------------------------- MODULE RefundSaga_proofs --------------------------
(***************************************************************************)
(* Refunds: how an amount is split between the provider and the cards, who *)
(* may settle a row, that a success is final, and that, for an order paid  *)
(* through the provider alone, no more is promised than was captured and   *)
(* what the provider returns is booked, all of it and once.                *)
(***************************************************************************)
EXTENDS RefundSaga, Sums

-----------------------------------------------------------------------------
(* The split of a refund, for every ledger state and every amount.         *)

\* What available() computes is a pair of naturals within each side's balance.
LEMMA AvailableBounds ==
  ASSUME NEW s \in LedgerState
  PROVE  /\ GatewayOpen(s) \in Nat
         /\ InFlightGateway(s) \in 0 .. GatewayOpen(s)
         /\ GatewayAvailable(s) \in 0 .. GatewayOpen(s)
         /\ CardAvailable(s) \in 0 .. ClampZero(s.applied - s.cardReturned)
<1>1. s.charged \in Nat /\ s.returned \in Nat /\ s.applied \in Nat
      /\ s.cardReturned \in Nat /\ s.inFlight \in Int
  BY DEF LedgerState
<1>2. GatewayOpen(s) \in Nat
  BY <1>1 DEF GatewayOpen, ClampZero
<1>3. ClampZero(s.inFlight) \in Nat
  BY <1>1 DEF ClampZero
<1>4. InFlightGateway(s) \in 0 .. GatewayOpen(s)
  BY <1>2, <1>3 DEF InFlightGateway, Lesser
<1>5. GatewayAvailable(s) \in 0 .. GatewayOpen(s)
  BY <1>2, <1>4 DEF GatewayAvailable
<1>6. ClampZero(s.inFlight) - InFlightGateway(s) \in Nat
  BY <1>2, <1>3 DEF InFlightGateway, Lesser
<1>7. ClampZero(s.applied - s.cardReturned) \in Nat
  BY <1>1 DEF ClampZero
<1>8. CardAvailable(s) \in 0 .. ClampZero(s.applied - s.cardReturned)
  <2> DEFINE open == ClampZero(s.applied - s.cardReturned)
             taken == ClampZero(s.inFlight) - InFlightGateway(s)
  <2>1. CardAvailable(s) = ClampZero(open - taken)
    BY DEF CardAvailable
  <2>2. open \in Nat /\ taken \in Nat
    BY <1>6, <1>7
  <2> HIDE DEF open, taken
  <2>3. ClampZero(open - taken) \in 0 .. open
    BY <2>2 DEF ClampZero
  <2> QED
    BY <2>1, <2>3 DEF open
<1> QED
  BY <1>2, <1>4, <1>5, <1>8

\* SplitRefund divides what it grants without loss, and neither slice exceeds
\* what its side still has.
THEOREM GrantedRefundIsExact ==
  ASSUME NEW s \in LedgerState, NEW amount \in Int
  PROVE  SplitExact(s, amount)
<1> DEFINE gw == GatewayAvailable(s)  card == CardAvailable(s)
<1>1. gw \in 0 .. GatewayOpen(s) /\ GatewayOpen(s) \in Nat
      /\ card \in 0 .. ClampZero(s.applied - s.cardReturned)
  BY AvailableBounds
<1>2. ClampZero(s.applied - s.cardReturned) \in Nat
  BY DEF LedgerState, ClampZero
<1>3. /\ Split(s, amount).gateway = Lesser(amount, gw)
      /\ Split(s, amount).card = Lesser(amount - Lesser(amount, gw), card)
  BY DEF Split
<1> HIDE DEF gw, card
<1>4. SUFFICES ASSUME amount > 0,
                      Lesser(amount, gw) + Lesser(amount - Lesser(amount, gw), card) >= amount
               PROVE  /\ Lesser(amount, gw) + Lesser(amount - Lesser(amount, gw), card) = amount
                      /\ Lesser(amount, gw) \in 0 .. GatewayOpen(s)
                      /\ Lesser(amount - Lesser(amount, gw), card)
                           \in 0 .. ClampZero(s.applied - s.cardReturned)
  BY <1>3 DEF SplitExact, Covers
<1> QED
  BY <1>1, <1>2, <1>4 DEF Lesser

\* A refund reaches the gift cards only when the provider's side is exhausted.
THEOREM RealMoneyComesFirst ==
  ASSUME NEW s \in LedgerState, NEW amount \in Int
  PROVE  RealMoneyFirst(s, amount)
<1> DEFINE gw == GatewayAvailable(s)  card == CardAvailable(s)
<1>1. gw \in Nat /\ card \in Nat
  <2>1. ClampZero(s.applied - s.cardReturned) \in Nat
    BY DEF LedgerState, ClampZero
  <2> QED
    BY AvailableBounds, <2>1
<1>2. /\ Split(s, amount).gateway = Lesser(amount, gw)
      /\ Split(s, amount).card = Lesser(amount - Lesser(amount, gw), card)
  BY DEF Split
<1> HIDE DEF gw, card
<1>3. Lesser(amount - Lesser(amount, gw), card) > 0 => Lesser(amount, gw) = gw
  BY <1>1 DEF Lesser
<1> QED
  BY <1>2, <1>3 DEF RealMoneyFirst, gw

\* A refund in flight takes the capacity it will take once settled, so the next
\* refund is granted, and divided, the same way before and after that.
THEOREM FlightTakesWhatItSettles ==
  ASSUME NEW s \in LedgerState, NEW first \in Int, NEW second \in Int
  PROVE  InFlightAsSettled(s, first, second)
<1>1. SUFFICES ASSUME s.inFlight = 0, Covers(s, first)
      PROVE  LET pending == [s EXCEPT !.inFlight = first]
                 after == SettledState(s, first)
             IN /\ Covers(pending, second) <=> Covers(after, second)
                /\ Covers(pending, second) => Split(pending, second) = Split(after, second)
  BY DEF InFlightAsSettled
<1> DEFINE pending == [s EXCEPT !.inFlight = first]
           after == SettledState(s, first)
           g == ClampZero(s.charged - s.returned)
           c == ClampZero(s.applied - s.cardReturned)
<1>2. s.charged \in Nat /\ s.returned \in Nat /\ s.applied \in Nat
      /\ s.cardReturned \in Nat
  BY DEF LedgerState
<1>3. g \in Nat /\ c \in Nat
  BY <1>2 DEF ClampZero
<1>4. GatewayAvailable(s) = g /\ CardAvailable(s) = c
  BY <1>1, <1>3 DEF GatewayAvailable, CardAvailable, GatewayOpen, InFlightGateway,
                    Lesser, ClampZero
<1>5. /\ Split(s, first).gateway = Lesser(first, g)
      /\ Split(s, first).card = Lesser(first - Lesser(first, g), c)
      /\ first > 0
      /\ Lesser(first, g) + Lesser(first - Lesser(first, g), c) >= first
  BY <1>1, <1>4 DEF Split, Covers
<1>6. /\ pending.charged = s.charged /\ pending.returned = s.returned
      /\ pending.applied = s.applied /\ pending.cardReturned = s.cardReturned
      /\ pending.inFlight = first
  BY DEF LedgerState
<1>7. /\ after.charged = s.charged /\ after.applied = s.applied
      /\ after.inFlight = 0
      /\ after.returned = s.returned + Lesser(first, g)
      /\ after.cardReturned = s.cardReturned + Lesser(first - Lesser(first, g), c)
  BY <1>1, <1>5 DEF SettledState, LedgerState
<1>8. /\ GatewayAvailable(pending) = g - Lesser(first, g)
      /\ CardAvailable(pending) = ClampZero(c - (first - Lesser(first, g)))
  BY <1>2, <1>3, <1>5, <1>6
  DEF GatewayAvailable, CardAvailable, GatewayOpen, InFlightGateway, Lesser, ClampZero
<1>9. /\ GatewayAvailable(after) = g - Lesser(first, g)
      /\ CardAvailable(after) = ClampZero(c - (first - Lesser(first, g)))
  BY <1>2, <1>5, <1>7
  DEF GatewayAvailable, CardAvailable, GatewayOpen, InFlightGateway, Lesser, ClampZero
<1> HIDE DEF pending, after, g, c
<1> QED
  BY <1>8, <1>9 DEF Split, Covers, pending, after

\* Crediting what is owed leaves nothing owed, and never more than was applied:
\* a finalizer that runs again credits a card once.
THEOREM CreditConverges ==
  ASSUME NEW returnedTotal \in Int, NEW charged \in Int, NEW applied \in Int,
         NEW already \in Int
  PROVE  CreditOnce(returnedTotal, charged, applied, already)
BY DEF CreditOnce, CreditTarget, ClampZero, Lesser

-----------------------------------------------------------------------------
(* Who settles a refund.                                                   *)

GoodRow(r) ==
  /\ r = [status |-> r.status, amount |-> r.amount, at |-> r.at]
  /\ r.status \in LedgerStatuses

\* The steps at which a saga drives its row.
Driving == {"gateway", "fail", "settle"}

GoodCall(s) ==
  /\ s = [pc |-> s.pc, scope |-> s.scope, gateway |-> s.gateway, target |-> s.target]
  /\ s.pc \in SagaPcs
  /\ s.pc \in Driving => s.scope \in Scopes

GoodRun(s) ==
  /\ s = [pc |-> s.pc, batch |-> s.batch, seen |-> s.seen, cards |-> s.cards,
          gateway |-> s.gateway, target |-> s.target]
  /\ s.batch \subseteq Scopes

\* The shape of the tables; the amounts are sums and need no type here.
Shape ==
  /\ ledger = [k \in Scopes |-> ledger[k]] /\ \A k \in Scopes : GoodRow(ledger[k])
  /\ saga = [g \in Sagas |-> saga[g]] /\ \A g \in Sagas : GoodCall(saga[g])
  /\ sweep = [w \in Sweeps |-> sweep[w]] /\ \A w \in Sweeps : GoodRun(sweep[w])
  /\ settled \in [Scopes -> Nat]
  /\ aged \subseteq Scopes

SettledSucceeded == \A k \in Scopes : settled[k] = 1 => ledger[k].status = "succeeded"

\* A saga drives a row nobody settled and no sweep may claim, and drives it alone.
DrivenAlone ==
  \A g \in Sagas, k \in Scopes : Drives(g, k) =>
    /\ settled[k] = 0 /\ k \notin aged /\ ledger[k].status # "none"
    /\ \A h \in Sagas : Drives(h, k) => h = g

SweptAged ==
  /\ \A w \in Sweeps : sweep[w].batch \subseteq aged
  /\ \A k \in aged : ledger[k].status # "none"

IInv == Shape /\ SettledOnce /\ SettledSucceeded /\ DrivenAlone /\ SweptAged

-----------------------------------------------------------------------------
(* What one EXCEPT does to a record.                                       *)

LEMMA RowStatus ==
  ASSUME NEW r, GoodRow(r), NEW x \in LedgerStatuses
  PROVE  /\ GoodRow([r EXCEPT !.status = x])
         /\ [r EXCEPT !.status = x].status = x
BY DEF GoodRow

LEMMA CallStep ==
  ASSUME NEW s, GoodCall(s), NEW x \in SagaPcs, x \in Driving => s.scope \in Scopes
  PROVE  /\ GoodCall([s EXCEPT !.pc = x])
         /\ [s EXCEPT !.pc = x].pc = x
         /\ [s EXCEPT !.pc = x].scope = s.scope
BY DEF GoodCall

\* One row of the ledger gets another status.
LEMMA LedgerStep ==
  ASSUME Shape, NEW k \in Scopes, NEW x \in LedgerStatuses,
         ledger' = [ledger EXCEPT ![k].status = x]
  PROVE  /\ ledger' = [j \in Scopes |-> ledger'[j]]
         /\ \A j \in Scopes : GoodRow(ledger'[j])
         /\ ledger'[k].status = x
         /\ \A j \in Scopes : j # k => ledger'[j] = ledger[j]
<1> DEFINE row == [ledger[k] EXCEPT !.status = x]
<1>1. GoodRow(row) /\ row.status = x
  BY RowStatus DEF Shape
<1>2. ledger' = [j \in Scopes |-> IF j = k THEN row ELSE ledger[j]]
  BY DEF Shape
<1> HIDE DEF row
<1>3. \A j \in Scopes : ledger'[j] = IF j = k THEN row ELSE ledger[j]
  BY <1>2
<1>4. ledger' = [j \in Scopes |-> ledger'[j]]
  BY <1>2
<1>5. \A j \in Scopes : GoodRow(ledger[j])
  BY DEF Shape
<1>6. \A j \in Scopes : GoodRow(ledger'[j])
  BY <1>1, <1>3, <1>5
<1> QED
  BY <1>1, <1>3, <1>4, <1>6

\* One saga goes on to another step of the same scope.
LEMMA SagaGoes ==
  ASSUME Shape, NEW g \in Sagas, NEW x \in SagaPcs, saga' = [saga EXCEPT ![g].pc = x],
         x \in Driving => saga[g].scope \in Scopes
  PROVE  /\ saga' = [h \in Sagas |-> saga'[h]]
         /\ \A h \in Sagas : GoodCall(saga'[h])
         /\ saga'[g].pc = x /\ saga'[g].scope = saga[g].scope
         /\ \A h \in Sagas : h # g => saga'[h] = saga[h]
<1> DEFINE call == [saga[g] EXCEPT !.pc = x]
<1>1. GoodCall(call) /\ call.pc = x /\ call.scope = saga[g].scope
  BY CallStep DEF Shape
<1>2. saga' = [h \in Sagas |-> IF h = g THEN call ELSE saga[h]]
  BY DEF Shape
<1> HIDE DEF call
<1>3. \A h \in Sagas : saga'[h] = IF h = g THEN call ELSE saga[h]
  BY <1>2
<1>4. saga' = [h \in Sagas |-> saga'[h]]
  BY <1>2
<1>5. \A h \in Sagas : GoodCall(saga[h])
  BY DEF Shape
<1>6. \A h \in Sagas : GoodCall(saga'[h])
  BY <1>1, <1>3, <1>5
<1> QED
  BY <1>1, <1>3, <1>4, <1>6

\* One sweep gets another record.
LEMMA SweepTakes ==
  ASSUME Shape, NEW w \in Sweeps, NEW r, GoodRun(r),
         sweep' = [v \in Sweeps |-> IF v = w THEN r ELSE sweep[v]]
  PROVE  /\ sweep' = [v \in Sweeps |-> sweep'[v]]
         /\ \A v \in Sweeps : GoodRun(sweep'[v])
         /\ sweep'[w] = r
         /\ \A v \in Sweeps : v # w => sweep'[v] = sweep[v]
<1>1. \A v \in Sweeps : sweep'[v] = IF v = w THEN r ELSE sweep[v]
  OBVIOUS
<1>2. sweep' = [v \in Sweeps |-> sweep'[v]]
  OBVIOUS
<1>3. \A v \in Sweeps : GoodRun(sweep[v])
  BY DEF Shape
<1>4. \A v \in Sweeps : GoodRun(sweep'[v])
  BY <1>1, <1>3
<1> QED
  BY <1>1, <1>2, <1>4

\* The sweeps kept their shape and none has taken a new row.
Shrunk ==
  /\ sweep' = [w \in Sweeps |-> sweep'[w]]
  /\ \A w \in Sweeps : GoodRun(sweep'[w]) /\ sweep'[w].batch \subseteq sweep[w].batch

LEMMA SameSweep ==
  ASSUME Shape, sweep' = sweep
  PROVE  Shrunk
BY DEF Shape, Shrunk

LEMMA SweepShrinks ==
  ASSUME Shape, NEW w \in Sweeps, NEW r, GoodRun(r), r.batch \subseteq sweep[w].batch,
         sweep' = [v \in Sweeps |-> IF v = w THEN r ELSE sweep[v]]
  PROVE  Shrunk
<1>1. /\ sweep' = [v \in Sweeps |-> sweep'[v]]
      /\ \A v \in Sweeps : GoodRun(sweep'[v])
      /\ sweep'[w] = r
      /\ \A v \in Sweeps : v # w => sweep'[v] = sweep[v]
  BY SweepTakes
<1> QED
  BY <1>1 DEF Shrunk

LEMMA NoSweepRuns == GoodRun(NoSweep) /\ NoSweep.batch = {}
BY DEF GoodRun, NoSweep, Run

LEMMA RunStep ==
  ASSUME NEW r, GoodRun(r), NEW x
  PROVE  GoodRun([r EXCEPT !.pc = x]) /\ [r EXCEPT !.pc = x].batch = r.batch
BY DEF GoodRun

LEMMA GoToShrinks ==
  ASSUME Shape, NEW w \in Sweeps, NEW x, GoTo(w, x)
  PROVE  Shrunk
<1> DEFINE r == [sweep[w] EXCEPT !.pc = x]
<1>1. GoodRun(sweep[w])
  BY DEF Shape
<1>2. GoodRun(r) /\ r.batch = sweep[w].batch
  BY <1>1, RunStep
<1>3. sweep' = [v \in Sweeps |-> IF v = w THEN r ELSE sweep[v]]
  BY DEF GoTo, Shape
<1> HIDE DEF r
<1> QED
  BY <1>2, <1>3, SweepShrinks

LEMMA NextRowShrinks ==
  ASSUME Shape, NEW w \in Sweeps, NEW k \in Scopes, NextRow(w, k)
  PROVE  Shrunk
<1> DEFINE rest == sweep[w].batch \ {k}
           r == IF rest = {} THEN NoSweep
                ELSE Run("load", rest, 0, 0, 0, "paid")
<1>1. sweep[w].batch \subseteq Scopes
  BY DEF Shape, GoodRun
<1>2. GoodRun(r) /\ r.batch \subseteq sweep[w].batch
  BY <1>1 DEF GoodRun, NoSweep, Run
<1>3. sweep' = [v \in Sweeps |-> IF v = w THEN r ELSE sweep[v]]
  BY DEF NextRow, Shape
<1> HIDE DEF r, rest
<1> QED
  BY <1>2, <1>3, SweepShrinks

-----------------------------------------------------------------------------
(* Steps that settle nothing, start nothing and age nothing.               *)

\* The ledger keeps its shape, its rows exist as before, success is final.
Tame ==
  /\ ledger' = [k \in Scopes |-> ledger'[k]]
  /\ \A k \in Scopes :
       /\ GoodRow(ledger'[k])
       /\ ledger[k].status = "none" <=> ledger'[k].status = "none"
       /\ ledger[k].status = "succeeded" => ledger'[k].status = "succeeded"

\* The sagas keep their shape and none drives a row it did not drive before.
Calm ==
  /\ saga' = [g \in Sagas |-> saga'[g]]
  /\ \A g \in Sagas : GoodCall(saga'[g])
  /\ \A g \in Sagas, k \in Scopes : Drives(g, k)' => Drives(g, k)

LEMMA QuietStep ==
  ASSUME IInv, Tame, Calm, Shrunk, settled' = settled, aged' = aged
  PROVE  IInv'
<1>1. Shape'
  BY DEF IInv, Shape, Tame, Calm, Shrunk
<1>2. SettledOnce'
  BY DEF IInv, SettledOnce
<1>3. SettledSucceeded'
  BY DEF IInv, SettledSucceeded, Tame
<1>4. DrivenAlone'
  <2> SUFFICES ASSUME NEW g \in Sagas, NEW k \in Scopes, Drives(g, k)'
               PROVE  /\ settled[k] = 0 /\ k \notin aged /\ ledger'[k].status # "none"
                      /\ \A h \in Sagas : Drives(h, k)' => h = g
    BY DEF DrivenAlone
  <2>1. Drives(g, k) /\ \A h \in Sagas : Drives(h, k)' => Drives(h, k)
    BY DEF Calm
  <2> QED
    BY <2>1 DEF IInv, DrivenAlone, Tame
<1>5. SweptAged'
  BY DEF IInv, SweptAged, Shape, Shrunk, Tame
<1> QED
  BY <1>1, <1>2, <1>3, <1>4, <1>5 DEF IInv

LEMMA SameLedger ==
  ASSUME Shape, ledger' = ledger
  PROVE  Tame
BY DEF Shape, Tame

LEMMA SameSagas ==
  ASSUME Shape, saga' = saga
  PROVE  Calm
BY DEF Shape, Calm, Drives

\* A saga that goes on from a row it drives, or stops, drives nothing new.
LEMMA GoIsCalm ==
  ASSUME Shape, NEW g \in Sagas, NEW x \in SagaPcs, Go(g, x),
         \/ saga[g].pc \in Driving
         \/ x \in {"done", "cancel", "conflict"}
  PROVE  Calm
<1>1. /\ saga' = [h \in Sagas |-> saga'[h]]
      /\ \A h \in Sagas : GoodCall(saga'[h])
      /\ saga'[g].pc = x /\ saga'[g].scope = saga[g].scope
      /\ \A h \in Sagas : h # g => saga'[h] = saga[h]
  <2>1. x \in Driving => saga[g].scope \in Scopes
    BY DEF Shape, GoodCall, Driving
  <2> QED
    BY <2>1, SagaGoes DEF Go
<1>2. saga[g].pc \in Driving \/ x \notin Driving
  BY DEF Driving
<1> QED
  BY <1>1, <1>2 DEF Calm, Drives, Driving

\* MarkRefundFailed touches a pending row only.
LEMMA MarkFailedIsTame ==
  ASSUME Shape, NEW k \in Scopes, MarkFailed(k)
  PROVE  Tame
<1>1. CASE ledger[k].status = "pending"
  <2>1. ledger' = [ledger EXCEPT ![k].status = "failed"]
    BY <1>1 DEF MarkFailed
  <2>2. "failed" \in LedgerStatuses
    BY DEF LedgerStatuses
  <2> QED
    BY <1>1, <2>1, <2>2, LedgerStep DEF Tame
<1>2. CASE ledger[k].status # "pending"
  BY <1>2, SameLedger DEF MarkFailed
<1> QED
  BY <1>1, <1>2

-----------------------------------------------------------------------------
(* The saga's steps.                                                       *)

\* One saga gets another record.
LEMMA SagaTakes ==
  ASSUME Shape, NEW g \in Sagas, NEW r, GoodCall(r), saga' = [saga EXCEPT ![g] = r]
  PROVE  /\ saga' = [h \in Sagas |-> saga'[h]]
         /\ \A h \in Sagas : GoodCall(saga'[h])
         /\ saga'[g] = r
         /\ \A h \in Sagas : h # g => saga'[h] = saga[h]
<1>1. saga' = [h \in Sagas |-> IF h = g THEN r ELSE saga[h]]
  BY DEF Shape
<1>2. \A h \in Sagas : saga'[h] = IF h = g THEN r ELSE saga[h]
  BY <1>1
<1>3. saga' = [h \in Sagas |-> saga'[h]]
  BY <1>1
<1>4. \A h \in Sagas : GoodCall(saga[h])
  BY DEF Shape
<1>5. \A h \in Sagas : GoodCall(saga'[h])
  BY <1>2, <1>4
<1> QED
  BY <1>2, <1>3, <1>5

\* A call that ends in tx #1 drives nothing.
LEMMA EndedCallIsCalm ==
  ASSUME Shape, NEW g \in Sagas, NEW k \in Scopes, NEW x \in {"done", "conflict"},
         saga' = [saga EXCEPT ![g] = Call(x, k, 0, "paid")]
  PROVE  Calm
<1> DEFINE r == Call(x, k, 0, "paid")
<1>1. GoodCall(r) /\ r.pc \notin Driving
  BY DEF GoodCall, SagaPcs, Driving, Call
<1>2. saga' = [saga EXCEPT ![g] = r]
  OBVIOUS
<1> HIDE DEF r
<1>3. /\ saga' = [h \in Sagas |-> saga'[h]]
      /\ \A h \in Sagas : GoodCall(saga'[h])
      /\ saga'[g] = r
      /\ \A h \in Sagas : h # g => saga'[h] = saga[h]
  BY <1>1, <1>2, SagaTakes
<1> QED
  BY <1>1, <1>3 DEF Calm, Drives, Driving

\* What the quiet steps of a saga leave alone.
LEMMA SagaQuiet ==
  ASSUME IInv, NEW g \in Sagas, NEW x \in SagaPcs, Go(g, x),
         saga[g].pc \in Driving \/ x \in {"done", "cancel", "conflict"},
         ledger' = ledger, settled' = settled, aged' = aged, sweep' = sweep
  PROVE  IInv'
<1>1. Tame /\ Shrunk
  BY SameLedger, SameSweep DEF IInv
<1>2. Calm
  BY GoIsCalm DEF IInv
<1> QED
  BY <1>1, <1>2, QuietStep

LEMMA ReplayStep ==
  ASSUME IInv, NEW g \in Sagas, NEW k \in Scopes, SagaReplay(g, k) \/ SagaRefused(g, k)
  PROVE  IInv'
<1>1. /\ ledger' = ledger /\ settled' = settled /\ aged' = aged /\ sweep' = sweep
  BY DEF SagaReplay, SagaRefused, refundTables, outside
<1>2. PICK x \in {"done", "conflict"} :
        saga' = [saga EXCEPT ![g] = Call(x, k, 0, "paid")]
  BY DEF SagaReplay, SagaRefused
<1>3. Calm
  BY <1>2, EndedCallIsCalm DEF IInv
<1> QED
  BY <1>1, <1>3, SameLedger, SameSweep, QuietStep DEF IInv

\* tx #1: the row is new, so nobody drives it, nobody swept or settled it.
LEMMA ReserveStep ==
  ASSUME IInv, NEW g \in Sagas, NEW k \in Scopes, SagaReserve(g, k)
  PROVE  IInv'
<1> DEFINE gateway == Split(StateAtReserve, AmountFor(k)).gateway
           call == Call(IF gateway > 0 THEN "gateway" ELSE "settle", k, gateway,
                        DeriveStatus(order.refunded, gateway))
           row == [status |-> "pending", amount |-> AmountFor(k),
                   at |-> Cardinality(Scopes \ RowsIn("none")) + 1]
<1>1. /\ saga' = [saga EXCEPT ![g] = call] /\ ledger' = [ledger EXCEPT ![k] = row]
      /\ ledger[k].status = "none" /\ saga[g].pc = "idle"
      /\ settled' = settled /\ aged' = aged /\ sweep' = sweep
  BY DEF SagaReserve
<1>2. GoodCall(call) /\ call.pc \in Driving /\ call.scope = k
  BY DEF GoodCall, SagaPcs, Driving, Call
<1>3. GoodRow(row) /\ row.status = "pending"
  BY DEF GoodRow, LedgerStatuses
<1>4. ledger' = [j \in Scopes |-> IF j = k THEN row ELSE ledger[j]]
  BY <1>1 DEF IInv, Shape
<1> HIDE DEF call, row
<1>5. /\ saga' = [h \in Sagas |-> saga'[h]]
      /\ \A h \in Sagas : GoodCall(saga'[h])
      /\ saga'[g] = call
      /\ \A h \in Sagas : h # g => saga'[h] = saga[h]
  BY <1>1, <1>2, SagaTakes DEF IInv
<1>6. \A j \in Scopes : ledger'[j] = IF j = k THEN row ELSE ledger[j]
  BY <1>4
<1>7. ledger' = [j \in Scopes |-> ledger'[j]] /\ \A j \in Scopes : GoodRow(ledger'[j])
  BY <1>3, <1>4, <1>6 DEF IInv, Shape
<1>8. Shape'
  BY <1>1, <1>5, <1>7 DEF IInv, Shape
<1>9. settled[k] = 0
  BY <1>1 DEF IInv, Shape, SettledOnce, SettledSucceeded
<1>10. SettledOnce'
  BY <1>1 DEF IInv, SettledOnce
<1>11. SettledSucceeded'
  BY <1>1, <1>6, <1>9 DEF IInv, SettledSucceeded
<1>12. k \notin aged /\ \A h \in Sagas : ~Drives(h, k)
  BY <1>1 DEF IInv, SweptAged, DrivenAlone
<1>13. \A h \in Sagas, j \in Scopes : Drives(h, j)' => (h = g /\ j = k) \/ (h # g /\ Drives(h, j))
  BY <1>2, <1>5 DEF Drives
<1>14. DrivenAlone'
  <2> SUFFICES ASSUME NEW h \in Sagas, NEW j \in Scopes, Drives(h, j)'
               PROVE  /\ settled[j] = 0 /\ j \notin aged /\ ledger'[j].status # "none"
                      /\ \A i \in Sagas : Drives(i, j)' => i = h
    BY <1>1 DEF DrivenAlone
  <2>1. CASE h = g /\ j = k
    BY <2>1, <1>3, <1>6, <1>9, <1>12, <1>13
  <2>2. CASE h # g /\ Drives(h, j)
    <3>1. j # k
      BY <2>2, <1>12
    <3> QED
      BY <2>2, <3>1, <1>6, <1>13 DEF IInv, DrivenAlone
  <2> QED
    BY <2>1, <2>2, <1>13
<1>15. SweptAged'
  BY <1>1, <1>6, <1>12 DEF IInv, Shape, SweptAged
<1> QED
  BY <1>8, <1>10, <1>11, <1>14, <1>15 DEF IInv

\* tx #2: nobody else may settle the row, and from now on nobody drives it.
LEMMA SettleStep ==
  ASSUME IInv, NEW g \in Sagas, SagaSettle(g)
  PROVE  IInv'
<1> DEFINE k == saga[g].scope
           to == IF saga[g].target = "refunded" THEN "cancel" ELSE "done"
<1>1. /\ saga[g].pc = "settle" /\ Go(g, to)
      /\ ledger' = [ledger EXCEPT ![k].status = "succeeded"]
      /\ settled' = [settled EXCEPT ![k] = @ + 1]
      /\ aged' = aged /\ sweep' = sweep
  BY DEF SagaSettle, Settle, outside
<1>2. k \in Scopes /\ to \in SagaPcs /\ to \notin Driving
  BY <1>1 DEF IInv, Shape, GoodCall, SagaPcs, Driving
<1>3. Drives(g, k)
  BY <1>1, <1>2 DEF Drives
<1> HIDE DEF k, to
<1>4. /\ settled[k] = 0 /\ k \notin aged
      /\ \A h \in Sagas : Drives(h, k) => h = g
  BY <1>2, <1>3 DEF IInv, DrivenAlone
<1>5. "succeeded" \in LedgerStatuses
  BY DEF LedgerStatuses
<1>6. /\ ledger' = [j \in Scopes |-> ledger'[j]]
      /\ \A j \in Scopes : GoodRow(ledger'[j])
      /\ ledger'[k].status = "succeeded"
      /\ \A j \in Scopes : j # k => ledger'[j] = ledger[j]
  BY <1>1, <1>2, <1>5, LedgerStep DEF IInv
<1>7. /\ saga' = [h \in Sagas |-> saga'[h]]
      /\ \A h \in Sagas : GoodCall(saga'[h])
      /\ saga'[g].pc = to /\ saga'[g].scope = saga[g].scope
      /\ \A h \in Sagas : h # g => saga'[h] = saga[h]
  BY <1>1, <1>2, SagaGoes DEF IInv, Go
<1>8. /\ settled' \in [Scopes -> Nat] /\ settled'[k] = 1
      /\ \A j \in Scopes : j # k => settled'[j] = settled[j]
  BY <1>1, <1>2, <1>4 DEF IInv, Shape
<1>9. Shape'
  BY <1>1, <1>6, <1>7, <1>8 DEF IInv, Shape
<1>10. SettledOnce'
  BY <1>8 DEF IInv, SettledOnce
<1>11. SettledSucceeded'
  BY <1>6, <1>8 DEF IInv, SettledSucceeded
<1>12. \A h \in Sagas, j \in Scopes : Drives(h, j)' => h # g /\ Drives(h, j)
  BY <1>2, <1>7 DEF Drives, Driving
<1>13. DrivenAlone'
  <2> SUFFICES ASSUME NEW h \in Sagas, NEW j \in Scopes, Drives(h, j)'
               PROVE  /\ settled'[j] = 0 /\ j \notin aged /\ ledger'[j].status # "none"
                      /\ \A i \in Sagas : Drives(i, j)' => i = h
    BY <1>1 DEF DrivenAlone
  <2>1. h # g /\ Drives(h, j) /\ j # k
    BY <1>4, <1>12
  <2> QED
    BY <2>1, <1>6, <1>8, <1>12 DEF IInv, DrivenAlone
<1>14. SweptAged'
  BY <1>1, <1>6 DEF IInv, Shape, SweptAged
<1> QED
  BY <1>9, <1>10, <1>11, <1>13, <1>14 DEF IInv

LEMMA SagaStepKeeps ==
  ASSUME IInv, NEW g \in Sagas, SagaStep(g)
  PROVE  IInv'
<1>1. CASE SagaGatewayAccepts(g)
  BY <1>1, SagaQuiet DEF SagaGatewayAccepts, SagaPcs, Driving, refundTables
<1>2. CASE SagaGatewayRefuses(g)
  BY <1>2, SagaQuiet DEF SagaGatewayRefuses, SagaPcs, Driving, refundTables, outside
<1>3. CASE SagaGatewayLost(g)
  BY <1>3, SagaQuiet DEF SagaGatewayLost, SagaPcs, Driving, refundTables
<1>4. CASE SagaMarkFailed(g)
  <2> DEFINE k == saga[g].scope
  <2>1. /\ saga[g].pc = "fail" /\ Go(g, "done") /\ MarkFailed(k)
        /\ settled' = settled /\ aged' = aged /\ sweep' = sweep
    BY <1>4 DEF SagaMarkFailed, MarkFailed, outside
  <2>2. k \in Scopes
    BY <2>1 DEF IInv, Shape, GoodCall, Driving
  <2>3. Tame
    BY <2>1, <2>2, MarkFailedIsTame DEF IInv
  <2>4. Calm
    BY <2>1, GoIsCalm DEF IInv, SagaPcs, Driving
  <2> QED
    BY <2>1, <2>3, <2>4, SameSweep, QuietStep DEF IInv
<1>5. CASE SagaSettle(g)
  BY <1>5, SettleStep
<1>6. CASE SagaSettleFails(g)
  BY <1>6, SagaQuiet DEF SagaSettleFails, SagaPcs, Driving, refundTables, outside
<1>7. CASE SagaCancelShipments(g)
  BY <1>7, SagaQuiet DEF SagaCancelShipments, SagaPcs, refundTables
<1>8. CASE SagaCrash(g)
  BY <1>8, SagaQuiet DEF SagaCrash, SagaPcs, refundTables, outside
<1> QED
  BY <1>1, <1>2, <1>3, <1>4, <1>5, <1>6, <1>7, <1>8 DEF SagaStep

-----------------------------------------------------------------------------
(* The sweep's steps.                                                      *)

\* What the quiet steps of a sweep leave alone.
LEMMA SweepQuiet ==
  ASSUME IInv, Shrunk, ledger' = ledger, settled' = settled, aged' = aged, saga' = saga
  PROVE  IInv'
BY SameLedger, SameSagas, QuietStep DEF IInv

\* The steps that keep the batch and read something for the row's turn.
LEMMA ReadShrinks ==
  ASSUME Shape, NEW w \in Sweeps, NEW x, NEW a, NEW b, NEW c, NEW d,
         sweep' = [sweep EXCEPT ![w] = Run(x, sweep[w].batch, a, b, c, d)]
  PROVE  Shrunk
<1> DEFINE r == Run(x, sweep[w].batch, a, b, c, d)
<1>1. sweep[w].batch \subseteq Scopes
  BY DEF Shape, GoodRun
<1>2. GoodRun(r) /\ r.batch \subseteq sweep[w].batch
  BY <1>1 DEF GoodRun, Run
<1>3. sweep' = [v \in Sweeps |-> IF v = w THEN r ELSE sweep[v]]
  BY DEF Shape
<1> HIDE DEF r
<1> QED
  BY <1>2, <1>3, SweepShrinks

\* A claim takes aged rows only.
LEMMA ClaimStep ==
  ASSUME IInv, NEW w \in Sweeps, SweepClaim(w)
  PROVE  IInv'
<1> DEFINE r == Run("load", Resumable, 0, 0, 0, "paid")
<1>1. /\ sweep' = [v \in Sweeps |-> IF v = w THEN r ELSE sweep[v]]
      /\ ledger' = ledger /\ settled' = settled /\ aged' = aged /\ saga' = saga
  BY DEF SweepClaim, refundTables, outside, IInv, Shape
<1>2. GoodRun(r) /\ r.batch \subseteq aged
  BY DEF GoodRun, Run, Resumable, IInv, Shape
<1> HIDE DEF r
<1>3. /\ sweep' = [v \in Sweeps |-> sweep'[v]]
      /\ \A v \in Sweeps : GoodRun(sweep'[v])
      /\ sweep'[w] = r
      /\ \A v \in Sweeps : v # w => sweep'[v] = sweep[v]
  BY <1>1, <1>2, SweepTakes DEF IInv
<1>4. Shape'
  BY <1>1, <1>3 DEF IInv, Shape
<1>5. SweptAged'
  BY <1>1, <1>2, <1>3 DEF IInv, SweptAged
<1>6. SettledOnce' /\ SettledSucceeded' /\ DrivenAlone'
  BY <1>1 DEF IInv, SettledOnce, SettledSucceeded, DrivenAlone, Drives
<1> QED
  BY <1>4, <1>5, <1>6 DEF IInv

\* A sweep settles a row that is still pending, hence one nobody has settled.
LEMMA SweepSettleStep ==
  ASSUME IInv, NEW w \in Sweeps, NEW k \in Scopes, SweepSettle(w, k)
  PROVE  IInv'
<1>1. saga' = saga /\ aged' = aged /\ Shrunk
  BY NextRowShrinks DEF SweepSettle, outside, IInv
<1>2. CASE UNCHANGED refundTables
  BY <1>1, <1>2, SweepQuiet DEF refundTables
<1>3. CASE ledger[k].status = "pending" /\ Settle(k, sweep[w].gateway, sweep[w].target)
  <2>1. /\ ledger' = [ledger EXCEPT ![k].status = "succeeded"]
        /\ settled' = [settled EXCEPT ![k] = @ + 1]
    BY <1>3 DEF Settle
  <2>2. "succeeded" \in LedgerStatuses
    BY DEF LedgerStatuses
  <2>3. /\ ledger' = [j \in Scopes |-> ledger'[j]]
        /\ \A j \in Scopes : GoodRow(ledger'[j])
        /\ ledger'[k].status = "succeeded"
        /\ \A j \in Scopes : j # k => ledger'[j] = ledger[j]
    BY <2>1, <2>2, LedgerStep DEF IInv
  <2>4. settled[k] = 0
    BY <1>3 DEF IInv, Shape, SettledOnce, SettledSucceeded
  <2>5. /\ settled' \in [Scopes -> Nat] /\ settled'[k] = 1
        /\ \A j \in Scopes : j # k => settled'[j] = settled[j]
    BY <2>1, <2>4 DEF IInv, Shape
  <2>6. k \in aged
    BY DEF SweepSettle, Turn, IInv, SweptAged
  <2>7. Shape'
    BY <1>1, <2>3, <2>5 DEF IInv, Shape, Shrunk
  <2>8. SettledOnce' /\ SettledSucceeded'
    BY <2>3, <2>5 DEF IInv, SettledOnce, SettledSucceeded
  <2>9. DrivenAlone'
    <3> SUFFICES ASSUME NEW h \in Sagas, NEW j \in Scopes, Drives(h, j)'
                 PROVE  /\ settled'[j] = 0 /\ j \notin aged /\ ledger'[j].status # "none"
                        /\ \A i \in Sagas : Drives(i, j)' => i = h
      BY <1>1 DEF DrivenAlone
    <3>1. \A i \in Sagas : Drives(i, j)' <=> Drives(i, j)
      BY <1>1 DEF Drives
    <3>2. j # k
      BY <3>1, <2>6 DEF IInv, DrivenAlone
    <3> QED
      BY <3>1, <3>2, <2>3, <2>5 DEF IInv, DrivenAlone
  <2>10. SweptAged'
    BY <1>1, <2>3 DEF IInv, Shape, SweptAged, Shrunk
  <2> QED
    BY <2>7, <2>8, <2>9, <2>10 DEF IInv
<1> QED
  BY <1>2, <1>3 DEF SweepSettle

LEMMA SweepStepKeeps ==
  ASSUME IInv, NEW w \in Sweeps, NEW k \in Scopes, SweepStep(w, k)
  PROVE  IInv'
<1>1. CASE SweepLoadOrder(w, k)
  <2>1. Shrunk
    BY <1>1, ReadShrinks DEF SweepLoadOrder, Resuming, IInv
  <2> QED
    BY <1>1, <2>1, SweepQuiet DEF SweepLoadOrder, refundTables, outside
<1>2. CASE SweepReadCards(w, k)
  <2>1. Shrunk
    BY <1>2, ReadShrinks DEF SweepReadCards, Resuming, IInv
  <2> QED
    BY <1>2, <2>1, SweepQuiet DEF SweepReadCards, refundTables, outside
<1>3. CASE SweepSplit(w, k)
  <2>1. Shrunk
    BY <1>3, ReadShrinks DEF SweepSplit, IInv
  <2> QED
    BY <1>3, <2>1, SweepQuiet DEF SweepSplit, refundTables, outside
<1>4. CASE SweepSkip(w, k)
  BY <1>4, NextRowShrinks, SweepQuiet DEF SweepSkip, refundTables, outside, IInv
<1>5. CASE SweepGatewayAccepts(w, k)
  BY <1>5, GoToShrinks, SweepQuiet DEF SweepGatewayAccepts, refundTables, IInv
<1>6. CASE SweepGatewayRefuses(w, k)
  BY <1>6, GoToShrinks, SweepQuiet DEF SweepGatewayRefuses, refundTables, outside, IInv
<1>7. CASE SweepGatewayLost(w, k)
  BY <1>7, NextRowShrinks, SweepQuiet DEF SweepGatewayLost, refundTables, IInv
<1>8. CASE SweepMarkFailed(w, k)
  <2>1. /\ Tame /\ Shrunk /\ Calm /\ settled' = settled /\ aged' = aged
    BY <1>8, MarkFailedIsTame, NextRowShrinks, SameSagas
       DEF SweepMarkFailed, MarkFailed, outside, IInv
  <2> QED
    BY <2>1, QuietStep
<1>9. CASE SweepSettle(w, k)
  BY <1>9, SweepSettleStep
<1> QED
  BY <1>1, <1>2, <1>3, <1>4, <1>5, <1>6, <1>7, <1>8, <1>9 DEF SweepStep

LEMMA SweepCrashStep ==
  ASSUME IInv, NEW w \in Sweeps, SweepCrash(w)
  PROVE  IInv'
<1>1. sweep' = [v \in Sweeps |-> IF v = w THEN NoSweep ELSE sweep[v]]
  BY DEF SweepCrash, IInv, Shape
<1>2. Shrunk
  BY <1>1, NoSweepRuns, SweepShrinks DEF IInv
<1> QED
  BY <1>2, SweepQuiet DEF SweepCrash, refundTables, outside

-----------------------------------------------------------------------------
(* The environment's steps.                                                *)

\* A row ages only when no saga drives it: the one place ~LateSettle is used.
LEMMA AgeStep ==
  ASSUME ~LateSettle \/ ~raced', IInv, NEW k \in Scopes, Age(k)
  PROVE  IInv'
<1>1. /\ ledger[k].status = "pending" /\ aged' = aged \union {k}
      /\ \A g \in Sagas : ~Drives(g, k)
      /\ ledger' = ledger /\ settled' = settled /\ saga' = saga /\ sweep' = sweep
  BY DEF Age, refundTables
<1>2. Shape'
  BY <1>1 DEF IInv, Shape
<1>3. SettledOnce' /\ SettledSucceeded'
  BY <1>1 DEF IInv, SettledOnce, SettledSucceeded
<1>4. DrivenAlone'
  BY <1>1 DEF IInv, DrivenAlone, Drives
<1>5. SweptAged'
  BY <1>1 DEF IInv, SweptAged
<1> QED
  BY <1>2, <1>3, <1>4, <1>5 DEF IInv

\* The provider's event makes every row of the order a success.
LEMMA EventStep ==
  ASSUME IInv, NEW k \in Scopes, RefundEvent(k)
  PROVE  IInv'
<1>1. /\ ledger' = [r \in Scopes |-> IF ledger[r].status = "none" THEN ledger[r]
                                     ELSE [ledger[r] EXCEPT !.status = "succeeded"]]
      /\ settled' = settled /\ aged' = aged /\ saga' = saga /\ sweep' = sweep
  BY DEF RefundEvent
<1>2. \A r \in Scopes :
        ledger'[r] = IF ledger[r].status = "none" THEN ledger[r]
                     ELSE [ledger[r] EXCEPT !.status = "succeeded"]
  BY <1>1
<1>3. ledger' = [r \in Scopes |-> ledger'[r]]
  BY <1>1
<1>4. ASSUME NEW r \in Scopes
      PROVE  /\ GoodRow(ledger'[r])
             /\ ledger[r].status = "none" <=> ledger'[r].status = "none"
             /\ ledger[r].status = "succeeded" => ledger'[r].status = "succeeded"
  <2>1. GoodRow(ledger[r]) /\ "succeeded" \in LedgerStatuses
    BY DEF IInv, Shape, LedgerStatuses
  <2>2. /\ GoodRow([ledger[r] EXCEPT !.status = "succeeded"])
        /\ [ledger[r] EXCEPT !.status = "succeeded"].status = "succeeded"
    BY <2>1, RowStatus
  <2> QED
    BY <1>2, <2>1, <2>2
<1>5. Tame
  BY <1>3, <1>4 DEF Tame
<1> QED
  BY <1>1, <1>5, SameSagas, SameSweep, QuietStep DEF IInv

-----------------------------------------------------------------------------
(* The theorems.                                                           *)

LEMMA StartsWell ==
  ASSUME RefundInit
  PROVE  IInv
<1>1. Shape
  BY DEF RefundInit, Shape, GoodRow, GoodCall, GoodRun, NoSaga, NoSweep, Call, Run,
         LedgerStatuses, SagaPcs, Driving
<1>2. SettledOnce /\ SettledSucceeded
  BY DEF RefundInit, SettledOnce, SettledSucceeded
<1>3. DrivenAlone
  BY DEF RefundInit, DrivenAlone, Drives, NoSaga, Call
<1>4. SweptAged
  BY DEF RefundInit, SweptAged, NoSweep, Run
<1> QED
  BY <1>1, <1>2, <1>3, <1>4 DEF IInv

LEMMA StepKeeps ==
  ASSUME ~LateSettle \/ ~raced', IInv, [RefundNext]_refundVars
  PROVE  IInv'
<1>1. CASE UNCHANGED refundVars
  <2>1. ledger' = ledger /\ settled' = settled /\ aged' = aged /\ saga' = saga /\ sweep' = sweep
    BY <1>1 DEF refundVars, refundTables, outside
  <2> QED
    BY <2>1, SameSweep, SweepQuiet DEF IInv
<1>2. ASSUME NEW g \in Sagas, NEW k \in Scopes,
             SagaReplay(g, k) \/ SagaRefused(g, k) \/ SagaReserve(g, k)
      PROVE  IInv'
  BY <1>2, ReplayStep, ReserveStep
<1>3. ASSUME NEW g \in Sagas, SagaStep(g)
      PROVE  IInv'
  BY <1>3, SagaStepKeeps
<1>4. ASSUME NEW w \in Sweeps, SweepClaim(w) \/ SweepCrash(w)
      PROVE  IInv'
  BY <1>4, ClaimStep, SweepCrashStep
<1>5. ASSUME NEW w \in Sweeps, NEW k \in Scopes, SweepStep(w, k)
      PROVE  IInv'
  BY <1>5, SweepStepKeeps
<1>6. ASSUME NEW k \in Scopes, Age(k) \/ RefundEvent(k)
      PROVE  IInv'
  BY <1>6, AgeStep, EventStep
<1>7. ASSUME NEW c \in Cards, VoidCard(c)
      PROVE  IInv'
  <2>1. ledger' = ledger /\ settled' = settled /\ aged' = aged /\ saga' = saga /\ sweep' = sweep
    BY <1>7 DEF VoidCard, outside
  <2> QED
    BY <2>1, SameSweep, SweepQuiet DEF IInv
<1> QED
  BY <1>1, <1>2, <1>3, <1>4, <1>5, <1>6, <1>7 DEF RefundNext

\* For any number of scopes, sagas and overlapping sweeps, through crashes,
\* lost answers, refusals and provider events: one refund is settled by one
\* transaction (tx #2 of Refund, or the finalizing UPDATE of ResumePending),
\* provided no saga is still running when its row turns five minutes old.
THEOREM RefundsSettleOnce ==
  ASSUME ~LateSettle
  PROVE  RefundSpec => []SettledOnce
<1>1. RefundInit => IInv
  BY StartsWell
<1>2. IInv /\ [RefundNext]_refundVars => IInv'
  BY StepKeeps
<1>3. IInv => SettledOnce
  BY DEF IInv
<1> QED
  BY <1>1, <1>2, <1>3, PTL DEF RefundSpec

-----------------------------------------------------------------------------
(* What has succeeded stays as it is.  This needs the shape of the ledger  *)
(* alone, and holds for sagas of any length.                               *)

Rows ==
  /\ ledger = [k \in Scopes |-> ledger[k]]
  /\ \A k \in Scopes : GoodRow(ledger[k])

KeepsSuccess == \A k \in RowsIn("succeeded") : ledger'[k] = ledger[k]

LEMMA SameStatus ==
  ASSUME NEW r, GoodRow(r), r.status = "succeeded"
  PROVE  [r EXCEPT !.status = "succeeded"] = r
<1>1. r = [status |-> "succeeded", amount |-> r.amount, at |-> r.at]
  BY DEF GoodRow
<1>2. [[status |-> "succeeded", amount |-> r.amount, at |-> r.at] EXCEPT !.status = "succeeded"]
        = [status |-> "succeeded", amount |-> r.amount, at |-> r.at]
  OBVIOUS
<1> QED
  BY <1>1, <1>2

LEMMA StatusStep ==
  ASSUME Rows, NEW k, NEW x \in LedgerStatuses,
         ledger' = [ledger EXCEPT ![k].status = x],
         x = "succeeded" \/ ledger[k].status # "succeeded"
  PROVE  Rows' /\ KeepsSuccess
<1>1. CASE k \notin Scopes
  <2>1. ledger' = ledger
    BY <1>1 DEF Rows
  <2> QED
    BY <2>1 DEF Rows, KeepsSuccess
<1>2. CASE k \in Scopes
  <2> DEFINE row == [ledger[k] EXCEPT !.status = x]
  <2>1. GoodRow(ledger[k])
    BY <1>2 DEF Rows
  <2>2. GoodRow(row)
    BY <2>1, RowStatus
  <2>3. ledger[k].status = "succeeded" => row = ledger[k]
    BY <2>1, SameStatus
  <2>4. ledger' = [j \in Scopes |-> IF j = k THEN row ELSE ledger[j]]
    BY DEF Rows
  <2> HIDE DEF row
  <2>5. \A j \in Scopes : ledger'[j] = IF j = k THEN row ELSE ledger[j]
    BY <2>4
  <2>6. ledger' = [j \in Scopes |-> ledger'[j]]
    BY <2>4
  <2>7. Rows'
    BY <2>2, <2>5, <2>6 DEF Rows
  <2>8. KeepsSuccess
    BY <2>3, <2>5 DEF KeepsSuccess, RowsIn
  <2> QED
    BY <2>7, <2>8
<1> QED
  BY <1>1, <1>2

LEMMA SameRows ==
  ASSUME Rows, ledger' = ledger
  PROVE  Rows' /\ KeepsSuccess
BY DEF Rows, KeepsSuccess

LEMMA SettleKeepsSuccess ==
  ASSUME Rows, NEW k, NEW a, NEW t, Settle(k, a, t)
  PROVE  Rows' /\ KeepsSuccess
BY StatusStep DEF Settle, LedgerStatuses

LEMMA MarkFailedKeepsSuccess ==
  ASSUME Rows, NEW k, MarkFailed(k)
  PROVE  Rows' /\ KeepsSuccess
<1>1. CASE ledger[k].status = "pending"
  BY <1>1, StatusStep DEF MarkFailed, LedgerStatuses
<1>2. CASE ledger[k].status # "pending"
  BY <1>2, SameRows DEF MarkFailed
<1> QED
  BY <1>1, <1>2

LEMMA ReserveKeepsSuccess ==
  ASSUME Rows, NEW g \in Sagas, NEW k \in Scopes, SagaReserve(g, k)
  PROVE  Rows' /\ KeepsSuccess
<1> DEFINE row == [status |-> "pending", amount |-> AmountFor(k),
                   at |-> Cardinality(Scopes \ RowsIn("none")) + 1]
<1>1. ledger' = [ledger EXCEPT ![k] = row] /\ ledger[k].status = "none"
  BY DEF SagaReserve
<1>2. GoodRow(row)
  BY DEF GoodRow, LedgerStatuses
<1>3. ledger' = [j \in Scopes |-> IF j = k THEN row ELSE ledger[j]]
  BY <1>1 DEF Rows
<1> HIDE DEF row
<1>4. \A j \in Scopes : ledger'[j] = IF j = k THEN row ELSE ledger[j]
  BY <1>3
<1>5. ledger' = [j \in Scopes |-> ledger'[j]]
  BY <1>3
<1> QED
  BY <1>1, <1>2, <1>4, <1>5 DEF Rows, KeepsSuccess, RowsIn

LEMMA EventKeepsSuccess ==
  ASSUME Rows, NEW k \in Scopes, RefundEvent(k)
  PROVE  Rows' /\ KeepsSuccess
<1>1. ledger' = [r \in Scopes |-> IF ledger[r].status = "none" THEN ledger[r]
                                  ELSE [ledger[r] EXCEPT !.status = "succeeded"]]
  BY DEF RefundEvent
<1>2. ledger' = [r \in Scopes |-> ledger'[r]]
  BY <1>1
<1>3. ASSUME NEW r \in Scopes
      PROVE  GoodRow(ledger'[r]) /\ (ledger[r].status = "succeeded" => ledger'[r] = ledger[r])
  <2>1. ledger'[r] = IF ledger[r].status = "none" THEN ledger[r]
                     ELSE [ledger[r] EXCEPT !.status = "succeeded"]
    BY <1>1
  <2>2. GoodRow(ledger[r]) /\ "succeeded" \in LedgerStatuses
    BY DEF Rows, LedgerStatuses
  <2>3. GoodRow([ledger[r] EXCEPT !.status = "succeeded"])
    BY <2>2, RowStatus
  <2>4. ledger[r].status = "succeeded" => [ledger[r] EXCEPT !.status = "succeeded"] = ledger[r]
    BY <2>2, SameStatus
  <2> QED
    BY <2>1, <2>2, <2>3, <2>4
<1> QED
  BY <1>2, <1>3 DEF Rows, KeepsSuccess, RowsIn

LEMMA StepKeepsSuccess ==
  ASSUME Rows, [RefundNext]_refundVars
  PROVE  Rows' /\ KeepsSuccess
<1>1. CASE UNCHANGED refundVars
  BY <1>1, SameRows DEF refundVars, refundTables
<1>2. ASSUME NEW g \in Sagas, NEW k \in Scopes,
             SagaReplay(g, k) \/ SagaRefused(g, k) \/ SagaReserve(g, k)
      PROVE  Rows' /\ KeepsSuccess
  BY <1>2, SameRows, ReserveKeepsSuccess DEF SagaReplay, SagaRefused, refundTables
<1>3. ASSUME NEW g \in Sagas, SagaStep(g)
      PROVE  Rows' /\ KeepsSuccess
  <2>1. CASE SagaMarkFailed(g)
    BY <2>1, MarkFailedKeepsSuccess DEF SagaMarkFailed
  <2>2. CASE SagaSettle(g)
    BY <2>2, SettleKeepsSuccess DEF SagaSettle
  <2>3. CASE \/ SagaGatewayAccepts(g) \/ SagaGatewayRefuses(g) \/ SagaGatewayLost(g)
             \/ SagaSettleFails(g) \/ SagaCancelShipments(g) \/ SagaCrash(g)
    BY <2>3, SameRows DEF SagaGatewayAccepts, SagaGatewayRefuses, SagaGatewayLost,
       SagaSettleFails, SagaCancelShipments, SagaCrash, refundTables
  <2> QED
    BY <1>3, <2>1, <2>2, <2>3 DEF SagaStep
<1>4. ASSUME NEW w \in Sweeps, SweepClaim(w) \/ SweepCrash(w)
      PROVE  Rows' /\ KeepsSuccess
  BY <1>4, SameRows DEF SweepClaim, SweepCrash, refundTables
<1>5. ASSUME NEW w \in Sweeps, NEW k \in Scopes, SweepStep(w, k)
      PROVE  Rows' /\ KeepsSuccess
  <2>1. CASE SweepMarkFailed(w, k)
    BY <2>1, MarkFailedKeepsSuccess DEF SweepMarkFailed
  <2>2. CASE SweepSettle(w, k)
    BY <2>2, SettleKeepsSuccess, SameRows DEF SweepSettle, refundTables
  <2>3. CASE \/ SweepLoadOrder(w, k) \/ SweepReadCards(w, k) \/ SweepSplit(w, k)
             \/ SweepSkip(w, k) \/ SweepGatewayAccepts(w, k)
             \/ SweepGatewayRefuses(w, k) \/ SweepGatewayLost(w, k)
    BY <2>3, SameRows DEF SweepLoadOrder, SweepReadCards, SweepSplit, SweepSkip,
       SweepGatewayAccepts, SweepGatewayRefuses, SweepGatewayLost, refundTables
  <2> QED
    BY <1>5, <2>1, <2>2, <2>3 DEF SweepStep
<1>6. ASSUME NEW k \in Scopes, Age(k) \/ RefundEvent(k)
      PROVE  Rows' /\ KeepsSuccess
  BY <1>6, SameRows, EventKeepsSuccess DEF Age, refundTables
<1>7. ASSUME NEW c \in Cards, VoidCard(c)
      PROVE  Rows' /\ KeepsSuccess
  BY <1>7, SameRows DEF VoidCard
<1> QED
  BY <1>1, <1>2, <1>3, <1>4, <1>5, <1>6, <1>7 DEF RefundNext

\* For every instance: a refund that succeeded stays a success with the same
\* amount, whatever refusal, sweep or repeated event comes late.
THEOREM SuccessIsFinal == RefundSpec => SucceededIsFinal
<1>1. RefundInit => Rows
  BY DEF RefundInit, Rows, GoodRow, LedgerStatuses
<1>2. Rows /\ [RefundNext]_refundVars => Rows' /\ KeepsSuccess
  BY StepKeepsSuccess
<1>3. KeepsSuccess => [\A k \in RowsIn("succeeded") : ledger'[k] = ledger[k]]_ledger
  BY DEF KeepsSuccess
<1> QED
  BY <1>1, <1>2, <1>3, PTL DEF RefundSpec, SucceededIsFinal

-----------------------------------------------------------------------------
(* The money of an order paid through the provider alone.                  *)

\* Rows whose money is promised or paid.
Live == RowsIn("pending") \union RowsIn("succeeded")

\* What one row says of the money moved and booked under its key.
RowMoney(k) ==
  LET row == ledger[k] IN
  /\ row.amount \in Nat /\ row.at \in Int
  /\ row.status = "none" => row.amount = 0 /\ moved[k] = 0 /\ booked[k] = 0
  /\ row.status # "none" => row.amount > 0
  /\ row.status = "pending" => moved[k] \in {0, row.amount} /\ booked[k] = 0
  /\ row.status = "succeeded" => moved[k] = row.amount /\ booked[k] = row.amount
  /\ row.status = "failed" => moved[k] = 0 /\ booked[k] = 0

\* The order's books and the ledger.
Books ==
  /\ order = [refunded |-> order.refunded, status |-> order.status]
  /\ order.refunded = AmountOf(RowsIn("succeeded"))
  /\ AmountOf(Live) <= Lesser(GrandTotal, Captured)
  /\ order.status = "refunded" => order.refunded >= GrandTotal

\* A refund that was told the order's whole total comes back with it.
Completes(target, amount) == target = "refunded" => order.refunded + amount >= GrandTotal

\* Rows have their own places in created_at order.
Ranked ==
  LET rows == Scopes \ RowsIn("none") IN
  /\ \A k \in rows : ledger[k].at \in 1 .. Cardinality(rows)
  /\ \A j, k \in rows : ledger[j].at = ledger[k].at => j = k

SagaMoney(g) ==
  LET s == saga[g]  k == saga[g].scope IN
  s.pc \in Driving =>
    /\ ledger[k].status = "pending" /\ s.gateway = ledger[k].amount
    /\ Completes(s.target, s.gateway)
    /\ s.pc = "settle" => moved[k] = ledger[k].amount
    /\ s.pc = "fail" => moved[k] = 0

SweepMoney(w) ==
  LET s == sweep[w] IN
  /\ s.cards \in Nat /\ s.seen \in Nat /\ s.seen <= order.refunded
  /\ \A k \in s.batch : ledger[k].status \in {"pending", "succeeded"}
  /\ \A k \in Scopes : Turn(w, k) =>
       /\ s.pc \in {"gateway", "settle"} =>
            s.gateway = ledger[k].amount /\ Completes(s.target, s.gateway)
       /\ s.pc = "settle" => moved[k] = ledger[k].amount
       /\ s.pc = "fail" => moved[k] = 0 /\ ledger[k].status = "pending"

TablesMoney ==
  /\ moved \in [Scopes -> Nat] /\ booked \in [Scopes -> Nat] /\ DOMAIN credited = {}
  /\ \A k \in Scopes : RowMoney(k)
  /\ Books /\ Ranked

MoneyInv ==
  /\ TablesMoney
  /\ \A g \in Sagas : SagaMoney(g)
  /\ \A w \in Sweeps : SweepMoney(w)

ProviderAlone == CardOrder = <<>> /\ IsFiniteSet(Scopes)

-----------------------------------------------------------------------------
(* Sums over the ledger.                                                   *)

AmountIn(H, rows) == SumFunctionOnSet([k \in Scopes |-> H[k].amount], rows)

LEMMA AmountInNat ==
  ASSUME IsFiniteSet(Scopes), NEW H, \A k \in Scopes : H[k].amount \in Nat, NEW R \in SUBSET Scopes
  PROVE  AmountIn(H, R) \in Nat
<1> DEFINE f == [k \in Scopes |-> H[k].amount]
<1>1. IsFiniteSet(R) /\ \A k \in R : f[k] \in Nat
  BY FS_Subset
<1> HIDE DEF f
<1>2. SumFunctionOnSet(f, R) \in Nat
  BY <1>1, SumNat
<1> QED BY <1>2 DEF AmountIn, f

LEMMA AmountInSame ==
  ASSUME IsFiniteSet(Scopes), NEW H, NEW K, NEW R \in SUBSET Scopes,
         \A k \in R : K[k].amount = H[k].amount
  PROVE  AmountIn(K, R) = AmountIn(H, R)
<1> DEFINE f == [k \in Scopes |-> H[k].amount]
           e == [k \in Scopes |-> K[k].amount]
<1>1. IsFiniteSet(R) /\ \A k \in R : e[k] = f[k]
  BY FS_Subset
<1> HIDE DEF f, e
<1>2. SumFunctionOnSet(e, R) = SumFunctionOnSet(f, R)
  BY <1>1, SumSame
<1> QED BY <1>2 DEF AmountIn, f, e

LEMMA AmountInWithout ==
  ASSUME IsFiniteSet(Scopes), NEW H, \A k \in Scopes : H[k].amount \in Nat,
         NEW R \in SUBSET Scopes, NEW k \in R
  PROVE  AmountIn(H, R) = H[k].amount + AmountIn(H, R \ {k})
<1> DEFINE f == [j \in Scopes |-> H[j].amount]
<1>1. IsFiniteSet(R) /\ (\A j \in R : f[j] \in Int) /\ f[k] = H[k].amount
  BY FS_Subset
<1> HIDE DEF f
<1>2. SumFunctionOnSet(f, R) = f[k] + SumFunctionOnSet(f, R \ {k})
  BY <1>1, SumWithout
<1> QED BY <1>1, <1>2 DEF AmountIn, f

LEMMA AmountInBoth ==
  ASSUME IsFiniteSet(Scopes), NEW H, \A k \in Scopes : H[k].amount \in Nat,
         NEW R \in SUBSET Scopes, NEW Q \in SUBSET Scopes, R \cap Q = {}
  PROVE  AmountIn(H, R \union Q) = AmountIn(H, R) + AmountIn(H, Q)
<1> DEFINE f == [j \in Scopes |-> H[j].amount]
<1>1. IsFiniteSet(R) /\ IsFiniteSet(Q) /\ \A j \in R \union Q : f[j] \in Int
  BY FS_Subset
<1> HIDE DEF f
<1>2. SumFunctionOnSet(f, R \union Q) = SumFunctionOnSet(f, R) + SumFunctionOnSet(f, Q)
  BY <1>1, SumDisjoint
<1> QED BY <1>2 DEF AmountIn, f

LEMMA AmountsAre ==
  ASSUME NEW R
  PROVE  AmountOf(R) = AmountIn(ledger, R)
BY DEF AmountOf, AmountIn

LEMMA NoCards ==
  ASSUME ProviderAlone
  PROVE  Cards = {}
<1>1. Len(CardOrder) = 0
  BY DEF ProviderAlone
<1>2. 1 .. Len(CardOrder) = {}
  BY <1>1
<1> QED BY <1>2, Zenon DEF Cards

\* The balance is a natural, and so is what is pending; no card is owed anything.
LEMMA BalanceNat ==
  ASSUME ProviderAlone, MoneyInv
  PROVE  /\ order.refunded \in Nat /\ SumPending \in Nat
         /\ AmountOf(Live) = SumPending + order.refunded
         /\ TotalApplied = 0 /\ TotalCredited = 0
         /\ GrandTotal \in Nat /\ Captured \in Nat
<1>1. /\ IsFiniteSet(Scopes) /\ \A k \in Scopes : ledger[k].amount \in Nat
      /\ RowsIn("pending") \in SUBSET Scopes /\ RowsIn("succeeded") \in SUBSET Scopes
      /\ RowsIn("pending") \cap RowsIn("succeeded") = {}
  BY DEF ProviderAlone, MoneyInv, TablesMoney, RowMoney, RowsIn
<1>2. AmountOf(RowsIn("succeeded")) \in Nat /\ SumPending \in Nat
  BY <1>1, AmountInNat DEF AmountOf, AmountIn, SumPending
<1>3. AmountOf(Live) = SumPending + AmountOf(RowsIn("succeeded"))
  BY <1>1, AmountInBoth DEF AmountOf, AmountIn, SumPending, Live
<1>4. DOMAIN Applied = {}
  <2>1. Cards = {}
    BY NoCards
  <2> QED BY <2>1, RefundAssumption DEF RefundAssumption
<1>5. TotalApplied = 0
  BY <1>4, SumEmpty DEF TotalApplied, SumFunction
<1>6. TotalCredited = 0
  BY SumEmpty DEF TotalCredited, SumFunction, MoneyInv, TablesMoney
<1> QED BY <1>2, <1>3, <1>5, <1>6, RefundAssumption DEF MoneyInv, TablesMoney, Books, RefundAssumption

\* A row that still has to move its money leaves room for it at the provider.
LEMMA RoomAtProvider ==
  ASSUME ProviderAlone, Shape, MoneyInv, NEW k \in Scopes,
         ledger[k].status \in {"pending", "succeeded"}, moved[k] = 0
  PROVE  /\ ledger[k].status = "pending"
         /\ ledger[k].amount <= Captured - TotalMoved
<1> DEFINE f == [j \in Scopes |-> ledger[j].amount]
           R == Live \ {k}
           e == [j \in Scopes |-> IF j \in R THEN f[j] ELSE 0]
<1>1. /\ IsFiniteSet(Scopes) /\ \A j \in Scopes : ledger[j].amount \in Nat
      /\ \A j \in Scopes : RowMoney(j) /\ moved[j] \in Nat
  BY DEF ProviderAlone, MoneyInv, TablesMoney, RowMoney
<1>2. ledger[k].status = "pending" /\ k \in Live
  BY <1>1 DEF RowMoney, Live, RowsIn
<1>3. ASSUME NEW j \in Scopes PROVE moved[j] <= e[j] /\ moved[j] \in Int /\ e[j] \in Int
  <2>1. RowMoney(j) /\ ledger[j].status \in LedgerStatuses
    BY <1>1 DEF Shape, GoodRow
  <2>2. ledger[j].status \in {"pending", "succeeded"} \/ moved[j] = 0
    BY <2>1 DEF RowMoney, LedgerStatuses
  <2>3. ledger[j].status \in {"pending", "succeeded"} => moved[j] <= ledger[j].amount
    BY <1>1, <2>1 DEF RowMoney
  <2>4. CASE j \in R
    <3>1. e[j] = ledger[j].amount
      BY <2>4
    <3> QED BY <1>1, <2>2, <2>3, <3>1
  <2>5. CASE j \notin R
    <3>1. e[j] = 0
      BY <2>5
    <3>2. moved[j] = 0
      BY <2>2, <2>5 DEF Live, RowsIn
    <3> QED BY <3>1, <3>2
  <2> QED BY <2>4, <2>5
<1>4. R \subseteq Scopes /\ IsFiniteSet(R) /\ Live \in SUBSET Scopes
  BY <1>1, FS_Subset DEF Live, RowsIn
<1>5. (\A j \in R : e[j] = f[j]) /\ \A j \in Scopes \ R : e[j] = 0
  BY <1>4
<1> HIDE DEF e, f, R
<1>6. SumFunctionOnSet(moved, Scopes) <= SumFunctionOnSet(e, Scopes)
  BY <1>1, <1>3, SumAtMost
<1>7. SumFunctionOnSet(e, Scopes) = SumFunctionOnSet(e, R)
  BY <1>1, <1>3, <1>4, <1>5, SumSupport
<1>8. SumFunctionOnSet(e, R) = SumFunctionOnSet(f, R)
  BY <1>4, <1>5, SumSame
<1>9. SumFunctionOnSet(f, R) = AmountOf(R)
  BY DEF f, AmountOf
<1>10. TotalMoved = SumFunctionOnSet(moved, Scopes)
  BY DEF TotalMoved, SumFunction, MoneyInv, TablesMoney
<1>11. AmountOf(Live) = ledger[k].amount + AmountOf(R)
  <2>1. AmountIn(ledger, Live) = ledger[k].amount + AmountIn(ledger, Live \ {k})
    BY <1>1, <1>2, <1>4, AmountInWithout
  <2> QED BY <2>1, AmountsAre DEF R
<1>12. /\ AmountOf(R) \in Nat /\ AmountOf(Live) \in Nat /\ ledger[k].amount \in Nat
       /\ Captured \in Nat /\ GrandTotal \in Nat
  BY <1>1, <1>4, AmountInNat, RefundAssumption DEF AmountOf, AmountIn, RefundAssumption
<1>13. AmountOf(Live) <= Captured
  BY <1>12 DEF MoneyInv, TablesMoney, Books, Lesser
<1>14. TotalMoved \in Int
  BY <1>1, <1>3, <1>10, SumInt
<1>15. TotalMoved <= AmountOf(R)
  BY <1>6, <1>7, <1>8, <1>9, <1>10
<1>16. ledger[k].amount <= Captured - TotalMoved
  BY <1>11, <1>12, <1>13, <1>14, <1>15
<1> QED BY <1>2, <1>16

\* A refund of such an order is granted by the provider's side alone.
LEMMA SplitAlone ==
  ASSUME NEW s \in LedgerState, s.applied = 0, NEW amount \in Int, Covers(s, amount)
  PROVE  /\ amount > 0 /\ Split(s, amount).gateway = amount
         /\ amount <= GatewayAvailable(s)
<1>1. GatewayOpen(s) \in Nat /\ GatewayAvailable(s) \in 0 .. GatewayOpen(s)
      /\ CardAvailable(s) \in 0 .. ClampZero(s.applied - s.cardReturned)
  BY AvailableBounds
<1>2. ClampZero(s.applied - s.cardReturned) = 0
  BY DEF ClampZero, LedgerState
<1>3. CardAvailable(s) = 0 /\ GatewayAvailable(s) \in Nat
  BY <1>1, <1>2
<1>4. /\ Split(s, amount).gateway = Lesser(amount, GatewayAvailable(s))
      /\ Split(s, amount).card = Lesser(amount - Lesser(amount, GatewayAvailable(s)), 0)
  BY <1>3 DEF Split
<1>5. /\ amount > 0
      /\ Lesser(amount, GatewayAvailable(s))
           + Lesser(amount - Lesser(amount, GatewayAvailable(s)), 0) >= amount
  BY <1>4 DEF Covers
<1> QED BY <1>3, <1>4, <1>5 DEF Lesser

-----------------------------------------------------------------------------
(* What a step leaves as it was.                                           *)

\* The row of a saga that does not move is as it was.
LEMMA SagaStays ==
  ASSUME MoneyInv, NEW g \in Sagas, saga'[g] = saga[g],
         order.refunded \in Int, order'.refunded \in Int, order'.refunded >= order.refunded,
         GrandTotal \in Nat, \A k \in Scopes : ledger[k].amount \in Nat,
         saga[g].pc \in Driving =>
           LET k == saga[g].scope
           IN k \in Scopes /\ ledger'[k] = ledger[k] /\ moved'[k] = moved[k]
  PROVE  SagaMoney(g)'
<1> SUFFICES ASSUME saga[g].pc \in Driving
             PROVE  SagaMoney(g)'
  BY DEF SagaMoney
<1> DEFINE k == saga[g].scope
<1>1. SagaMoney(g) /\ k \in Scopes /\ ledger'[k] = ledger[k] /\ moved'[k] = moved[k]
  BY DEF MoneyInv, TablesMoney
<1>2. Completes(saga[g].target, saga[g].gateway)'
  <2>1. Completes(saga[g].target, saga[g].gateway) /\ saga[g].gateway \in Nat
    BY <1>1 DEF SagaMoney
  <2> QED BY <2>1 DEF Completes
<1> QED BY <1>1, <1>2 DEF SagaMoney

\* The rows of a sweep that does not move are good to go on with.
LEMMA SweepStays ==
  ASSUME MoneyInv, NEW w \in Sweeps, sweep'[w] = sweep[w], sweep[w].batch \subseteq Scopes,
         order.refunded \in Int, order'.refunded \in Int, order'.refunded >= order.refunded,
         GrandTotal \in Nat, \A k \in Scopes : ledger[k].amount \in Nat,
         \A k \in sweep[w].batch :
           /\ ledger'[k].at = ledger[k].at /\ ledger'[k].amount = ledger[k].amount
           /\ ledger'[k].status \in {"pending", "succeeded"}
           /\ moved'[k] \in {moved[k], ledger[k].amount}
           /\ sweep[w].pc = "fail" /\ Turn(w, k) => moved'[k] = moved[k] /\ ledger'[k] = ledger[k]
  PROVE  SweepMoney(w)'
<1>1. SweepMoney(w)
  BY DEF MoneyInv, TablesMoney
<1>2. /\ sweep'[w].cards \in Nat /\ sweep'[w].seen \in Nat /\ sweep'[w].seen <= order'.refunded
  BY <1>1 DEF SweepMoney
<1>3. ASSUME NEW k \in Scopes, Turn(w, k)'
      PROVE  /\ sweep[w].pc \in {"gateway", "settle"} =>
                  sweep[w].gateway = ledger'[k].amount /\ Completes(sweep[w].target, sweep[w].gateway)'
             /\ sweep[w].pc = "settle" => moved'[k] = ledger'[k].amount
             /\ sweep[w].pc = "fail" => moved'[k] = 0 /\ ledger'[k].status = "pending"
  <2>1. Turn(w, k) /\ k \in sweep[w].batch
    BY <1>3 DEF Turn
  <2>2. sweep[w].pc \in {"gateway", "settle"} =>
          Completes(sweep[w].target, sweep[w].gateway) /\ sweep[w].gateway = ledger[k].amount
    BY <1>1, <2>1 DEF SweepMoney
  <2>3. sweep[w].pc \in {"gateway", "settle"} => Completes(sweep[w].target, sweep[w].gateway)'
    <3> SUFFICES ASSUME sweep[w].pc \in {"gateway", "settle"}
                 PROVE  Completes(sweep[w].target, sweep[w].gateway)'
      OBVIOUS
    <3>1. Completes(sweep[w].target, sweep[w].gateway) /\ sweep[w].gateway \in Nat
      BY <2>2
    <3> QED BY <3>1 DEF Completes
  <2>4. sweep[w].pc = "settle" => moved'[k] = ledger'[k].amount
    BY <1>1, <2>1 DEF SweepMoney
  <2>5. sweep[w].pc = "fail" => moved'[k] = 0 /\ ledger'[k].status = "pending"
    BY <1>1, <2>1 DEF SweepMoney
  <2> QED BY <2>1, <2>2, <2>3, <2>4, <2>5
<1>4. \A k \in sweep'[w].batch : ledger'[k].status \in {"pending", "succeeded"}
  OBVIOUS
<1> QED BY <1>2, <1>3, <1>4 DEF SweepMoney

\* A saga takes a step that touches no table.
LEMMA SagaMoves ==
  ASSUME MoneyInv, NEW g \in Sagas, UNCHANGED <<order, ledger, booked, credited, moved, sweep>>,
         \A h \in Sagas : h # g => saga'[h] = saga[h], SagaMoney(g)'
  PROVE  MoneyInv'
<1>1. \A w \in Sweeps : SweepMoney(w)'
  BY DEF MoneyInv, TablesMoney, SweepMoney, Turn, Completes
<1>2. ASSUME NEW h \in Sagas PROVE SagaMoney(h)'
  <2>1. CASE h = g
    BY <2>1
  <2>2. CASE h # g
    BY <2>2 DEF MoneyInv, TablesMoney, SagaMoney, Completes
  <2> QED BY <2>1, <2>2
<1>3. Books' /\ Ranked' /\ \A k \in Scopes : RowMoney(k)'
  BY DEF MoneyInv, TablesMoney, Books, Ranked, RowMoney, AmountOf, RowsIn, Live
<1> QED BY <1>1, <1>2, <1>3 DEF MoneyInv, TablesMoney

\* A sweep takes one.
LEMMA SweepMoves ==
  ASSUME MoneyInv, NEW w \in Sweeps, UNCHANGED <<order, ledger, booked, credited, moved, saga>>,
         \A v \in Sweeps : v # w => sweep'[v] = sweep[v], SweepMoney(w)'
  PROVE  MoneyInv'
<1>1. \A g \in Sagas : SagaMoney(g)'
  BY DEF MoneyInv, TablesMoney, SagaMoney, Completes
<1>2. ASSUME NEW v \in Sweeps PROVE SweepMoney(v)'
  <2>1. CASE v = w
    BY <2>1
  <2>2. CASE v # w
    BY <2>2 DEF MoneyInv, TablesMoney, SweepMoney, Turn, Completes
  <2> QED BY <2>1, <2>2
<1>3. Books' /\ Ranked' /\ \A k \in Scopes : RowMoney(k)'
  BY DEF MoneyInv, TablesMoney, Books, Ranked, RowMoney, AmountOf, RowsIn, Live
<1> QED BY <1>1, <1>2, <1>3 DEF MoneyInv, TablesMoney

\* Everybody else, when row k changes: its saga is the only one that drives it, and
\* no sweep has it.
LEMMA OthersOfDriven ==
  ASSUME IInv, ProviderAlone, MoneyInv, NEW g \in Sagas, NEW k \in Scopes, Drives(g, k),
         sweep' = sweep, \A h \in Sagas : h # g => saga'[h] = saga[h],
         \A j \in Scopes : j # k => ledger'[j] = ledger[j] /\ moved'[j] = moved[j],
         order'.refunded \in Nat, order'.refunded >= order.refunded
  PROVE  /\ \A h \in Sagas : h # g => SagaMoney(h)'
         /\ \A w \in Sweeps : SweepMoney(w)'
<1>1. /\ order.refunded \in Nat /\ GrandTotal \in Nat
      /\ \A j \in Scopes : ledger[j].amount \in Nat
  BY BalanceNat DEF MoneyInv, TablesMoney, RowMoney
<1>2. ASSUME NEW h \in Sagas, h # g PROVE SagaMoney(h)'
  <2>1. saga[h].pc \in Driving => saga[h].scope \in Scopes /\ saga[h].scope # k
    BY <1>2 DEF IInv, DrivenAlone, Drives, Driving, Shape, GoodCall
  <2> QED BY <1>1, <1>2, <2>1, SagaStays
<1>3. ASSUME NEW w \in Sweeps PROVE SweepMoney(w)'
  <2>1. sweep[w].batch \subseteq Scopes /\ k \notin sweep[w].batch
    BY DEF IInv, Shape, GoodRun, DrivenAlone, SweptAged
  <2>2. \A j \in sweep[w].batch :
          /\ ledger'[j] = ledger[j] /\ moved'[j] = moved[j]
          /\ ledger[j].status \in {"pending", "succeeded"}
    BY <2>1 DEF MoneyInv, TablesMoney, SweepMoney
  <2> QED BY <1>1, <2>1, <2>2, SweepStays
<1> QED BY <1>2, <1>3

\* What happens to row k lets run v go on with it: only a refusal v has heard for
\* the row does not bear a change.
Undisturbed(v, k) ==
  /\ ledger'[k].status \in {"pending", "succeeded"}
  /\ moved'[k] \in {moved[k], ledger[k].amount}
  /\ sweep[v].pc = "fail" /\ Turn(v, k) => moved'[k] = moved[k] /\ ledger'[k] = ledger[k]

\* The same when a sweep has the row: no saga drives it, and other sweeps that have
\* it are not disturbed.
LEMMA OthersOfSwept ==
  ASSUME IInv, ProviderAlone, MoneyInv, NEW w \in Sweeps, NEW k \in sweep[w].batch,
         saga' = saga, \A v \in Sweeps : v # w => sweep'[v] = sweep[v],
         \A j \in Scopes : j # k => ledger'[j] = ledger[j] /\ moved'[j] = moved[j],
         ledger'[k].at = ledger[k].at, ledger'[k].amount = ledger[k].amount,
         \A v \in Sweeps : v # w /\ k \in sweep[v].batch => Undisturbed(v, k),
         order'.refunded \in Nat, order'.refunded >= order.refunded
  PROVE  /\ \A g \in Sagas : SagaMoney(g)'
         /\ \A v \in Sweeps : v # w => SweepMoney(v)'
<1>1. /\ order.refunded \in Nat /\ GrandTotal \in Nat
      /\ \A j \in Scopes : ledger[j].amount \in Nat
  BY BalanceNat DEF MoneyInv, TablesMoney, RowMoney
<1>2. k \in aged
  BY DEF IInv, SweptAged
<1>3. ASSUME NEW g \in Sagas PROVE SagaMoney(g)'
  <2>1. saga[g].pc \in Driving => saga[g].scope \in Scopes /\ saga[g].scope # k
    BY <1>2 DEF IInv, DrivenAlone, Drives, Driving, Shape, GoodCall
  <2> QED BY <1>1, <2>1, SagaStays
<1>4. ASSUME NEW v \in Sweeps, v # w PROVE SweepMoney(v)'
  <2>1. sweep[v].batch \subseteq Scopes
    BY <1>4 DEF IInv, Shape, GoodRun
  <2>2. \A j \in sweep[v].batch : ledger[j].status \in {"pending", "succeeded"}
    BY DEF MoneyInv, TablesMoney, SweepMoney
  <2>3. ASSUME NEW j \in sweep[v].batch
        PROVE  ledger'[j].at = ledger[j].at /\ ledger'[j].amount = ledger[j].amount /\ Undisturbed(v, j)
    <3>1. CASE j = k
      BY <1>4, <3>1
    <3>2. CASE j # k
      BY <3>2, <2>1, <2>2 DEF Undisturbed
    <3> QED BY <3>1, <3>2
  <2> QED BY <1>1, <1>4, <2>1, <2>3, SweepStays DEF Undisturbed
<1> QED BY <1>3, <1>4

-----------------------------------------------------------------------------
(* What one step writes.                                                   *)

LEMMA CallKept ==
  ASSUME NEW s, GoodCall(s), NEW x
  PROVE  /\ [s EXCEPT !.pc = x].pc = x /\ [s EXCEPT !.pc = x].scope = s.scope
         /\ [s EXCEPT !.pc = x].gateway = s.gateway /\ [s EXCEPT !.pc = x].target = s.target
BY DEF GoodCall

LEMMA RowKept ==
  ASSUME NEW r, GoodRow(r), NEW x
  PROVE  /\ [r EXCEPT !.status = x].status = x
         /\ [r EXCEPT !.status = x].amount = r.amount /\ [r EXCEPT !.status = x].at = r.at
BY DEF GoodRow

LEMMA RunKept ==
  ASSUME NEW s, GoodRun(s), NEW x
  PROVE  /\ [s EXCEPT !.pc = x].pc = x /\ [s EXCEPT !.pc = x].batch = s.batch
         /\ [s EXCEPT !.pc = x].seen = s.seen /\ [s EXCEPT !.pc = x].cards = s.cards
         /\ [s EXCEPT !.pc = x].gateway = s.gateway /\ [s EXCEPT !.pc = x].target = s.target
BY DEF GoodRun

LEMMA GoKeeps ==
  ASSUME Shape, NEW g \in Sagas, NEW x, Go(g, x)
  PROVE  /\ saga'[g].pc = x /\ saga'[g].scope = saga[g].scope
         /\ saga'[g].gateway = saga[g].gateway /\ saga'[g].target = saga[g].target
         /\ \A h \in Sagas : h # g => saga'[h] = saga[h]
<1>1. saga'[g] = [saga[g] EXCEPT !.pc = x] /\ \A h \in Sagas : h # g => saga'[h] = saga[h]
  BY DEF Shape, Go
<1>2. GoodCall(saga[g])
  BY DEF Shape
<1> QED BY <1>1, <1>2, CallKept

LEMMA GoToKeeps ==
  ASSUME Shape, NEW w \in Sweeps, NEW x, GoTo(w, x)
  PROVE  /\ sweep'[w].pc = x /\ sweep'[w].batch = sweep[w].batch
         /\ sweep'[w].seen = sweep[w].seen /\ sweep'[w].cards = sweep[w].cards
         /\ sweep'[w].gateway = sweep[w].gateway /\ sweep'[w].target = sweep[w].target
         /\ \A v \in Sweeps : v # w => sweep'[v] = sweep[v]
<1>1. sweep'[w] = [sweep[w] EXCEPT !.pc = x] /\ \A v \in Sweeps : v # w => sweep'[v] = sweep[v]
  BY DEF Shape, GoTo
<1>2. GoodRun(sweep[w])
  BY DEF Shape
<1> QED BY <1>1, <1>2, RunKept

LEMMA RunTaken ==
  ASSUME Shape, NEW w \in Sweeps, NEW r, sweep' = [sweep EXCEPT ![w] = r]
  PROVE  sweep'[w] = r /\ \A v \in Sweeps : v # w => sweep'[v] = sweep[v]
BY DEF Shape

\* A sweep that asks nothing of a row holds only rows to resume.
LEMMA SweepReads ==
  ASSUME NEW w \in Sweeps, sweep'[w].pc \notin Driving,
         sweep'[w].seen \in Nat, sweep'[w].seen <= order'.refunded, sweep'[w].cards \in Nat,
         \A j \in sweep'[w].batch : ledger'[j].status \in {"pending", "succeeded"}
  PROVE  SweepMoney(w)'
BY DEF SweepMoney, Driving

LEMMA NextRowMoney ==
  ASSUME Shape, NEW w \in Sweeps, NEW k \in Scopes, NextRow(w, k), order'.refunded \in Nat,
         \A j \in sweep[w].batch \ {k} : ledger'[j].status \in {"pending", "succeeded"}
  PROVE  SweepMoney(w)' /\ \A v \in Sweeps : v # w => sweep'[v] = sweep[v]
<1> DEFINE rest == sweep[w].batch \ {k}
           r == IF rest = {} THEN NoSweep ELSE Run("load", rest, 0, 0, 0, "paid")
<1>1. sweep' = [sweep EXCEPT ![w] = r]
  BY DEF NextRow
<1>2. /\ r.pc \notin Driving /\ r.seen = 0 /\ r.cards = 0
      /\ r.batch \subseteq sweep[w].batch \ {k}
  BY DEF NoSweep, Run, Driving
<1> HIDE DEF r
<1>3. sweep'[w] = r /\ \A v \in Sweeps : v # w => sweep'[v] = sweep[v]
  BY <1>1, RunTaken
<1>4. \A j \in sweep'[w].batch : ledger'[j].status \in {"pending", "succeeded"}
  BY <1>2, <1>3
<1> QED BY <1>2, <1>3, <1>4, SweepReads

\* One row at a time.
LEMMA OneTurn ==
  ASSUME IInv, MoneyInv, NEW w \in Sweeps, NEW j \in Scopes, NEW k \in Scopes, Turn(w, j), Turn(w, k)
  PROVE  j = k
<1>1. j \in sweep[w].batch /\ k \in sweep[w].batch /\ ledger[j].at <= ledger[k].at /\ ledger[k].at <= ledger[j].at
  BY DEF Turn
<1>2. j \in Scopes \ RowsIn("none") /\ k \in Scopes \ RowsIn("none")
  BY <1>1 DEF IInv, SweptAged, RowsIn
<1>3. ledger[j].at \in Int /\ ledger[k].at \in Int
  BY DEF MoneyInv, TablesMoney, RowMoney
<1>4. ledger[j].at = ledger[k].at
  BY <1>1, <1>3
<1> QED BY <1>2, <1>4 DEF MoneyInv, TablesMoney, Ranked

\* The provider answers for a row that has promised its money: the books stay.
LEMMA MoneyMoves ==
  ASSUME MoneyInv, NEW k \in Scopes, ledger[k].status \in {"pending", "succeeded"},
         moved' = moved \/ moved' = MovedBy(k, ledger[k].amount),
         UNCHANGED <<order, ledger, booked, credited>>
  PROVE  /\ TablesMoney' /\ moved'[k] \in {moved[k], ledger[k].amount}
         /\ moved' = MovedBy(k, ledger[k].amount) => moved'[k] = ledger[k].amount
         /\ \A j \in Scopes : j # k => moved'[j] = moved[j]
<1>1. RowMoney(k) /\ moved \in [Scopes -> Nat] /\ moved[k] \in Nat /\ ledger[k].amount \in Nat
  BY DEF MoneyInv, TablesMoney, RowMoney
<1>2. moved[k] > 0 => moved[k] = ledger[k].amount
  BY <1>1 DEF RowMoney
<1>3. MovedBy(k, ledger[k].amount) = [moved EXCEPT ![k] = ledger[k].amount]
  BY <1>1, <1>2 DEF MovedBy
<1>4. /\ moved' \in [Scopes -> Nat] /\ moved'[k] \in {moved[k], ledger[k].amount}
      /\ moved' = MovedBy(k, ledger[k].amount) => moved'[k] = ledger[k].amount
      /\ \A j \in Scopes : j # k => moved'[j] = moved[j]
  BY <1>1, <1>3
<1>5. RowMoney(k)'
  BY <1>1, <1>4 DEF RowMoney
<1>6. ASSUME NEW j \in Scopes, j # k PROVE RowMoney(j)'
  BY <1>4, <1>6 DEF RowMoney, MoneyInv, TablesMoney
<1>7. Books' /\ Ranked'
  BY DEF MoneyInv, TablesMoney, Books, Ranked, AmountOf, RowsIn, Live
<1> QED BY <1>4, <1>5, <1>6, <1>7 DEF MoneyInv, TablesMoney

-----------------------------------------------------------------------------
(* A row leaves "pending".                                                 *)

\* Without cards there is nobody to credit.
LEMMA NobodyIsCredited ==
  ASSUME ProviderAlone, NEW k
  PROVE  CreditedAfter(k) = credited
<1> DEFINE base == [left |-> CardsOwed(k), to |-> credited]
           P(g) == g = [s \in SUBSET {} |-> IF s = {} THEN base ELSE
                     LET i == Max(s) IN
                     LET done == g[s \ {i}]
                         c == CardOrder[i]
                         amount == Lesser(done.left, ClampZero(Applied[c] - credited[c]))
                     IN IF c \in voided
                        THEN done
                        ELSE [left |-> done.left - amount, to |-> [done.to EXCEPT ![c] = @ + amount]]]
<1>1. \E g : P(g)
  <2>1. P([s \in SUBSET {} |-> base])
    OBVIOUS
  <2> QED BY <2>1
<1>2. DOMAIN CardOrder = {}
  BY DEF ProviderAlone
<1>3. CreditedAfter(k) = (CHOOSE g : P(g))[{}].to
  BY <1>2, Zenon DEF CreditedAfter, FoldLeft, MapThenFoldSet
<1>4. \A g : P(g) => g[{}] = base
  OBVIOUS
<1> HIDE DEF P
<1>5. P(CHOOSE g : P(g))
  BY <1>1
<1>6. (CHOOSE g : P(g))[{}] = base
  BY <1>4, <1>5
<1> QED BY <1>3, <1>6

\* The amounts a new outcome of row k leaves promised and paid.
LEMMA StatusMoney ==
  ASSUME IInv, ProviderAlone, MoneyInv, NEW k \in Scopes, ledger[k].status = "pending",
         NEW x \in {"succeeded", "failed"}, ledger' = [ledger EXCEPT ![k].status = x]
  PROVE  /\ ledger'[k].status = x /\ ledger'[k].amount = ledger[k].amount
         /\ ledger'[k].at = ledger[k].at
         /\ \A j \in Scopes : j # k => ledger'[j] = ledger[j]
         /\ Ranked'
         /\ AmountOf(Live)' \in Nat /\ AmountOf(Live)' <= AmountOf(Live)
         /\ AmountOf(RowsIn("succeeded"))' =
              AmountOf(RowsIn("succeeded")) + IF x = "succeeded" THEN ledger[k].amount ELSE 0
<1>1. /\ ledger'[k].status = x /\ \A j \in Scopes : j # k => ledger'[j] = ledger[j]
  <2>1. x \in LedgerStatuses
    BY DEF LedgerStatuses
  <2> QED BY <2>1, LedgerStep DEF IInv
<1>2. ledger'[k].amount = ledger[k].amount /\ ledger'[k].at = ledger[k].at
  <2>1. ledger'[k] = [ledger[k] EXCEPT !.status = x] /\ GoodRow(ledger[k])
    BY DEF IInv, Shape
  <2> QED BY <2>1, RowKept
<1>3. /\ IsFiniteSet(Scopes) /\ (\A j \in Scopes : ledger[j].amount \in Nat)
      /\ \A j \in Scopes : ledger'[j].amount = ledger[j].amount /\ ledger'[j].at = ledger[j].at
  BY <1>1, <1>2 DEF ProviderAlone, MoneyInv, TablesMoney, RowMoney
<1>4. \A j \in Scopes : ledger'[j].status = "none" <=> ledger[j].status = "none"
  BY <1>1
<1>5. Ranked'
  <2>1. RowsIn("none")' = RowsIn("none")
    BY <1>4 DEF RowsIn
  <2> QED BY <2>1, <1>3 DEF MoneyInv, TablesMoney, Ranked
<1> DEFINE S == RowsIn("succeeded")
<1>6. S \in SUBSET Scopes /\ k \notin S /\ Live \in SUBSET Scopes /\ k \in Live
  BY DEF RowsIn, Live
<1>7. \A R \in SUBSET Scopes : AmountIn(ledger', R) = AmountIn(ledger, R)
  BY <1>3, AmountInSame
<1>8. AmountIn(ledger, Live) = ledger[k].amount + AmountIn(ledger, Live \ {k})
  BY <1>3, <1>6, AmountInWithout
<1>9. AmountIn(ledger, Live) \in Nat /\ AmountIn(ledger, Live \ {k}) \in Nat /\ AmountIn(ledger, S) \in Nat
  BY <1>3, <1>6, AmountInNat
<1>10. AmountOf(Live)' = AmountIn(ledger', Live') /\ AmountOf(S)' = AmountIn(ledger', S')
  BY DEF AmountOf, AmountIn
<1>11. AmountOf(Live) = AmountIn(ledger, Live) /\ AmountOf(S) = AmountIn(ledger, S)
  BY AmountsAre
<1>12. CASE x = "succeeded"
  <2>1. Live' = Live /\ S' = S \union {k}
    BY <1>1, <1>12 DEF Live, RowsIn
  <2>2. AmountIn(ledger, S \union {k}) = ledger[k].amount + AmountIn(ledger, S)
    <3>1. (S \union {k}) \ {k} = S /\ S \union {k} \in SUBSET Scopes
      BY <1>6
    <3>2. AmountIn(ledger, S \union {k}) = ledger[k].amount + AmountIn(ledger, (S \union {k}) \ {k})
      BY <1>3, <3>1, AmountInWithout
    <3> QED BY <3>1, <3>2
  <2>3. /\ AmountIn(ledger', Live) = AmountIn(ledger, Live)
        /\ AmountIn(ledger', S \union {k}) = AmountIn(ledger, S \union {k})
    BY <1>6, <1>7
  <2> HIDE DEF S
  <2>4. AmountOf(Live)' \in Nat /\ AmountOf(Live)' <= AmountOf(Live)
    BY <1>9, <1>10, <1>11, <2>1, <2>3
  <2>5. AmountOf(S)' = AmountOf(S) + ledger[k].amount
    BY <1>3, <1>9, <1>10, <1>11, <2>1, <2>2, <2>3
  <2> QED BY <1>1, <1>2, <1>5, <1>12, <2>4, <2>5 DEF S
<1>13. CASE x = "failed"
  <2>1. Live' = Live \ {k} /\ S' = S
    BY <1>1, <1>13 DEF Live, RowsIn
  <2>2. /\ AmountIn(ledger', Live \ {k}) = AmountIn(ledger, Live \ {k})
        /\ AmountIn(ledger', S) = AmountIn(ledger, S)
    BY <1>6, <1>7
  <2> HIDE DEF S
  <2>3. AmountOf(Live)' \in Nat /\ AmountOf(Live)' <= AmountOf(Live)
    BY <1>3, <1>8, <1>9, <1>10, <1>11, <2>1, <2>2
  <2>4. AmountOf(S)' = AmountOf(S) + 0
    BY <1>9, <1>10, <1>11, <2>1, <2>2
  <2> QED BY <1>1, <1>2, <1>5, <1>13, <2>3, <2>4 DEF S
<1> QED BY <1>12, <1>13

\* tx #2 books the row's whole amount, which the provider has returned.
LEMMA SettleMoney ==
  ASSUME IInv, ProviderAlone, MoneyInv, NEW k \in Scopes, ledger[k].status = "pending",
         moved[k] = ledger[k].amount, NEW target, Completes(target, ledger[k].amount),
         Settle(k, ledger[k].amount, target), moved' = moved
  PROVE  /\ TablesMoney'
         /\ ledger'[k].status = "succeeded" /\ ledger'[k].amount = ledger[k].amount
         /\ ledger'[k].at = ledger[k].at
         /\ \A j \in Scopes : j # k => ledger'[j] = ledger[j]
         /\ order'.refunded \in Nat /\ order'.refunded >= order.refunded
<1> DEFINE a == ledger[k].amount
<1>1. /\ RowMoney(k) /\ a \in Nat /\ a > 0 /\ booked[k] = 0
      /\ moved \in [Scopes -> Nat] /\ booked \in [Scopes -> Nat]
  BY DEF MoneyInv, TablesMoney, RowMoney
<1>2. /\ ledger' = [ledger EXCEPT ![k].status = "succeeded"]
      /\ order' = [refunded |-> order.refunded + a, status |-> target]
      /\ booked' = [booked EXCEPT ![k] = @ + a]
      /\ credited' = credited
  BY <1>1, NobodyIsCredited DEF Settle, RecordRefund
<1>3. /\ ledger'[k].status = "succeeded" /\ ledger'[k].amount = ledger[k].amount
      /\ ledger'[k].at = ledger[k].at
      /\ \A j \in Scopes : j # k => ledger'[j] = ledger[j]
      /\ Ranked'
      /\ AmountOf(Live)' \in Nat /\ AmountOf(Live)' <= AmountOf(Live)
      /\ AmountOf(RowsIn("succeeded"))' =
           AmountOf(RowsIn("succeeded")) + IF "succeeded" = "succeeded" THEN ledger[k].amount ELSE 0
  BY <1>2, StatusMoney
<1>4. /\ order.refunded \in Nat /\ GrandTotal \in Nat /\ Captured \in Nat
      /\ order.refunded = AmountOf(RowsIn("succeeded"))
      /\ AmountOf(Live) \in Nat /\ AmountOf(Live) <= Lesser(GrandTotal, Captured)
  BY BalanceNat DEF MoneyInv, TablesMoney, Books
<1>5. Books'
  <2>1. order'.refunded = order.refunded + a /\ order'.status = target
    BY <1>2
  <2>2. order'.refunded = AmountOf(RowsIn("succeeded"))'
    BY <1>3, <1>4, <2>1
  <2>3. AmountOf(Live)' <= Lesser(GrandTotal, Captured)
    BY <1>3, <1>4 DEF Lesser
  <2>4. order'.status = "refunded" => order'.refunded >= GrandTotal
    BY <2>1 DEF Completes
  <2>5. order' = [refunded |-> order'.refunded, status |-> order'.status]
    BY <1>2
  <2> QED BY <2>2, <2>3, <2>4, <2>5 DEF Books
<1>6. booked' \in [Scopes -> Nat] /\ booked'[k] = a /\ \A j \in Scopes : j # k => booked'[j] = booked[j]
  BY <1>1, <1>2
<1>7. RowMoney(k)'
  BY <1>1, <1>3, <1>6 DEF RowMoney
<1>8. ASSUME NEW j \in Scopes, j # k PROVE RowMoney(j)'
  BY <1>3, <1>6, <1>8 DEF RowMoney, MoneyInv, TablesMoney
<1>9. TablesMoney'
  BY <1>1, <1>2, <1>3, <1>5, <1>6, <1>7, <1>8 DEF MoneyInv, TablesMoney
<1>10. order'.refunded \in Nat /\ order'.refunded >= order.refunded
  BY <1>1, <1>2, <1>4
<1> QED BY <1>3, <1>9, <1>10

\* A refusal leaves nothing moved and nothing booked.
LEMMA FailMoney ==
  ASSUME IInv, ProviderAlone, MoneyInv, NEW k \in Scopes, ledger[k].status = "pending",
         moved[k] = 0, MarkFailed(k), moved' = moved
  PROVE  /\ TablesMoney' /\ order' = order
         /\ ledger'[k].amount = ledger[k].amount /\ ledger'[k].at = ledger[k].at
         /\ \A j \in Scopes : j # k => ledger'[j] = ledger[j]
<1>1. /\ ledger' = [ledger EXCEPT ![k].status = "failed"]
      /\ UNCHANGED <<order, booked, credited>>
  BY DEF MarkFailed
<1>2. /\ ledger'[k].status = "failed" /\ ledger'[k].amount = ledger[k].amount
      /\ ledger'[k].at = ledger[k].at
      /\ \A j \in Scopes : j # k => ledger'[j] = ledger[j]
      /\ Ranked'
      /\ AmountOf(Live)' \in Nat /\ AmountOf(Live)' <= AmountOf(Live)
      /\ AmountOf(RowsIn("succeeded"))' =
           AmountOf(RowsIn("succeeded")) + IF "failed" = "succeeded" THEN ledger[k].amount ELSE 0
  BY <1>1, StatusMoney
<1>3. /\ order.refunded \in Nat /\ GrandTotal \in Nat /\ Captured \in Nat
      /\ order.refunded = AmountOf(RowsIn("succeeded"))
      /\ AmountOf(Live) \in Nat /\ AmountOf(Live) <= Lesser(GrandTotal, Captured)
  BY BalanceNat DEF MoneyInv, TablesMoney, Books
<1>4. Books'
  <2>1. order.refunded = AmountOf(RowsIn("succeeded"))'
    BY <1>2, <1>3
  <2>2. AmountOf(Live)' <= Lesser(GrandTotal, Captured)
    BY <1>2, <1>3 DEF Lesser
  <2> QED BY <1>1, <2>1, <2>2 DEF Books, MoneyInv, TablesMoney
<1>5. RowMoney(k)'
  BY <1>1, <1>2 DEF RowMoney, MoneyInv, TablesMoney
<1>6. ASSUME NEW j \in Scopes, j # k PROVE RowMoney(j)'
  BY <1>1, <1>2, <1>6 DEF RowMoney, MoneyInv, TablesMoney
<1>7. TablesMoney'
  BY <1>1, <1>2, <1>4, <1>5, <1>6 DEF MoneyInv, TablesMoney
<1> QED BY <1>1, <1>2, <1>7

-----------------------------------------------------------------------------
(* The steps of an order paid through the provider alone.                  *)

\* tx #1 promises no more than is left at the provider.
LEMMA ReserveMoney ==
  ASSUME IInv, ProviderAlone, MoneyInv, NEW g \in Sagas, NEW k \in Scopes, SagaReserve(g, k)
  PROVE  MoneyInv'
<1> DEFINE a == AmountFor(k)
           s == StateAtReserve
           rows == Scopes \ RowsIn("none")
           row == [status |-> "pending", amount |-> a, at |-> Cardinality(rows) + 1]
           call == Call("gateway", k, a, DeriveStatus(order.refunded, a))
<1>1. /\ order.refunded \in Nat /\ SumPending \in Nat /\ GrandTotal \in Nat /\ Captured \in Nat
      /\ AmountOf(Live) = SumPending + order.refunded
      /\ TotalApplied = 0 /\ TotalCredited = 0
  BY BalanceNat
<1>2. s \in LedgerState /\ s.applied = 0
  BY <1>1 DEF StateAtReserve, LedgerState, Lesser
<1>3. a \in Int
  <2>1. Remaining(s) \in Int
    BY <1>2, AvailableBounds DEF Remaining
  <2> QED BY <2>1, RefundAssumption DEF AmountFor, RefundAssumption
<1>4. a > 0 /\ Split(s, a).gateway = a /\ a <= GatewayAvailable(s)
  <2>1. Covers(s, a)
    BY DEF SagaReserve
  <2> HIDE DEF s, a
  <2> QED BY <1>2, <1>3, <2>1, SplitAlone
<1>5. a \in Nat /\ a + SumPending + order.refunded <= Lesser(GrandTotal, Captured)
  BY <1>1, <1>3, <1>4 DEF StateAtReserve, GatewayAvailable, GatewayOpen, InFlightGateway, ClampZero, Lesser
<1>6. /\ saga' = [saga EXCEPT ![g] = call] /\ ledger' = [ledger EXCEPT ![k] = row]
      /\ ledger[k].status = "none"
      /\ UNCHANGED <<order, credited, booked, moved, sweep>>
  BY <1>4, Zenon DEF SagaReserve
<1>7. /\ saga'[g] = call /\ \A h \in Sagas : h # g => saga'[h] = saga[h]
      /\ ledger'[k] = row /\ \A j \in Scopes : j # k => ledger'[j] = ledger[j]
  BY <1>6 DEF IInv, Shape
<1>8. /\ row.status = "pending" /\ row.amount = a /\ row.at = Cardinality(rows) + 1
      /\ call.pc = "gateway" /\ call.scope = k /\ call.gateway = a
      /\ call.target = DeriveStatus(order.refunded, a)
  BY DEF Call
<1> HIDE DEF row, call, a, s
<1>9. IsFiniteSet(Scopes) /\ \A j \in Scopes : ledger[j].amount \in Nat
  BY DEF ProviderAlone, MoneyInv, TablesMoney, RowMoney
<1>10. IsFiniteSet(rows) /\ k \notin rows /\ Cardinality(rows) \in Nat
  <2>1. IsFiniteSet(rows)
    BY <1>9, FS_Subset
  <2> QED BY <2>1, <1>6, FS_CardinalityType DEF RowsIn
<1>11. (Scopes \ RowsIn("none"))' = rows \union {k}
  BY <1>7, <1>8 DEF RowsIn
<1>12. Cardinality(rows \union {k}) = Cardinality(rows) + 1
  BY <1>10, FS_AddElement
<1>13. Ranked'
  <2>1. \A j \in rows : ledger[j].at \in 1 .. Cardinality(rows)
    BY DEF MoneyInv, TablesMoney, Ranked
  <2>2. \A j \in rows : ledger'[j].at = ledger[j].at
    BY <1>7, <1>10
  <2>3. ledger'[k].at = Cardinality(rows) + 1
    BY <1>7, <1>8
  <2>4. \A i, j \in rows : ledger[i].at = ledger[j].at => i = j
    BY DEF MoneyInv, TablesMoney, Ranked
  <2> HIDE DEF rows
  <2>5. \A j \in rows \union {k} : ledger'[j].at \in 1 .. Cardinality(rows) + 1
    BY <1>10, <2>1, <2>2, <2>3
  <2>6. \A i, j \in rows \union {k} : ledger'[i].at = ledger'[j].at => i = j
    BY <1>10, <2>1, <2>2, <2>3, <2>4
  <2> QED BY <1>11, <1>12, <2>5, <2>6 DEF Ranked
<1>14. AmountOf(RowsIn("succeeded"))' = AmountOf(RowsIn("succeeded"))
  <2>1. RowsIn("succeeded")' = RowsIn("succeeded") /\ RowsIn("succeeded") \in SUBSET Scopes
    BY <1>6, <1>7, <1>8 DEF RowsIn
  <2>2. \A j \in RowsIn("succeeded") : ledger'[j].amount = ledger[j].amount
    BY <1>6, <1>7 DEF RowsIn
  <2>3. AmountIn(ledger', RowsIn("succeeded")) = AmountIn(ledger, RowsIn("succeeded"))
    BY <1>9, <2>1, <2>2, AmountInSame
  <2> QED BY <2>1, <2>3 DEF AmountOf, AmountIn
<1>15. AmountOf(Live)' = a + AmountOf(Live)
  <2>1. Live' = Live \union {k} /\ k \notin Live /\ Live \in SUBSET Scopes
    BY <1>6, <1>7, <1>8 DEF RowsIn, Live
  <2>2. \A j \in Live : ledger'[j].amount = ledger[j].amount
    BY <1>7, <2>1
  <2>3. AmountIn(ledger', Live) = AmountIn(ledger, Live)
    BY <1>9, <2>1, <2>2, AmountInSame
  <2>4. (Live \union {k}) \ {k} = Live /\ Live \union {k} \in SUBSET Scopes
    BY <2>1
  <2>5. \A j \in Scopes : ledger'[j].amount \in Nat
    BY <1>5, <1>7, <1>8, <1>9
  <2>6. AmountIn(ledger', Live \union {k}) = ledger'[k].amount + AmountIn(ledger', (Live \union {k}) \ {k})
    <3> DEFINE H == ledger'  R == Live \union {k}
    <3>1. (\A j \in Scopes : H[j].amount \in Nat) /\ R \in SUBSET Scopes /\ k \in R
      BY <2>4, <2>5
    <3> HIDE DEF H, R
    <3>2. AmountIn(H, R) = H[k].amount + AmountIn(H, R \ {k})
      BY <1>9, <3>1, AmountInWithout
    <3> QED BY <3>2 DEF H, R
  <2> QED BY <1>7, <1>8, <2>1, <2>3, <2>4, <2>6 DEF AmountOf, AmountIn
<1>16. Books'
  <2>1. AmountOf(Live)' <= Lesser(GrandTotal, Captured)
    BY <1>1, <1>5, <1>15
  <2> QED BY <1>6, <1>14, <2>1 DEF Books, MoneyInv, TablesMoney
<1>17. RowMoney(k)'
  <2>1. moved[k] = 0 /\ booked[k] = 0
    BY <1>6 DEF MoneyInv, TablesMoney, RowMoney
  <2> QED BY <1>4, <1>5, <1>6, <1>7, <1>8, <1>10, <2>1 DEF RowMoney
<1>18. ASSUME NEW j \in Scopes, j # k PROVE RowMoney(j)'
  BY <1>6, <1>7, <1>18 DEF RowMoney, MoneyInv, TablesMoney
<1>19. TablesMoney'
  BY <1>6, <1>13, <1>16, <1>17, <1>18 DEF MoneyInv, TablesMoney
<1>20. SagaMoney(g)'
  <2>1. call.target = "refunded" => order'.refunded + call.gateway >= GrandTotal
    BY <1>1, <1>5, <1>6, <1>8 DEF DeriveStatus
  <2> QED BY <1>7, <1>8, <2>1 DEF SagaMoney, Completes
<1>21. ASSUME NEW h \in Sagas, h # g PROVE SagaMoney(h)'
  <2>1. saga[h].pc \in Driving => saga[h].scope \in Scopes /\ saga[h].scope # k
    BY <1>6 DEF IInv, DrivenAlone, Drives, Driving, Shape, GoodCall
  <2> QED BY <1>1, <1>6, <1>7, <1>9, <1>21, <2>1, SagaStays
<1>22. ASSUME NEW w \in Sweeps PROVE SweepMoney(w)'
  <2>1. sweep[w].batch \subseteq Scopes /\ k \notin sweep[w].batch
    BY <1>6 DEF IInv, Shape, GoodRun, SweptAged
  <2>2. \A j \in sweep[w].batch :
          /\ ledger'[j] = ledger[j] /\ moved'[j] = moved[j]
          /\ ledger[j].status \in {"pending", "succeeded"}
    BY <1>6, <1>7, <2>1 DEF MoneyInv, SweepMoney
  <2> QED BY <1>1, <1>6, <1>9, <2>1, <2>2, SweepStays
<1> QED BY <1>19, <1>20, <1>21, <1>22 DEF MoneyInv

LEMMA SagaStepMoney ==
  ASSUME IInv, ProviderAlone, MoneyInv, NEW g \in Sagas, SagaStep(g)
  PROVE  MoneyInv'
<1> DEFINE k == saga[g].scope
<1>1. /\ order.refunded \in Nat /\ SagaMoney(g)
      /\ saga[g].pc \in Driving => k \in Scopes /\ Drives(g, k)
  BY BalanceNat DEF MoneyInv, IInv, Shape, GoodCall, Drives, Driving
\* The step ends the call and touches no table.
<1>2. ASSUME NEW x \in {"done"}, Go(g, x), UNCHANGED <<refundTables, moved, sweep>>
      PROVE  MoneyInv'
  <2>1. saga'[g].pc = x /\ \A h \in Sagas : h # g => saga'[h] = saga[h]
    BY <1>2, GoKeeps DEF IInv
  <2>2. SagaMoney(g)'
    BY <2>1 DEF SagaMoney, Driving
  <2> QED BY <1>2, <2>1, <2>2, SagaMoves DEF refundTables
\* The provider answers, or the answer is lost.
<1>3. ASSUME saga[g].pc = "gateway", NEW x, Go(g, x), UNCHANGED <<refundTables, sweep>>,
             moved' = moved \/ moved' = MovedBy(k, saga[g].gateway),
             (x = "settle" /\ moved' = MovedBy(k, saga[g].gateway)) \/ x = "done"
      PROVE  MoneyInv'
  <2>1. /\ k \in Scopes /\ Drives(g, k) /\ saga[g].gateway = ledger[k].amount
        /\ ledger[k].status = "pending" /\ Completes(saga[g].target, saga[g].gateway)
    BY <1>1, <1>3 DEF SagaMoney, Driving
  <2>2. UNCHANGED <<order, ledger, booked, credited>>
    BY <1>3 DEF refundTables
  <2> HIDE DEF k
  <2>3. /\ TablesMoney'
        /\ moved' = MovedBy(k, ledger[k].amount) => moved'[k] = ledger[k].amount
        /\ \A j \in Scopes : j # k => moved'[j] = moved[j]
    BY <1>3, <2>1, <2>2, MoneyMoves
  <2>4. /\ saga'[g].pc = x /\ saga'[g].scope = k
        /\ saga'[g].gateway = saga[g].gateway /\ saga'[g].target = saga[g].target
        /\ \A h \in Sagas : h # g => saga'[h] = saga[h]
    BY <1>3, GoKeeps DEF IInv, k
  <2>5. SagaMoney(g)'
    BY <1>3, <2>1, <2>2, <2>3, <2>4 DEF SagaMoney, Driving, Completes
  <2>6. /\ \A h \in Sagas : h # g => SagaMoney(h)'
        /\ \A w \in Sweeps : SweepMoney(w)'
    BY <1>1, <1>3, <2>1, <2>2, <2>3, <2>4, OthersOfDriven
  <2> QED BY <2>3, <2>5, <2>6 DEF MoneyInv
<1>4. CASE SagaGatewayAccepts(g)
  BY <1>3, <1>4 DEF SagaGatewayAccepts
<1>5. CASE SagaGatewayRefuses(g)
  <2>1. /\ saga[g].pc = "gateway" /\ Go(g, "fail") /\ UNCHANGED <<refundTables, outside, sweep>>
        /\ Refuses(k, saga[g].gateway)
    BY <1>5 DEF SagaGatewayRefuses
  <2>2. /\ k \in Scopes /\ saga[g].gateway = ledger[k].amount
        /\ ledger[k].status = "pending" /\ Completes(saga[g].target, saga[g].gateway)
    BY <1>1, <2>1 DEF SagaMoney, Driving
  <2>3. moved[k] = 0
    <3>1. moved[k] \in Nat /\ moved[k] \in {0, ledger[k].amount}
      BY <2>2 DEF MoneyInv, TablesMoney, RowMoney
    <3>2. moved[k] > 0 => saga[g].gateway # moved[k]
      BY <2>1 DEF Refuses
    <3> QED BY <2>2, <3>1, <3>2
  <2>4. /\ saga'[g].pc = "fail" /\ saga'[g].scope = saga[g].scope
        /\ saga'[g].gateway = saga[g].gateway /\ saga'[g].target = saga[g].target
        /\ \A h \in Sagas : h # g => saga'[h] = saga[h]
    BY <2>1, GoKeeps DEF IInv
  <2>5. SagaMoney(g)'
    BY <2>1, <2>2, <2>3, <2>4 DEF SagaMoney, Completes, refundTables, outside
  <2> QED BY <2>1, <2>4, <2>5, SagaMoves DEF refundTables, outside
<1>6. CASE SagaGatewayLost(g)
  BY <1>3, <1>6 DEF SagaGatewayLost
<1>7. CASE SagaMarkFailed(g)
  <2>1. /\ saga[g].pc = "fail" /\ MarkFailed(k) /\ Go(g, "done")
        /\ UNCHANGED <<outside, sweep>>
    BY <1>7 DEF SagaMarkFailed
  <2>2. k \in Scopes /\ Drives(g, k) /\ ledger[k].status = "pending" /\ moved[k] = 0
    BY <1>1, <2>1 DEF SagaMoney, Driving
  <2> HIDE DEF k
  <2>3. moved' = moved
    BY <2>1 DEF outside
  <2>4. /\ TablesMoney' /\ order' = order
        /\ \A j \in Scopes : j # k => ledger'[j] = ledger[j]
    BY <2>1, <2>2, <2>3, FailMoney
  <2>5. saga'[g].pc = "done" /\ \A h \in Sagas : h # g => saga'[h] = saga[h]
    BY <2>1, GoKeeps DEF IInv
  <2>6. SagaMoney(g)'
    BY <2>5 DEF SagaMoney, Driving
  <2>7. /\ \A h \in Sagas : h # g => SagaMoney(h)'
        /\ \A w \in Sweeps : SweepMoney(w)'
    BY <1>1, <2>1, <2>2, <2>3, <2>4, <2>5, OthersOfDriven
  <2> QED BY <2>4, <2>6, <2>7 DEF MoneyInv
<1>8. CASE SagaSettle(g)
  <2> DEFINE x == IF saga[g].target = "refunded" THEN "cancel" ELSE "done"
  <2>1. /\ saga[g].pc = "settle" /\ Settle(k, saga[g].gateway, saga[g].target)
        /\ Go(g, x) /\ UNCHANGED <<outside, sweep>>
    BY <1>8, Zenon DEF SagaSettle
  <2>2. /\ k \in Scopes /\ Drives(g, k) /\ ledger[k].status = "pending"
        /\ saga[g].gateway = ledger[k].amount /\ moved[k] = ledger[k].amount
        /\ Completes(saga[g].target, ledger[k].amount)
    BY <1>1, <2>1 DEF SagaMoney, Driving
  <2>3. x \notin Driving
    BY DEF Driving
  <2> HIDE DEF k, x
  <2>4. moved' = moved
    BY <2>1 DEF outside
  <2>5. /\ TablesMoney'
        /\ \A j \in Scopes : j # k => ledger'[j] = ledger[j]
        /\ order'.refunded \in Nat /\ order'.refunded >= order.refunded
    BY <2>1, <2>2, <2>4, SettleMoney
  <2>6. saga'[g].pc = x /\ \A h \in Sagas : h # g => saga'[h] = saga[h]
    BY <2>1, GoKeeps DEF IInv
  <2>7. SagaMoney(g)'
    BY <2>3, <2>6 DEF SagaMoney
  <2>8. /\ \A h \in Sagas : h # g => SagaMoney(h)'
        /\ \A w \in Sweeps : SweepMoney(w)'
    BY <2>1, <2>2, <2>4, <2>5, <2>6, OthersOfDriven
  <2> QED BY <2>5, <2>7, <2>8 DEF MoneyInv
<1>9. CASE SagaSettleFails(g)
  BY <1>2, <1>9 DEF SagaSettleFails, outside
<1>10. CASE SagaCancelShipments(g)
  BY <1>2, <1>10 DEF SagaCancelShipments
<1>11. CASE SagaCrash(g)
  BY <1>2, <1>11 DEF SagaCrash, outside
<1> QED
  BY <1>4, <1>5, <1>6, <1>7, <1>8, <1>9, <1>10, <1>11 DEF SagaStep

\* A sweep leaves its row, whatever that row has become, and goes on.
LEMMA SweepLeaves ==
  ASSUME IInv, ProviderAlone, MoneyInv, NEW w \in Sweeps, NEW k \in Scopes,
         k \in sweep[w].batch, NextRow(w, k), saga' = saga, TablesMoney',
         \A j \in Scopes : j # k => ledger'[j] = ledger[j] /\ moved'[j] = moved[j],
         ledger'[k].at = ledger[k].at, ledger'[k].amount = ledger[k].amount,
         \A v \in Sweeps : v # w /\ k \in sweep[v].batch => Undisturbed(v, k),
         order'.refunded \in Nat, order'.refunded >= order.refunded
  PROVE  MoneyInv'
<1>1. sweep[w].batch \subseteq Scopes
  BY DEF IInv, Shape, GoodRun
<1>2. \A j \in sweep[w].batch \ {k} : ledger'[j].status \in {"pending", "succeeded"}
  BY <1>1 DEF MoneyInv, SweepMoney
<1>3. SweepMoney(w)' /\ \A v \in Sweeps : v # w => sweep'[v] = sweep[v]
  BY <1>2, NextRowMoney DEF IInv
<1>4. /\ \A g \in Sagas : SagaMoney(g)'
      /\ \A v \in Sweeps : v # w => SweepMoney(v)'
  BY <1>3, OthersOfSwept
<1> QED BY <1>3, <1>4 DEF MoneyInv

\* A sweep gets another record and the tables stay.
LEMMA SweepGets ==
  ASSUME IInv, MoneyInv, NEW w \in Sweeps, NEW r, sweep' = [sweep EXCEPT ![w] = r],
         UNCHANGED <<refundTables, moved, saga>>,
         r.pc \notin Driving, r.seen \in Nat, r.seen <= order.refunded, r.cards \in Nat,
         \A j \in r.batch : ledger[j].status \in {"pending", "succeeded"}
  PROVE  MoneyInv'
<1>1. sweep'[w] = r /\ \A v \in Sweeps : v # w => sweep'[v] = sweep[v]
  BY RunTaken DEF IInv
<1>2. UNCHANGED <<order, ledger, booked, credited>>
  BY DEF refundTables
<1>3. SweepMoney(w)'
  BY <1>1, <1>2, SweepReads
<1> QED BY <1>1, <1>2, <1>3, SweepMoves

LEMMA SweepSplitMoney ==
  ASSUME IInv, ProviderAlone, MoneyInv, NEW w \in Sweeps, NEW k \in Scopes, SweepSplit(w, k)
  PROVE  MoneyInv'
<1> DEFINE s == StateAtResume(w, k)
           a == ledger[k].amount
           r == Run("gateway", sweep[w].batch, 0, 0, a, DeriveStatus(sweep[w].seen, a))
<1>1. /\ order.refunded \in Nat /\ SumPending \in Nat /\ GrandTotal \in Nat
      /\ TotalApplied = 0
  BY BalanceNat
<1>2. /\ SweepMoney(w) /\ sweep[w].cards \in Nat /\ sweep[w].seen \in Nat
      /\ sweep[w].seen <= order.refunded
      /\ \A j \in sweep[w].batch : ledger[j].status \in {"pending", "succeeded"}
      /\ a \in Nat
  BY DEF MoneyInv, TablesMoney, SweepMoney, RowMoney
<1>3. s \in LedgerState /\ s.applied = 0
  BY <1>1, <1>2 DEF StateAtResume, LedgerState, ClampZero
<1>4. a > 0 /\ Split(s, a).gateway = a
  <2>1. Covers(s, a)
    BY DEF SweepSplit
  <2> HIDE DEF s, a
  <2> QED BY <1>2, <1>3, <2>1, SplitAlone
<1>5. /\ Turn(w, k) /\ sweep' = [sweep EXCEPT ![w] = r]
      /\ UNCHANGED <<refundTables, outside, saga>>
  BY <1>4, Zenon DEF SweepSplit
<1>6. /\ r.pc = "gateway" /\ r.batch = sweep[w].batch /\ r.seen = 0 /\ r.cards = 0
      /\ r.gateway = a /\ r.target = DeriveStatus(sweep[w].seen, a)
  BY DEF Run
<1> HIDE DEF r, s
<1>7. sweep'[w] = r /\ \A v \in Sweeps : v # w => sweep'[v] = sweep[v]
  BY <1>5, RunTaken DEF IInv
<1>8. UNCHANGED <<order, ledger, booked, credited, moved, saga>>
  BY <1>5 DEF refundTables, outside
<1>9. ASSUME NEW j \in Scopes, Turn(w, j)' PROVE j = k
  <2>1. Turn(w, j)
    BY <1>6, <1>7, <1>8, <1>9 DEF Turn
  <2> QED BY <1>5, <2>1, OneTurn
<1>10. r.target = "refunded" => order.refunded + a >= GrandTotal
  BY <1>1, <1>2, <1>6 DEF DeriveStatus
<1>11. SweepMoney(w)'
  BY <1>1, <1>2, <1>6, <1>7, <1>8, <1>9, <1>10 DEF SweepMoney, Completes
<1> QED BY <1>7, <1>8, <1>11, SweepMoves

\* The provider's answer reaches the sweep.
LEMMA SweepAnswered ==
  ASSUME IInv, ProviderAlone, ~raced', MoneyInv, NEW w \in Sweeps, NEW k \in Scopes,
         SweepGatewayAccepts(w, k) \/ SweepGatewayRefuses(w, k)
  PROVE  MoneyInv'
<1>1. /\ Turn(w, k) /\ sweep[w].pc = "gateway" /\ k \in sweep[w].batch
      /\ sweep[w].batch \subseteq Scopes /\ saga' = saga
      /\ UNCHANGED <<order, ledger, booked, credited>>
  BY DEF SweepGatewayAccepts, SweepGatewayRefuses, Turn, IInv, Shape, GoodRun, refundTables
<1>2. /\ SweepMoney(w) /\ sweep[w].gateway = ledger[k].amount
      /\ Completes(sweep[w].target, sweep[w].gateway)
      /\ ledger[k].status \in {"pending", "succeeded"}
  BY <1>1 DEF MoneyInv, SweepMoney
<1>3. order.refunded \in Nat
  BY BalanceNat
<1>4. CASE SweepGatewayAccepts(w, k)
  <2>1. moved' = MovedBy(k, ledger[k].amount) /\ GoTo(w, "settle")
    BY <1>2, <1>4 DEF SweepGatewayAccepts
  <2>2. /\ TablesMoney' /\ moved'[k] = ledger[k].amount
        /\ \A j \in Scopes : j # k => moved'[j] = moved[j]
    BY <1>1, <1>2, <2>1, MoneyMoves
  <2>3. /\ sweep'[w].pc = "settle" /\ sweep'[w].batch = sweep[w].batch
        /\ sweep'[w].seen = sweep[w].seen /\ sweep'[w].cards = sweep[w].cards
        /\ sweep'[w].gateway = sweep[w].gateway /\ sweep'[w].target = sweep[w].target
        /\ \A v \in Sweeps : v # w => sweep'[v] = sweep[v]
    BY <2>1, GoToKeeps DEF IInv
  <2>4. ASSUME NEW j \in Scopes, Turn(w, j)' PROVE j = k
    <3>1. Turn(w, j)
      BY <1>1, <2>3, <2>4 DEF Turn
    <3> QED BY <1>1, <3>1, OneTurn
  <2>5. SweepMoney(w)'
    BY <1>1, <1>2, <2>2, <2>3, <2>4 DEF SweepMoney, Completes
  <2>6. \A v \in Sweeps : v # w => ~(Turn(v, k) /\ sweep[v].pc = "fail")
    BY <1>4 DEF SweepGatewayAccepts, RefusedBefore
  <2>7. ASSUME NEW v \in Sweeps, v # w PROVE Undisturbed(v, k)
    BY <1>1, <1>2, <2>2, <2>6, <2>7 DEF Undisturbed
  <2>8. /\ \A g \in Sagas : SagaMoney(g)'
        /\ \A v \in Sweeps : v # w => SweepMoney(v)'
    BY <1>1, <1>2, <1>3, <2>2, <2>3, <2>7, OthersOfSwept
  <2> QED BY <2>2, <2>5, <2>8 DEF MoneyInv
<1>5. CASE SweepGatewayRefuses(w, k)
  <2>1. /\ GoTo(w, "fail") /\ Refuses(k, ledger[k].amount) /\ moved' = moved
    BY <1>2, <1>5 DEF SweepGatewayRefuses, outside
  <2>2. moved[k] = 0
    <3>1. moved[k] \in Nat /\ moved[k] \in {0, ledger[k].amount}
      BY <1>2 DEF MoneyInv, TablesMoney, RowMoney
    <3>2. moved[k] > 0 => ledger[k].amount # moved[k]
      BY <2>1 DEF Refuses
    <3> QED BY <3>1, <3>2
  <2>3. ledger[k].status = "pending"
    BY <1>2, <2>2, RoomAtProvider DEF IInv
  <2>5. /\ sweep'[w].pc = "fail" /\ sweep'[w].batch = sweep[w].batch
        /\ sweep'[w].seen = sweep[w].seen /\ sweep'[w].cards = sweep[w].cards
        /\ \A v \in Sweeps : v # w => sweep'[v] = sweep[v]
    BY <2>1, GoToKeeps DEF IInv
  <2>6. ASSUME NEW j \in Scopes, Turn(w, j)' PROVE j = k
    <3>1. Turn(w, j)
      BY <1>1, <2>5, <2>6 DEF Turn
    <3> QED BY <1>1, <3>1, OneTurn
  <2>7. SweepMoney(w)'
    BY <1>1, <1>2, <2>1, <2>2, <2>3, <2>5, <2>6 DEF SweepMoney
  <2> QED BY <1>1, <2>1, <2>5, <2>7, SweepMoves
<1> QED BY <1>4, <1>5

LEMMA SweepStepMoney ==
  ASSUME IInv, ProviderAlone, ~raced', MoneyInv, NEW w \in Sweeps, NEW k \in Scopes,
         SweepStep(w, k)
  PROVE  MoneyInv'
<1>1. /\ Turn(w, k) /\ k \in sweep[w].batch /\ sweep[w].batch \subseteq Scopes /\ saga' = saga
  BY DEF SweepStep, SweepLoadOrder, SweepReadCards, SweepSplit, SweepSkip, SweepGatewayAccepts,
         SweepGatewayRefuses, SweepGatewayLost, SweepMarkFailed, SweepSettle, Turn, IInv, Shape, GoodRun
<1>2. /\ order.refunded \in Nat /\ TotalCredited = 0 /\ SweepMoney(w)
      /\ \A j \in sweep[w].batch : ledger[j].status \in {"pending", "succeeded"}
      /\ sweep[w].cards \in Nat /\ sweep[w].seen \in Nat /\ sweep[w].seen <= order.refunded
  BY BalanceNat DEF MoneyInv, SweepMoney
\* The row is left as it is.
<1>3. ASSUME NextRow(w, k), UNCHANGED refundTables,
             \/ moved' = moved
             \/ moved' = MovedBy(k, ledger[k].amount) /\ ~RefusedBefore(w, k)
      PROVE  MoneyInv'
  <2>1. UNCHANGED <<order, ledger, booked, credited>>
    BY <1>3 DEF refundTables
  <2>2. /\ TablesMoney' /\ moved'[k] \in {moved[k], ledger[k].amount}
        /\ \A j \in Scopes : j # k => moved'[j] = moved[j]
    BY <1>1, <1>2, <1>3, <2>1, MoneyMoves
  <2>3. ASSUME NEW v \in Sweeps, v # w PROVE Undisturbed(v, k)
    BY <1>1, <1>2, <1>3, <2>1, <2>2, <2>3 DEF Undisturbed, RefusedBefore
  <2> QED BY <1>1, <1>2, <1>3, <2>1, <2>2, <2>3, SweepLeaves
<1>4. CASE SweepLoadOrder(w, k)
  <2> DEFINE r == Resuming(w, "cards", order.refunded, 0)
  <2>1. sweep' = [sweep EXCEPT ![w] = r] /\ UNCHANGED <<refundTables, moved, saga>>
    BY <1>4 DEF SweepLoadOrder, outside
  <2>2. r.pc = "cards" /\ r.seen = order.refunded /\ r.cards = 0 /\ r.batch = sweep[w].batch
    BY DEF Resuming, Run
  <2> HIDE DEF r
  <2>3. /\ r.pc \notin Driving /\ r.seen \in Nat /\ r.seen <= order.refunded /\ r.cards \in Nat
        /\ \A j \in r.batch : ledger[j].status \in {"pending", "succeeded"}
    BY <1>2, <2>2 DEF Driving
  <2> QED BY <2>1, <2>3, SweepGets
<1>5. CASE SweepReadCards(w, k)
  <2> DEFINE r == Resuming(w, "split", sweep[w].seen, TotalCredited)
  <2>1. sweep' = [sweep EXCEPT ![w] = r] /\ UNCHANGED <<refundTables, moved, saga>>
    BY <1>5 DEF SweepReadCards, outside
  <2>2. /\ r.pc = "split" /\ r.seen = sweep[w].seen /\ r.cards = TotalCredited
        /\ r.batch = sweep[w].batch
    BY DEF Resuming, Run
  <2> HIDE DEF r
  <2>3. /\ r.pc \notin Driving /\ r.seen \in Nat /\ r.seen <= order.refunded /\ r.cards \in Nat
        /\ \A j \in r.batch : ledger[j].status \in {"pending", "succeeded"}
    BY <1>2, <2>2 DEF Driving
  <2> QED BY <2>1, <2>3, SweepGets
<1>6. CASE SweepSplit(w, k)
  BY <1>6, SweepSplitMoney
<1>7. CASE SweepSkip(w, k)
  BY <1>3, <1>7 DEF SweepSkip, outside
<1>8. CASE SweepGatewayAccepts(w, k) \/ SweepGatewayRefuses(w, k)
  BY <1>8, SweepAnswered
<1>9. CASE SweepGatewayLost(w, k)
  <2>1. sweep[w].gateway = ledger[k].amount
    BY <1>2, <1>9 DEF SweepGatewayLost, SweepMoney
  <2>2. \/ moved' = moved
        \/ moved' = MovedBy(k, ledger[k].amount) /\ ~RefusedBefore(w, k)
    BY <1>9, <2>1 DEF SweepGatewayLost
  <2> QED BY <1>3, <1>9, <2>2 DEF SweepGatewayLost
<1>10. CASE SweepMarkFailed(w, k)
  <2>1. /\ sweep[w].pc = "fail" /\ MarkFailed(k) /\ NextRow(w, k) /\ moved' = moved
    BY <1>10 DEF SweepMarkFailed
  <2>2. ledger[k].status = "pending" /\ moved[k] = 0
    BY <1>1, <1>2, <2>1 DEF SweepMoney
  <2>3. /\ TablesMoney' /\ order' = order
        /\ ledger'[k].amount = ledger[k].amount /\ ledger'[k].at = ledger[k].at
        /\ \A j \in Scopes : j # k => ledger'[j] = ledger[j]
    BY <2>1, <2>2, FailMoney
  <2>4. \A v \in Sweeps : v # w => k \notin sweep[v].batch
    BY <1>10, <2>2 DEF SweepMarkFailed, SharedWith
  <2> QED BY <1>1, <1>2, <2>1, <2>3, <2>4, SweepLeaves
<1>11. CASE SweepSettle(w, k)
  <2>1. sweep[w].pc = "settle" /\ NextRow(w, k) /\ moved' = moved
    BY <1>11 DEF SweepSettle, outside
  <2>2. /\ sweep[w].gateway = ledger[k].amount /\ moved[k] = ledger[k].amount
        /\ Completes(sweep[w].target, ledger[k].amount)
    BY <1>1, <1>2, <2>1 DEF SweepMoney
  <2>3. CASE UNCHANGED refundTables
    BY <1>3, <2>1, <2>3
  <2>4. CASE ledger[k].status = "pending" /\ Settle(k, sweep[w].gateway, sweep[w].target)
    <3>1. /\ TablesMoney'
          /\ ledger'[k].status = "succeeded" /\ ledger'[k].amount = ledger[k].amount
          /\ ledger'[k].at = ledger[k].at
          /\ \A j \in Scopes : j # k => ledger'[j] = ledger[j]
          /\ order'.refunded \in Nat /\ order'.refunded >= order.refunded
      BY <2>1, <2>2, <2>4, SettleMoney
    <3>2. moved[k] > 0
      BY <1>1, <2>2, <2>4 DEF MoneyInv, TablesMoney, RowMoney
    <3>3. ASSUME NEW v \in Sweeps, v # w PROVE Undisturbed(v, k)
      <4>1. ~(Turn(v, k) /\ sweep[v].pc = "fail")
        BY <1>1, <3>2 DEF MoneyInv, SweepMoney
      <4> QED BY <2>1, <3>1, <4>1 DEF Undisturbed
    <3> QED BY <1>1, <2>1, <3>1, <3>3, SweepLeaves
  <2> QED BY <1>11, <2>3, <2>4 DEF SweepSettle
<1> QED
  BY <1>4, <1>5, <1>6, <1>7, <1>8, <1>9, <1>10, <1>11 DEF SweepStep

LEMMA NextMoney ==
  ASSUME IInv, ProviderAlone, ~raced', MoneyInv, [RefundNext]_refundVars
  PROVE  MoneyInv'
<1>1. order.refunded \in Nat
  BY BalanceNat
\* Nothing the invariant speaks of changes.
<1>2. ASSUME UNCHANGED <<refundTables, moved, saga, sweep>> PROVE MoneyInv'
  <2>1. UNCHANGED <<order, ledger, booked, credited>>
    BY <1>2 DEF refundTables
  <2>2. Books' /\ Ranked' /\ \A k \in Scopes : RowMoney(k)'
    BY <1>2, <2>1 DEF MoneyInv, TablesMoney, Books, Ranked, RowMoney, AmountOf, RowsIn, Live
  <2>3. \A g \in Sagas : SagaMoney(g)'
    BY <1>2, <2>1 DEF MoneyInv, SagaMoney, Completes
  <2>4. \A w \in Sweeps : SweepMoney(w)'
    BY <1>2, <2>1 DEF MoneyInv, SweepMoney, Turn, Completes
  <2> QED BY <1>2, <2>1, <2>2, <2>3, <2>4 DEF MoneyInv, TablesMoney
<1>3. ASSUME NEW g \in Sagas, NEW k \in Scopes, SagaReplay(g, k) \/ SagaRefused(g, k)
      PROVE  MoneyInv'
  <2>1. PICK x \in {"done", "conflict"} : saga' = [saga EXCEPT ![g] = Call(x, k, 0, "paid")]
    BY <1>3 DEF SagaReplay, SagaRefused
  <2>2. saga'[g] = Call(x, k, 0, "paid") /\ \A h \in Sagas : h # g => saga'[h] = saga[h]
    BY <2>1 DEF IInv, Shape
  <2>3. SagaMoney(g)'
    BY <2>2 DEF SagaMoney, Driving, Call
  <2> QED BY <1>3, <2>2, <2>3, SagaMoves DEF SagaReplay, SagaRefused, refundTables, outside
<1>4. ASSUME NEW w \in Sweeps, SweepClaim(w) PROVE MoneyInv'
  <2> DEFINE r == Run("load", Resumable, 0, 0, 0, "paid")
  <2>1. sweep' = [sweep EXCEPT ![w] = r] /\ UNCHANGED <<refundTables, moved, saga>>
    BY <1>4 DEF SweepClaim, outside
  <2>2. r.pc = "load" /\ r.seen = 0 /\ r.cards = 0 /\ r.batch = Resumable
    BY DEF Run
  <2>3. \A j \in Resumable : ledger[j].status \in {"pending", "succeeded"}
    BY DEF Resumable
  <2> HIDE DEF r
  <2>4. /\ r.pc \notin Driving /\ r.seen \in Nat /\ r.seen <= order.refunded /\ r.cards \in Nat
        /\ \A j \in r.batch : ledger[j].status \in {"pending", "succeeded"}
    BY <1>1, <2>2, <2>3 DEF Driving
  <2> QED BY <2>1, <2>4, SweepGets
<1>5. ASSUME NEW w \in Sweeps, SweepCrash(w) PROVE MoneyInv'
  <2>1. sweep' = [sweep EXCEPT ![w] = NoSweep] /\ UNCHANGED <<refundTables, moved, saga>>
    BY <1>5 DEF SweepCrash, outside
  <2>2. NoSweep.pc = "idle" /\ NoSweep.seen = 0 /\ NoSweep.cards = 0 /\ NoSweep.batch = {}
    BY DEF NoSweep, Run
  <2> DEFINE r == NoSweep
  <2>3. /\ r.pc \notin Driving /\ r.seen \in Nat /\ r.seen <= order.refunded /\ r.cards \in Nat
        /\ \A j \in r.batch : ledger[j].status \in {"pending", "succeeded"}
    BY <1>1, <2>2 DEF Driving
  <2> HIDE DEF r
  <2>4. sweep' = [sweep EXCEPT ![w] = r]
    BY <2>1 DEF r
  <2> QED BY <2>1, <2>3, <2>4, SweepGets
<1>6. ASSUME NEW k \in Scopes, Age(k) PROVE MoneyInv'
  BY <1>2, <1>6 DEF Age
\* An event that is not the first to answer finds nothing to mark.
<1>7. ASSUME NEW k \in Scopes, RefundEvent(k) PROVE MoneyInv'
  <2>1. RowsIn("pending") = {} /\ RowsIn("failed") = {}
    BY <1>7 DEF RefundEvent
  <2>2. /\ ledger' = [r \in Scopes |-> IF ledger[r].status = "none" THEN ledger[r]
                                       ELSE [ledger[r] EXCEPT !.status = "succeeded"]]
        /\ UNCHANGED <<order, credited, voided, booked, settled, moved, saga, sweep>>
    BY <1>7 DEF RefundEvent
  <2>3. ASSUME NEW r \in Scopes
        PROVE  (IF ledger[r].status = "none" THEN ledger[r]
                ELSE [ledger[r] EXCEPT !.status = "succeeded"]) = ledger[r]
    <3>1. GoodRow(ledger[r]) /\ ledger[r].status \in {"none", "succeeded"}
      BY <2>1 DEF IInv, Shape, GoodRow, LedgerStatuses, RowsIn
    <3>2. CASE ledger[r].status = "succeeded"
      BY <3>1, <3>2 DEF GoodRow
    <3> QED BY <3>1, <3>2
  <2>4. ledger = [r \in Scopes |-> ledger[r]]
    BY DEF IInv, Shape
  <2>5. ledger' = ledger
    BY <2>2, <2>3, <2>4
  <2> QED BY <1>2, <2>2, <2>5 DEF refundTables
<1>8. Cards = {}
  BY NoCards
<1>9. ASSUME UNCHANGED refundVars PROVE MoneyInv'
  BY <1>2, <1>9 DEF refundVars, outside
<1> QED
  BY <1>3, <1>4, <1>5, <1>6, <1>7, <1>8, <1>9, ReserveMoney, SagaStepMoney, SweepStepMoney DEF RefundNext

LEMMA StartsMoney ==
  ASSUME ProviderAlone, RefundInit
  PROVE  MoneyInv
<1>1. GrandTotal \in Nat /\ Captured \in Nat
  BY RefundAssumption DEF RefundAssumption
<1>2. Live = {} /\ RowsIn("succeeded") = {} /\ Scopes \ RowsIn("none") = {}
  BY DEF RefundInit, Live, RowsIn
<1>3. AmountOf({}) = 0
  BY SumEmpty DEF AmountOf
<1>4. Books
  BY <1>1, <1>2, <1>3 DEF RefundInit, Books, Lesser
<1>5. Ranked
  BY <1>2 DEF Ranked
<1>6. \A k \in Scopes : RowMoney(k)
  BY DEF RefundInit, RowMoney
<1>7. moved \in [Scopes -> Nat] /\ booked \in [Scopes -> Nat] /\ DOMAIN credited = {}
  BY NoCards DEF RefundInit
<1>8. \A g \in Sagas : SagaMoney(g)
  BY DEF RefundInit, NoSaga, Call, SagaMoney, Driving
<1>9. \A w \in Sweeps : SweepMoney(w)
  <2>1. NoSweep.pc = "idle" /\ NoSweep.seen = 0 /\ NoSweep.cards = 0 /\ NoSweep.batch = {}
    BY DEF NoSweep, Run
  <2>2. \A w \in Sweeps : sweep[w] = NoSweep
    BY DEF RefundInit
  <2>3. order.refunded = 0
    BY DEF RefundInit
  <2> QED BY <2>1, <2>2, <2>3 DEF SweepMoney, Turn
<1> QED BY <1>4, <1>5, <1>6, <1>7, <1>8, <1>9 DEF MoneyInv, TablesMoney

\* What the invariant says of the promises.
LEMMA MoneyIsWithin ==
  ASSUME ProviderAlone, IInv, MoneyInv
  PROVE  WithinCapture
<1>1. ReservedWithinBalance
  <2>1. /\ GrandTotal \in Nat /\ Captured \in Nat /\ TotalApplied = 0
        /\ AmountOf(Live) <= Lesser(GrandTotal, Captured)
    BY BalanceNat DEF MoneyInv, TablesMoney, Books
  <2>2. Lesser(GrandTotal, Captured) + TotalApplied = Lesser(GrandTotal, Captured)
    BY <2>1 DEF Lesser
  <2> QED BY <2>1, <2>2 DEF ReservedWithinBalance, Live
<1>2. ASSUME NEW g \in Sagas, saga[g].pc = "gateway", moved[saga[g].scope] = 0
      PROVE  saga[g].gateway <= Captured - TotalMoved
  <2>1. saga[g].scope \in Scopes
    BY <1>2 DEF IInv, Shape, GoodCall, Driving
  <2>2. ledger[saga[g].scope].status = "pending" /\ saga[g].gateway = ledger[saga[g].scope].amount
    BY <1>2 DEF MoneyInv, SagaMoney, Driving
  <2> QED BY <1>2, <2>1, <2>2, RoomAtProvider DEF IInv
<1>3. ASSUME NEW w \in Sweeps, NEW k \in Scopes, Turn(w, k), sweep[w].pc = "gateway", moved[k] = 0
      PROVE  sweep[w].gateway <= Captured - TotalMoved
  <2>1. ledger[k].status \in {"pending", "succeeded"} /\ sweep[w].gateway = ledger[k].amount
    BY <1>3 DEF MoneyInv, SweepMoney, Turn
  <2> QED BY <1>3, <2>1, RoomAtProvider DEF IInv
<1> QED BY <1>1, <1>2, <1>3 DEF WithinCapture, RequestsWithinCapture

\* What it says of the books.
LEMMA MoneyIsBooked ==
  ASSUME ProviderAlone, IInv, MoneyInv
  PROVE  BookedExactly
<1>1. ASSUME NEW k \in Scopes
      PROVE  /\ booked[k] <= moved[k]
             /\ ledger[k].status \in {"succeeded", "failed"} => booked[k] >= moved[k]
  BY DEF IInv, Shape, GoodRow, LedgerStatuses, MoneyInv, TablesMoney, RowMoney
<1>2. RefundedMeansAll
  BY DEF RefundedMeansAll, MoneyInv, TablesMoney, Books
<1> QED BY <1>1, <1>2 DEF BookedExactly, NeverLost, NeverDoubled, RowsIn

\* Once two actors have answered for one refund, that is on record for good.
LEMMA RacedStays ==
  ASSUME raced, [RefundNext]_refundVars
  PROVE  raced'
<1>1. CASE UNCHANGED refundVars
  BY <1>1 DEF refundVars, outside
<1>2. ASSUME NEW g \in Sagas, NEW k \in Scopes,
             SagaReplay(g, k) \/ SagaRefused(g, k) \/ SagaReserve(g, k)
      PROVE  raced'
  BY <1>2 DEF SagaReplay, SagaRefused, SagaReserve, outside
<1>3. ASSUME NEW g \in Sagas, SagaStep(g) PROVE raced'
  BY <1>3 DEF SagaStep, SagaGatewayAccepts, SagaGatewayRefuses, SagaGatewayLost, SagaMarkFailed,
              SagaSettle, SagaSettleFails, SagaCancelShipments, SagaCrash, outside
<1>4. ASSUME NEW w \in Sweeps, SweepClaim(w) \/ SweepCrash(w) PROVE raced'
  BY <1>4 DEF SweepClaim, SweepCrash, outside
<1>5. ASSUME NEW w \in Sweeps, NEW k \in Scopes, SweepStep(w, k) PROVE raced'
  BY <1>5 DEF SweepStep, SweepLoadOrder, SweepReadCards, SweepSplit, SweepSkip, SweepGatewayAccepts,
              SweepGatewayRefuses, SweepGatewayLost, SweepMarkFailed, SweepSettle, outside
<1>6. ASSUME NEW k \in Scopes, Age(k) \/ RefundEvent(k) PROVE raced'
  BY <1>6 DEF Age, RefundEvent
<1>7. ASSUME NEW c \in Cards, VoidCard(c) PROVE raced'
  BY <1>7 DEF VoidCard, outside
<1> QED BY <1>1, <1>2, <1>3, <1>4, <1>5, <1>6, <1>7 DEF RefundNext

LEMMA MoneyKept ==
  ASSUME ProviderAlone
  PROVE  RefundSpec => [](raced \/ (IInv /\ MoneyInv))
<1> DEFINE Inv == raced \/ (IInv /\ MoneyInv)
<1>1. RefundInit => Inv
  BY StartsWell, StartsMoney
<1>2. ASSUME Inv, [RefundNext]_refundVars PROVE Inv'
  <2>1. CASE raced
    BY <1>2, <2>1, RacedStays
  <2>2. CASE ~raced /\ ~raced'
    BY <1>2, <2>2, StepKeeps, NextMoney
  <2> QED BY <2>1, <2>2
<1> QED BY <1>1, <1>2, PTL DEF RefundSpec

\* An order paid through the provider alone, whose events may name it, whose sagas
\* may outlive the sweeper's cutoff, and with any number of sweeps at once: until two
\* actors have answered for one refund ('raced'), refunds that were asked for at once,
\* resumed, cut off by crashes, refused or left without an answer never promise more
\* than the provider captured, and nobody asks it for more than it still holds
\* (Coordinator.Refund, ResumePending).
THEOREM PromisedWithinCapture ==
  ASSUME ProviderAlone
  PROVE  RefundSpec => []WithinCapture
<1>1. raced \/ (IInv /\ MoneyInv) => WithinCapture
  BY MoneyIsWithin DEF WithinCapture
<1> QED BY <1>1, MoneyKept, PTL

\* The same orders: until then what the provider returned under a refund's key is
\* booked once, no row leaves the sweeper's sight before, and the order reads
\* 'refunded' only when its whole total came back, although every finalizer derived
\* the status from a balance it read earlier (RecordRefund, MarkRefundFailed).
THEOREM MoneyBookedOnce ==
  ASSUME ProviderAlone
  PROVE  RefundSpec => []BookedExactly
<1>1. raced \/ (IInv /\ MoneyInv) => BookedExactly
  BY MoneyIsBooked DEF BookedExactly
<1> QED BY <1>1, MoneyKept, PTL
=============================================================================
