------------------------------- MODULE GiftCard -------------------------------
(***************************************************************************)
(* One gift card (internal/giftcard): issued by the merchant or bought     *)
(* through a payment provider, whose webhooks activate it and report       *)
(* refunds of its purchase; spent by checkouts, credited by refunds of the *)
(* orders it paid for.  Each operation is one statement or one short       *)
(* transaction on the card's row and waits for whoever has it locked.      *)
(***************************************************************************)
EXTENDS Requests

CONSTANT InitialBalance  \* what the card is worth

ASSUME GiftCardAssumption == InitialBalance \in Nat \ {0}

VARIABLES
  card,         \* status, current_balance, refunded_amount; is the session id stored?
  cardHolder,   \* the transaction that has the row locked
  cardLedger,   \* gift_card_transactions: the sum of each type
  spent,        \* what the card paid for a request's order, and still counts as paid
  provider,     \* external: was the purchase paid for, and what was refunded of it
  early         \* history: refunded value that was applied before the card was funded
cardVars == <<card, cardHolder, cardLedger, spent, provider, early>>

NoCard == [status |-> "absent", balance |-> 0, refunded |-> 0, linked |-> FALSE]
IssuedCard == [NoCard EXCEPT !.status = "active", !.balance = InitialBalance]
EmptyLedger == [purchase |-> 0, redeem |-> 0, refund |-> 0, clawback |-> 0]
Funded == [EmptyLedger EXCEPT !.purchase = InitialBalance]

CardInit ==
  /\ \/ card = NoCard /\ cardLedger = EmptyLedger
     \/ card = IssuedCard /\ cardLedger = Funded
  /\ cardHolder = Nobody
  /\ spent = [c \in Checkouts |-> 0]
  /\ provider = [paid |-> FALSE, refunds |-> {0}] /\ early = 0

RowFree == cardHolder = Nobody

Issue ==
  /\ card.status = "absent"
  /\ card' = IssuedCard /\ cardLedger' = Funded
  /\ UNCHANGED <<cardHolder, spent, provider, early>>

\* The pending row commits first; asking for the session and storing its id
\* may each fail, which leaves a card no event can find.
Purchase(linked) ==
  /\ card.status = "absent"
  /\ card' = [NoCard EXCEPT !.status = "pending", !.linked = linked]
  /\ UNCHANGED <<cardHolder, cardLedger, spent, provider, early>>

\* The buyer pays; the provider refunds part or all of it.  Its events carry
\* the total refunded so far and arrive late, again, or out of order.
ProviderPays ==
  /\ card.status = "pending" /\ ~provider.paid
  /\ provider' = [provider EXCEPT !.paid = TRUE]
  /\ UNCHANGED <<card, cardHolder, cardLedger, spent, early>>

ProviderRefunds(total) ==
  /\ provider.paid /\ \A t \in provider.refunds : t < total
  /\ provider' = [provider EXCEPT !.refunds = @ \union {total}]
  /\ UNCHANGED <<card, cardHolder, cardLedger, spent, early>>

\* Mutant: a redelivered payment event funds the card again.
KnownCard == card.status # "absent"

AwaitsPayment == card.status = "pending"

ActivateAfterPayment ==
  /\ provider.paid /\ card.linked /\ RowFree /\ AwaitsPayment
  /\ card' = [card EXCEPT !.status = "active", !.balance = InitialBalance]
  /\ cardLedger' = [cardLedger EXCEPT !.purchase = @ + InitialBalance]
  /\ UNCHANGED <<cardHolder, spent, provider, early>>

\* Mutant: the event's total is taken for this refund's amount.
WholeTotal(total) == IF total > card.refunded THEN total ELSE 0

\* What this event adds to what was refunded before; nothing to do at 0.
Delta(total) == IF total > card.refunded THEN total - card.refunded ELSE 0

Lesser(a, b) == IF a < b THEN a ELSE b

\* purchaseRefundFor: a full refund takes the balance, a partial one what is new.
Clawback(total) ==
  IF total = InitialBalance THEN card.balance ELSE Lesser(Delta(total), card.balance)

\* newStatusFor.
StatusAfter(total) ==
  CASE total = InitialBalance -> "refunded"
    [] card.status = "active" /\ card.balance = Clawback(total) -> "depleted"
    [] OTHER -> card.status

ApplyPurchaseRefund(total) ==
  /\ total \in provider.refunds /\ card.linked /\ RowFree
  /\ card.status # "refunded" /\ Delta(total) > 0
  /\ card' = [card EXCEPT !.status = StatusAfter(total),
                          !.balance = @ - Clawback(total),
                          !.refunded = total]
  /\ IF card.status = "pending"
       THEN early' = early + Delta(total) /\ UNCHANGED cardLedger
       ELSE /\ cardLedger' = [cardLedger EXCEPT !.clawback = @ + Clawback(total)]
            /\ UNCHANGED early
  /\ UNCHANGED <<cardHolder, spent, provider>>

\* The merchant disables and enables the card.
SetStatus(from, to) ==
  /\ RowFree /\ card.status = from
  /\ card' = [card EXCEPT !.status = to]
  /\ UNCHANGED <<cardHolder, cardLedger, spent, provider, early>>

\* CreditInTx, when an order the card paid for is refunded.
CreditOrder(c) ==
  /\ RowFree /\ spent[c] > 0 /\ card.status # "refunded"
  /\ card' = [card EXCEPT !.balance = @ + spent[c],
                          !.status = IF @ = "depleted" THEN "active" ELSE @]
  /\ cardLedger' = [cardLedger EXCEPT !.refund = @ + spent[c]]
  /\ spent' = [spent EXCEPT ![c] = 0]
  /\ UNCHANGED <<cardHolder, provider, early>>

CardEvents ==
  \/ Issue \/ Purchase(TRUE) \/ Purchase(FALSE) \/ ProviderPays \/ ActivateAfterPayment
  \/ \E total \in 1..InitialBalance : ProviderRefunds(total) \/ ApplyPurchaseRefund(total)
  \/ SetStatus("active", "disabled") \/ SetStatus("disabled", "active")
  \/ \E c \in Checkouts : CreditOrder(c)

-----------------------------------------------------------------------------
(* The part a checkout plays; see Checkout. *)

\* CheckBalance: an unusable card reads as unknown.
Redeemable == card.status \in {"active", "depleted"}

\* Mutant: the UPDATE has lost its guard on the balance.
CanDebitUnguarded(amount) == card.status = "active" /\ amount > 0

\* The WHERE clause of the debit.
CanDebit(amount) == card.status = "active" /\ card.balance >= amount

Debit(c, amount) ==
  /\ RowFree /\ CanDebit(amount)
  /\ cardHolder' = c
  /\ UNCHANGED <<card, cardLedger, spent, provider, early>>

CardRollback(c) ==
  /\ cardHolder' = IF cardHolder = c THEN Nobody ELSE cardHolder
  /\ UNCHANGED <<card, cardLedger, spent, provider, early>>

CardCommit(c, amount) ==
  IF cardHolder # c THEN UNCHANGED cardVars
  ELSE /\ card' = [card EXCEPT !.balance = @ - amount,
                               !.status = IF card.balance = amount THEN "depleted" ELSE @]
       /\ cardLedger' = [cardLedger EXCEPT !.redeem = @ + amount]
       /\ spent' = [spent EXCEPT ![c] = amount]
       /\ cardHolder' = Nobody
       /\ UNCHANGED <<provider, early>>

-----------------------------------------------------------------------------
(* Properties *)

CardTypeOK ==
  /\ card.status \in {"absent", "pending", "active", "disabled", "depleted", "refunded"}
  /\ card.balance \in 0..InitialBalance /\ card.refunded \in 0..InitialBalance
  /\ cardHolder \in Checkouts \union {Nobody}

\* The balance is what the ledger says, and the ledger's redemptions are the
\* orders' card payments that were not given back.
LedgerExplains ==
  /\ card.balance =
       cardLedger.purchase - cardLedger.redeem + cardLedger.refund - cardLedger.clawback
  /\ cardLedger.redeem - cardLedger.refund = Total(spent, Checkouts)

\* A card nobody paid for is worth nothing, and money paid once funds it once.
PaidForFirst ==
  /\ card.status = "pending" => card.balance = 0 /\ cardLedger = EmptyLedger
  /\ cardLedger.purchase <= InitialBalance

\* Redelivered and reordered refund events take no value twice: what they took
\* never exceeds what the provider returned to the buyer.
TakenOnce ==
  /\ cardLedger.clawback <= card.refunded
  /\ card.refunded \in provider.refunds

\* The card is not spendable and refunded both.
VoidIsEmpty == card.status = "refunded" => card.balance = 0

\* Value is on the card once, whatever order payments, refunds and checkouts
\* come in.
CardSafe == LedgerExplains /\ PaidForFirst /\ TakenOnce /\ VoidIsEmpty
=============================================================================
