------------------------------ MODULE Inventory ------------------------------
(***************************************************************************)
(* What the stock subsystem promises, with no holds, carts, locks or       *)
(* transactions: every sellable unit is either still on the shelf or on    *)
(* exactly one order.  An order takes all of its units in one step, and    *)
(* only units that are there; only the merchant changes how many there     *)
(* are.  StockHold is shown to implement this module.                      *)
(***************************************************************************)
EXTENDS Integers

CONSTANT Rows            \* the stock rows units are sold from

VARIABLES onHand,        \* units on the shelf, per row
          sold,          \* units on orders, per row
          counted        \* units the merchant has put there, per row

vars == <<onHand, sold, counted>>

Init ==
  /\ onHand \in [Rows -> Nat]
  /\ sold = [r \in Rows |-> 0]
  /\ counted = onHand

\* One order leaves with its units: what the shelf loses the orders gain.
Sell ==
  /\ onHand' \in [Rows -> Nat]
  /\ sold' \in [Rows -> Nat]
  /\ \A r \in Rows : /\ sold[r] <= sold'[r]
                     /\ onHand'[r] + sold'[r] = onHand[r] + sold[r]
  /\ UNCHANGED counted

\* The merchant corrects the count of one row.
Recount ==
  /\ \E r \in Rows :
       /\ onHand'[r] \in Nat
       /\ onHand' = [onHand EXCEPT ![r] = onHand'[r]]
       /\ counted' = [counted EXCEPT ![r] = @ + (onHand'[r] - onHand[r])]
  /\ UNCHANGED sold

Next == Sell \/ Recount

Spec == Init /\ [][Next]_vars
=============================================================================
