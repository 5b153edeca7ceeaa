------------------------------- MODULE Requests -------------------------------
(***************************************************************************)
(* The checkout requests a store serves, which the coupon, the gift card   *)
(* and the loyalty program lend their rows to.                             *)
(***************************************************************************)
EXTENDS Integers, Sequences, FiniteSets

CONSTANTS
  Checkouts,  \* checkout requests
  Nobody      \* no request has a row locked

ASSUME ShoppersAssumption == Nobody \notin Checkouts /\ IsFiniteSet(Checkouts)

\* The sum of f over S, counted unit by unit.
Units(f, S) == UNION {{x} \X (1..f[x]) : x \in S}
Total(f, S) == Cardinality(Units(f, S))
=============================================================================
