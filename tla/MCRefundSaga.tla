----------------------------- MODULE MCRefundSaga -----------------------------
(***************************************************************************)
(* Instances of RefundSaga for TLC: orders paid through the provider       *)
(* alone, with its refund events; a cfg picks the total, what the scopes   *)
(* ask for and who takes part.  MCStore has the orders cards paid for.     *)
(***************************************************************************)
EXTENDS RefundSaga, TLC

CONSTANTS k1, k2, k3  \* ScopeIDs

ASSUME ScopesAssumption == k1 # k2 /\ k2 # k3 /\ k1 # k3

RefundSymmetry == Permutations(Sagas) \union Permutations(Sweeps)

\* An order paid through the provider alone.
NoCards == <<>>
NothingApplied == [c \in {} |-> 0]

\* A partial refund, another one, and everything that is left.
OneTwoAll == [k \in Scopes |-> CASE k = k1 -> 1 [] k = k2 -> 2 [] OTHER -> All]
OneThenAll == [k \in Scopes |-> IF k = k1 THEN 1 ELSE All]
=============================================================================
