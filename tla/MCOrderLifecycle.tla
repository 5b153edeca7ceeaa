--------------------------- MODULE MCOrderLifecycle ---------------------------
(***************************************************************************)
(* Instances of OrderLifecycle for TLC: who asks for what about one order. *)
(***************************************************************************)
EXTENDS OrderLifecycle

\* One payment reported by two events of the provider, the first delivered
\* twice, and a late report that an earlier attempt failed.
Reports == {"w1", "w2", "w3", "w4"}
Everyone == Reports \union
  {"confirm", "paid", "fulfill", "merchant", "customer", "ship1", "ship2"}
EventOf == [r \in Reports |->
  CASE r \in {"w1", "w2"} -> "checkout" [] r = "w3" -> "intent" [] OTHER -> "declined"]
OutcomeOf == [e \in {"checkout", "intent", "declined"} |->
  IF e = "declined" THEN "failed" ELSE "succeeded"]

KindOf == [r \in Everyone |->
  CASE r \in Reports -> "webhook"
    [] r = "paid" -> "confirmPaid"
    [] r = "fulfill" -> "fulfill"
    [] r = "merchant" -> "adminCancel"
    [] r = "customer" -> "customerCancel"
    [] r = "confirm" -> "confirm"
    [] OTHER -> "ship"]

\* Payments against cancels, and parcels against fulfilment and cancels; or
\* nobody asks for anything.
Stories == {{},
            {"w1", "w2", "w4", "merchant", "customer"},
            {"w1", "w4", "paid", "merchant", "customer"},
            {"w1", "w3", "merchant", "customer"},
            {"w1", "fulfill", "customer", "ship1"},
            {"w1", "fulfill", "ship1", "ship2"},
            {"customer", "ship1", "ship2"},
            {"confirm", "w1", "merchant", "ship1"}}
=============================================================================
