----------------------------- MODULE OrderStatus -----------------------------
(***************************************************************************)
(* The three status axes of an order and their transition tables           *)
(* (internal/order/status.go).  A status the table maps to {} is terminal. *)
(***************************************************************************)

OrderStatuses == {"pending", "confirmed", "fulfilled", "cancelled"}

OrderTransitions ==
  [from \in OrderStatuses |->
     CASE from = "pending"   -> {"confirmed", "cancelled"}
       [] from = "confirmed" -> {"fulfilled", "cancelled"}
       [] OTHER              -> {}]

PaymentStatuses ==
  {"pending", "authorized", "paid", "failed", "refunded", "partially_refunded"}

PaymentTransitions ==
  [from \in PaymentStatuses |->
     CASE from = "pending"            -> {"authorized", "paid", "failed"}
       [] from = "authorized"         -> {"paid", "failed", "refunded"}
       [] from = "paid"               -> {"refunded", "partially_refunded"}
       [] from = "partially_refunded" -> {"partially_refunded", "refunded"}
       [] from = "failed"             -> {"pending", "paid"}
       [] OTHER                       -> {}]

FulfillmentStatuses == {"unfulfilled", "partial", "fulfilled"}

FulfillmentTransitions ==
  [from \in FulfillmentStatuses |->
     CASE from = "unfulfilled" -> {"partial", "fulfilled"}
       [] from = "partial"     -> {"fulfilled"}
       [] OTHER                -> {}]
=============================================================================
