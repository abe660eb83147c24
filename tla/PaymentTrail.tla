---------------------------- MODULE PaymentTrail ----------------------------
(***************************************************************************)
(* What the money of one order may do: it is awaited, then received or     *)
(* refused, and money received is returned at most once, which needs a     *)
(* refund that was asked for while the money was in the till.              *)
(***************************************************************************)
VARIABLES money,   \* Order.paymentState
          asked    \* some RefundRequest was filed

vars == <<money, asked>>

Init == money \in {"pending", "paid"} /\ asked = FALSE

Settle == /\ money = "pending"
          /\ money' \in {"paid", "failed"}
          /\ UNCHANGED asked

Ask == /\ money \in {"paid", "refunded"}
       /\ asked' = TRUE
       /\ UNCHANGED money

Return == /\ money = "paid" /\ asked
          /\ money' = "refunded"
          /\ UNCHANGED asked

Next == Settle \/ Ask \/ Return

Spec == Init /\ [][Next]_vars
=============================================================================
