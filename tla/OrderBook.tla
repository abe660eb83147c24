----------------------------- MODULE OrderBook ------------------------------
(***************************************************************************)
(* What createOrder promises: an order is placed in one step, only when    *)
(* its key is new, the shelf holds every line and its coupon is below both *)
(* caps; orders are numbered 1, 2, 3, ...                                  *)
(***************************************************************************)
EXTENDS OrderRequests

VARIABLES stock, orders, usages

vars == <<stock, orders, usages>>

Init == stock = InitialStock /\ orders = {} /\ usages = {}

UsesOf(c) == {q \in usages : CouponOf[q] = c}

Place(r) ==
  LET c == CouponOf[r] IN
  /\ \A o \in orders : KeyOf[o.request] # KeyOf[r]
  /\ NoRepeatedVariant(r)
  /\ \A v \in VariantsOf(r) : stock[v] >= QuantityOf(r, v)
  /\ c # NoCoupon =>
       /\ LimitTotal[c] > 0 => Cardinality(UsesOf(c)) < LimitTotal[c]
       /\ LimitPerCustomer[c] > 0 =>
            Cardinality({q \in UsesOf(c) : PhoneOf[q] = PhoneOf[r]})
              < LimitPerCustomer[c]
  /\ stock' = [v \in Variants |-> IF v \in VariantsOf(r)
                                  THEN stock[v] - QuantityOf(r, v)
                                  ELSE stock[v]]
  /\ \E promotions \in SUBSET Promotions :
       orders' = orders \cup {[request |-> r,
                               number |-> Cardinality(orders) + 1,
                               promotions |-> promotions]}
  /\ usages' = IF c = NoCoupon THEN usages ELSE usages \cup {r}

Next == \E r \in Requests : Place(r)

Spec == Init /\ [][Next]_vars
=============================================================================
