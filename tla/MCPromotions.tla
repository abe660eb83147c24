---------------------------- MODULE MCPromotions ----------------------------
EXTENDS Promotions
CONSTANTS gift, sale, club, a, b, c
VARIABLE scene
TheOffer(p) ==
    CASE p = gift -> [conditions |-> {[type |-> "pincode_in", value |-> {"here"}], [type |-> "cart_subtotal_min", value |-> 2]},
                      actions |-> <<[type |-> "percent_off_products", value |-> 100, products |-> {c}],
                                    [type |-> "flat_off_order", value |-> 3, products |-> {}],
                                    [type |-> "free_shipping", value |-> 0, products |-> {}]>>]
      [] p = sale -> [conditions |-> {[type |-> "customer_first_time", value |-> {}], [type |-> "cart_contains_product", value |-> {a}]},
                      actions |-> <<[type |-> "percent_off_order", value |-> 50, products |-> {}],
                                    [type |-> "percent_off_products", value |-> 100, products |-> {a, b}]>>]
      [] p = club -> [conditions |-> {[type |-> "cart_contains_category", value |-> {"shirts"}]},
                      actions |-> <<[type |-> "flat_off_products", value |-> 4, products |-> {b, c}]>>]
MCOffers == [p \in Promos |-> TheOffer(p)]
Line(product, paisa) == [product |-> product, categories |-> IF product = a THEN {"shirts"} ELSE {"caps"}, paisa |-> paisa]
Bought(line) == line.paisa > 0
MCCarts == {SelectSeq(<<Line(a, x), Line(b, y), Line(c, z)>>, Bought) : x \in {1, 5}, y, z \in {0, 1, 5}}

\* any cart and any setting of the flags, nobody edits; or one cart, two
\* promotions of one priority, and an admin who edits them
Priorities == {f \in [Promos -> 1..3] : \A p, q \in Promos : p # q => f[p] # f[q]}
CartsInit == /\ \E prio \in Priorities, auto, stacks \in SUBSET Promos :
                   PromotionsInit([p \in Promos |-> PromotionRow(p, p \in auto, p \in stacks, prio[p])])
             /\ \A p \in Promos : promo[p].isAutomatic \/ code[p] = "active"
EditsInit == /\ \E auto, stacks \in SUBSET {gift, sale} :
                PromotionsInit([p \in Promos |-> IF p = club THEN Absent ELSE PromotionRow(p, p \in auto, p \in stacks, 1)])
             /\ cart = <<Line(a, 5), Line(c, 1)>>
             /\ ctx = [firstTime |-> "yes", pincode |-> "here"]
Init == \/ scene = "carts" /\ CartsInit
        \/ scene = "edits" /\ EditsInit
Next == /\ Customer \/ (scene = "edits" /\ Admin)
        /\ UNCHANGED scene
Spec == Init /\ [][Next]_<<promoVars, scene>>
=============================================================================
