----------------------------- MODULE Promotions -----------------------------
(***************************************************************************)
(* Promotions between the admin who edits them and the customer who pays:  *)
(* an editor that was opened earlier sends its whole form, coupons are     *)
(* added and switched off, promotions are deleted; the payment page shows  *)
(* the totals of an evaluation, and the order is evaluated again.          *)
(***************************************************************************)
EXTENDS PromotionEngine

CONSTANTS Promos, Absent,
          Offer,         \* conditions and actions a promotion starts with
          Carts,         \* carts a customer may come with
          Flat, FreeFrom, \* shipping: fallbacks of the evaluation, defaults of the settings
          MaxFormSaves       \* bound: how often the editor saves

\* what promotionActionSchema lets through
ActionTypes == {"percent_off_order", "flat_off_order", "free_shipping", "percent_off_products", "flat_off_products"}
ValidAction(action) ==
    /\ action.type \in ActionTypes /\ action.value \in Nat
    /\ action.type \in {"percent_off_order", "percent_off_products"} => action.value <= 100

ASSUME PromotionsAssumption ==
    /\ Flat \in Nat /\ FreeFrom \in Nat /\ MaxFormSaves \in Nat /\ IsFiniteSet(Promos) /\ Absent \notin Promos
    /\ \A p \in Promos : /\ Offer[p].actions \in Seq(ToSet(Offer[p].actions))
                         /\ \A action \in ToSet(Offer[p].actions) : ValidAction(action)
    /\ \A some \in Carts : some \in Seq(ToSet(some)) /\ \A line \in ToSet(some) : line.paisa \in Nat

VARIABLES promo,   \* rows, Absent once deleted
          code,    \* the coupon of each promotion: "none", "active" or "inactive"
          form,    \* the promotion editor
          saves,   \* how often it has saved
          cart, ctx, \* the customer's cart, and what is known about them at payment
          stored,  \* promotion of the coupon in sessionStorage
          visit,   \* where the customer is, and the totals of the payment page
          order,   \* what the order charged
          touched  \* history: something an evaluation reads changed after the page's

promoVars == <<promo, code, form, saves, cart, ctx, stored, visit, order, touched>>

PromotionRow(p, isAutomatic, stackable, stackPriority) ==
    [isAutomatic |-> isAutomatic, isActive |-> TRUE, stackable |-> stackable, stackPriority |-> stackPriority,
     conditions |-> Offer[p].conditions, actions |-> Offer[p].actions]

NotYet == [evaluated |-> FALSE, total |-> 0, coupon |-> Absent, at |-> "cart"]
NoOrder == [total |-> 0, discount |-> 0, applied |-> <<>>, spreads |-> 0]

PromotionsInit(rows) ==
    /\ promo = rows
    /\ code \in [Promos -> {"none", "active"}]
    /\ \A p \in Promos : code[p] = "active" => rows[p] # Absent /\ ~rows[p].isAutomatic
    /\ form = Absent /\ saves = 0 /\ cart \in Carts
    /\ ctx \in [firstTime : {"yes", "no"}, pincode : {"here", "there"}]
    /\ stored = Absent /\ visit = NotYet /\ order = NoOrder /\ touched = FALSE

-----------------------------------------------------------------------------
(* Evaluation *)

Rule(p) == [id |-> p, stackable |-> promo[p].stackable,
            conditions |-> promo[p].conditions, actions |-> promo[p].actions]

Exists(p) == promo[p] # Absent

\* ordered by priority only: rows of one priority come in any order
findActiveAutomaticPromotions ==
    LET found == {p \in Promos : Exists(p) /\ promo[p].isAutomatic /\ promo[p].isActive}
    IN  {s \in SetToSeqs(found) : \A i, j \in DOMAIN s : i < j => promo[s[i]].stackPriority <= promo[s[j]].stackPriority}

lookupCoupon(p) == p # Absent /\ Exists(p) /\ code[p] = "active" /\ promo[p].isActive

\* the result and what the customer is told of the coupon; found is the order
\* the automatic promotions were read in
evaluate(found, who, p) ==
    LET result == evaluateCart(cart, who, [i \in DOMAIN found |-> Rule(found[i])],
                               IF lookupCoupon(p) THEN <<Rule(p)>> ELSE <<>>)
        left == Zero(Subtotal(cart) - result.discount)
        free == result.freeShipping \/ left >= FreeFrom
    IN  [discount |-> result.discount, applied |-> result.applied, spreads |-> result.spreads,
         freeShipping |-> free, totalPaisa |-> left + (IF free THEN 0 ELSE Flat),
         couponApplied |-> lookupCoupon(p) /\ p \in ToSet(result.applied)]

\* the cart page knows neither the contact nor the address; mutant of the next:
\* the payment page forgets them
Unknown == [firstTime |-> "unknown", pincode |-> "unknown"]
AtPayment == ctx

-----------------------------------------------------------------------------
(* The customer *)

\* the cart page keeps a coupon as long as the server applies it
applyCoupon == {p \in Promos : \E found \in findActiveAutomaticPromotions : evaluate(found, Unknown, p).couponApplied}

handleCheckout ==
    /\ visit.at = "cart"
    /\ stored' \in applyCoupon \union {Absent}
    /\ visit' = [visit EXCEPT !.at = "checkout"]
    /\ UNCHANGED <<promo, code, form, saves, cart, ctx, order, touched>>

\* a line of the bag goes in another tab, and the checkout goes on with the rest
BagChanges ==
    /\ visit.at = "checkout" /\ Len(cart) > 1
    /\ cart' = Front(cart)
    /\ UNCHANGED <<promo, code, form, saves, ctx, stored, visit, order, touched>>

\* the payment page evaluates the cart anew; until an answer comes it shows the
\* subtotal without discounts, and no coupon is sent
PaymentView ==
    /\ visit.at = "checkout"
    /\ visit' = [NotYet EXCEPT !.at = "payment",
                               !.total = Subtotal(cart) + (IF Subtotal(cart) >= FreeFrom THEN 0 ELSE Flat)]
    /\ UNCHANGED <<promo, code, form, saves, cart, ctx, stored, order, touched>>

PaymentEvaluated ==
    /\ visit.at = "payment" /\ ~visit.evaluated
    /\ \E found \in findActiveAutomaticPromotions :
         LET e == evaluate(found, AtPayment, stored) IN
         visit' = [NotYet EXCEPT !.at = "payment", !.evaluated = TRUE, !.total = e.totalPaisa,
                                 !.coupon = IF e.couponApplied THEN stored ELSE Absent]
    /\ touched' = FALSE
    /\ UNCHANGED <<promo, code, form, saves, cart, ctx, stored, order>>

\* the fee is waived where the evaluation waived it; what is charged is not
\* kept from falling below the fee
computeShipping(left) == IF FreeFrom > 0 /\ left >= FreeFrom THEN 0 ELSE Flat

createOrder ==
    /\ visit.at = "payment"
    /\ \E found \in findActiveAutomaticPromotions :
         LET e == evaluate(found, ctx, visit.coupon)
             left == Subtotal(cart) - e.discount
         IN  /\ visit.coupon # Absent => e.couponApplied
             /\ order' = [total |-> left + (IF e.freeShipping THEN 0 ELSE computeShipping(left)),
                          discount |-> e.discount, applied |-> e.applied, spreads |-> e.spreads]
    /\ visit' = [visit EXCEPT !.at = "paid"]
    /\ UNCHANGED <<promo, code, form, saves, cart, ctx, stored, touched>>

\* an order with a coupon that no longer applies is refused; the customer goes
\* back and the page is opened anew
Refused ==
    /\ visit.at = "payment" /\ visit.coupon # Absent
    /\ \E found \in findActiveAutomaticPromotions : ~evaluate(found, ctx, visit.coupon).couponApplied
    /\ visit' = [NotYet EXCEPT !.at = "checkout"]
    /\ UNCHANGED <<promo, code, form, saves, cart, ctx, stored, order, touched>>

\* another order of the phone is confirmed meanwhile
FirstOrderElsewhere ==
    /\ ctx.firstTime = "yes" /\ ctx' = [ctx EXCEPT !.firstTime = "no"]
    /\ touched' = TRUE
    /\ UNCHANGED <<promo, code, form, saves, cart, stored, visit, order>>

-----------------------------------------------------------------------------
(* The admin *)

PromotionEditor(p) == /\ Exists(p) /\ form' = [of |-> p, row |-> promo[p]]
                      /\ UNCHANGED <<promo, code, saves, cart, ctx, stored, visit, order, touched>>

ToggleRow(row) == {[row EXCEPT !.isAutomatic = ~@], [row EXCEPT !.isActive = ~@], [row EXCEPT !.stackable = ~@]}

\* conditions and actions are added and taken off one by one; only taking off
\* is modelled, and a promotion keeps one action
ConditionsBuilder(row) == {[row EXCEPT !.conditions = @ \ {condition}] : condition \in row.conditions}
ActionsBuilder(row) == {[row EXCEPT !.actions = RemoveAt(@, i)] : i \in {i \in DOMAIN row.actions : Len(row.actions) > 1}}

\* the form sends all its fields as they were when it was opened but for what
\* was changed in it: one thing at a time here
update == /\ form # Absent /\ Exists(form.of) /\ saves < MaxFormSaves
          /\ \E row \in ToggleRow(form.row) \union ConditionsBuilder(form.row) \union ActionsBuilder(form.row) :
                promo' = [promo EXCEPT ![form.of] = row] /\ form' = [form EXCEPT !.row = row]
          /\ saves' = saves + 1 /\ touched' = TRUE
          /\ UNCHANGED <<code, cart, ctx, stored, visit, order>>

\* the panel is on the page of a promotion that was not automatic when opened
CouponsPanel == form # Absent /\ ~form.row.isAutomatic

createCoupon == /\ CouponsPanel /\ Exists(form.of) /\ ~promo[form.of].isAutomatic /\ code[form.of] = "none"
                /\ code' = [code EXCEPT ![form.of] = "active"]
                /\ UNCHANGED <<promo, form, saves, cart, ctx, stored, visit, order, touched>>

deactivateCoupon == /\ CouponsPanel /\ code[form.of] = "active"
                    /\ code' = [code EXCEPT ![form.of] = "inactive"] /\ touched' = TRUE
                    /\ UNCHANGED <<promo, form, saves, cart, ctx, stored, visit, order>>

\* an unused promotion goes with its coupons, a used one is switched off
delete(p) ==
    /\ Exists(p)
    /\ IF p \in ToSet(order.applied)
       THEN promo' = [promo EXCEPT ![p].isActive = FALSE] /\ UNCHANGED code
       ELSE promo' = [promo EXCEPT ![p] = Absent] /\ code' = [code EXCEPT ![p] = "none"]
    /\ touched' = TRUE
    /\ UNCHANGED <<form, saves, cart, ctx, stored, visit, order>>

Customer == handleCheckout \/ BagChanges \/ PaymentView \/ PaymentEvaluated \/ createOrder \/ Refused
Admin == \/ FirstOrderElsewhere \/ update \/ createCoupon \/ deactivateCoupon
         \/ \E p \in Promos : PromotionEditor(p) \/ delete(p)

PromotionsSpec(rows) == PromotionsInit(rows) /\ [][Customer \/ Admin]_promoVars

-----------------------------------------------------------------------------
(* Properties *)

PrioritiesDiffer == \A p, q \in Promos : Exists(p) /\ Exists(q) /\ p # q => promo[p].stackPriority # promo[q].stackPriority
PaidAsEvaluated == visit.at = "paid" /\ visit.evaluated /\ ~touched /\ PrioritiesDiffer

\* What the payment page shows is what the order charges, when nothing the
\* evaluation reads changed in between: the same promotions, the same coupon,
\* the same shipping, whatever rounding did.  Two things only make a
\* difference: a discount that passes the subtotal, and a coupon that could be
\* redeemed but discounts nothing of this cart.
ChargedAsShown ==
    PaidAsEvaluated /\ (lookupCoupon(stored) => visit.coupon = stored)
       => visit.total - order.total = Zero(order.discount - Subtotal(cart))

\* "so the totals shown here match what /public/orders will charge": with any
\* coupon, and discounts within the subtotal.
TotalsMatch == PaidAsEvaluated /\ order.discount <= Subtotal(cart) => order.total = visit.total

\* Rounding gives away next to nothing: promotions may take more than the cart
\* is worth, but by less than a paisa per line for each discount spread over it.
DiscountBounded == order.discount <= Subtotal(cart) + order.spreads * Zero(Len(cart) - 2)

\* A promotion that does not stack applies alone, be it automatic or behind a
\* coupon, whatever the priorities and the edits.
StandsAlone ==
    [][order' # order /\ Len(order'.applied) > 1
          => \A i \in DOMAIN order'.applied : promo[order'.applied[i]].stackable]_promoVars
=============================================================================
