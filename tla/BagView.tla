------------------------------ MODULE BagView ------------------------------
(***************************************************************************)
(* What one tab of the storefront shows while its questions to the server  *)
(* are under way: the totals of the bag page and of the payment page       *)
(* (POST /public/cart/evaluate for the bag and the coupon of the moment),  *)
(* the coupon the customer tries, and the pincode that deliveries are      *)
(* quoted for (GET /public/serviceability).  Answers come in any order.    *)
(***************************************************************************)
EXTENDS Naturals, FiniteSets

CONSTANTS FullBags,   \* bags with something in them
          Codes,      \* coupon codes
          Pins,       \* valid pincodes
          MaxLookups  \* bound: pincode lookups under way at once

None == "none"

ASSUME BagViewAssumption == None \notin FullBags \cup Codes \cup Pins /\ MaxLookups \in Nat

VARIABLES page,        \* cart or payment
          bag,         \* None for an empty one
          appliedCode, \* the coupon of the page
          savedCode,   \* the coupon in sessionStorage
          evaluation,  \* the totals shown: of which bag, with which coupon counted
          asks,        \* evaluations under way whose effect was not cancelled
          attempt,     \* applyCoupon under way, or NoTotals
          overtaken,   \* history: its answer replaced the totals of a later bag
          pincode, savedPincode, lookups,
          shownBy      \* history: where the pincode shown was entered, or that it was restored

bagVars == <<page, bag, appliedCode, savedCode, evaluation, asks, attempt, overtaken>>
pinVars == <<pincode, savedPincode, lookups, shownBy>>
viewVars == <<bagVars, pinVars>>

Totals(b, c) == [bag |-> b, code |-> c]
NoTotals == Totals(None, None)
Lookup(p, by, saves) == [pin |-> p, by |-> by, saves |-> saves]

ViewInit == /\ page = "cart" /\ bag \in FullBags
            /\ savedCode \in Codes \cup {None} /\ appliedCode = savedCode
            /\ evaluation = NoTotals /\ asks = {Totals(bag, savedCode)}
            /\ attempt = NoTotals /\ overtaken = FALSE
            /\ pincode = None /\ shownBy = None
            /\ \/ savedPincode = None /\ lookups = {}
               \/ \E p \in Pins : savedPincode = p /\ lookups = {Lookup(p, "hydration", FALSE)}

-----------------------------------------------------------------------------
(* The totals.  The effect of either page asks again whenever the bag or the *)
(* coupon changes, and its cleanup cancels the question before.              *)

\* mutant: the cleanup is missing
evaluateAll(b, c) == IF b = None THEN asks ELSE asks \cup {Totals(b, c)}
evaluate(b, c) == IF b = None THEN {} ELSE {Totals(b, c)}

\* without a bag there is nothing to show
ShownFor(b) == IF b = None THEN NoTotals ELSE evaluation

\* lines are stepped and removed; the page of an empty bag has no coupon box
EditBag ==
    /\ page = "cart" /\ bag # None
    /\ \E b \in (FullBags \cup {None}) \ {bag} :
          bag' = b /\ asks' = evaluate(b, appliedCode) /\ evaluation' = ShownFor(b)
    /\ UNCHANGED <<page, appliedCode, savedCode, attempt, overtaken, pinVars>>

\* the server counts the coupon or refuses it; a coupon refused is taken off,
\* which asks again
EvaluationAnswered ==
    \E q \in asks : \E counted \in {None, q.code} :
        /\ evaluation' = Totals(q.bag, counted)
        /\ overtaken' = FALSE
        /\ IF page = "cart" /\ appliedCode # None /\ counted = None
           THEN appliedCode' = None /\ asks' = evaluate(bag, None)
           ELSE /\ appliedCode' = IF page = "payment" THEN counted ELSE appliedCode
                /\ asks' = asks \ {q}
        /\ UNCHANGED <<page, bag, savedCode, attempt, pinVars>>

EvaluationFails ==
    \E q \in asks : /\ asks' = asks \ {q} /\ evaluation' = NoTotals
                    /\ appliedCode' = IF page = "payment" THEN None ELSE appliedCode
                    /\ UNCHANGED <<page, bag, savedCode, attempt, overtaken, pinVars>>

CouponCounted == appliedCode # None /\ evaluation.code # None

\* the box is hidden while a coupon is counted, and busy while one is tried
applyCoupon ==
    /\ page = "cart" /\ bag # None /\ attempt = NoTotals
    /\ ~CouponCounted
    /\ \E c \in Codes : attempt' = Totals(bag, c)
    /\ UNCHANGED <<page, bag, appliedCode, savedCode, evaluation, asks, overtaken, pinVars>>

\* the answer of an attempt is not cancelled by a later bag
CouponAnswered ==
    /\ attempt # NoTotals
    /\ \E counted \in {None, attempt.code} :
          /\ evaluation' = Totals(attempt.bag, counted)
          /\ appliedCode' = counted
          /\ IF counted # appliedCode
             THEN /\ asks' = evaluate(bag, counted)
                  /\ overtaken' = (bag = None)
             ELSE asks' = asks /\ overtaken' = (attempt.bag # bag)
    /\ attempt' = NoTotals
    /\ UNCHANGED <<page, bag, savedCode, pinVars>>

CouponFails == /\ attempt # NoTotals /\ attempt' = NoTotals
               /\ UNCHANGED <<page, bag, appliedCode, savedCode, evaluation, asks, overtaken, pinVars>>

removeCoupon ==
    /\ page = "cart" /\ CouponCounted
    /\ appliedCode' = None /\ savedCode' = None /\ asks' = evaluate(bag, None)
    /\ UNCHANGED <<page, bag, evaluation, attempt, overtaken, pinVars>>

\* a page begins with no totals and the coupon of the sessionStorage; only the
\* checkout button of the bag puts it there
Enter(p, code) ==
    /\ page' = p /\ savedCode' = code /\ appliedCode' = IF p = "cart" THEN code ELSE None
    /\ evaluation' = NoTotals /\ attempt' = NoTotals /\ overtaken' = FALSE
    /\ asks' = evaluate(bag', code)
    /\ UNCHANGED pinVars

ToPayment == /\ page = "cart" /\ bag # None
             /\ bag' = bag /\ Enter("payment", appliedCode)

\* to the bag page again, from the payment or by way of the shop
BackToBag == bag' \in FullBags /\ Enter("cart", savedCode)

-----------------------------------------------------------------------------
(* The pincode *)

\* mutant: the pincode is saved before the answer
setPincodeAtOnce(p, by) == savedPincode' = p /\ lookups' = lookups \cup {Lookup(p, by, FALSE)}
setPincode(p, by) == savedPincode' = savedPincode /\ lookups' = lookups \cup {Lookup(p, by, TRUE)}

Enters(by) == /\ Cardinality(lookups) < MaxLookups
              /\ \E p \in Pins : setPincode(p, by)
              /\ UNCHANGED <<pincode, shownBy, bagVars>>

\* the modal takes one pincode at a time; the widget of a product page is busy
\* only while it has no pincode to show
PincodeModal == (\A l \in lookups : l.by # "modal") /\ Enters("modal")
DeliveryWidget == (pincode = None => lookups = {}) /\ Enters("widget")

\* an answer, or an error, shows its pincode; one that was entered is saved too
refresh ==
    \E l \in lookups :
        /\ lookups' = lookups \ {l}
        /\ pincode' = l.pin /\ shownBy' = l.by
        /\ savedPincode' = IF l.saves THEN l.pin ELSE savedPincode
        /\ UNCHANGED bagVars

clearPincode == /\ pincode # None
                /\ pincode' = None /\ savedPincode' = None /\ shownBy' = None
                /\ UNCHANGED <<lookups, bagVars>>

ViewNext == \/ EditBag \/ EvaluationAnswered \/ EvaluationFails
            \/ applyCoupon \/ CouponAnswered \/ CouponFails \/ removeCoupon
            \/ ToPayment \/ BackToBag
            \/ PincodeModal \/ DeliveryWidget \/ refresh \/ clearPincode

ViewSpec == ViewInit /\ [][ViewNext]_viewVars

-----------------------------------------------------------------------------
(* Properties *)

\* Once nothing is under way, the totals on screen are those of the bag and the
\* coupon on screen, except where the answer about a coupon the customer tried
\* arrived after they changed the bag: that answer alone is never cancelled.
TotalsSettle ==
    asks = {} /\ attempt = NoTotals /\ evaluation # NoTotals /\ bag # None
       => overtaken \/ evaluation = Totals(bag, appliedCode)

\* The pincode a return visit will start from is the one on screen, however the
\* lookups of several pincodes overtook each other; only the lookup of the
\* restored one, answered last, can show another than it saves.
SavedPincodeShown == shownBy \in {"modal", "widget"} => savedPincode = pincode
=============================================================================
