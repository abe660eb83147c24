----------------------------- MODULE MCCheckout -----------------------------
(* Carts, customers and coupons for TLC.  r3 repeats the body of r1.        *)
EXTENDS Checkout, TLC

CONSTANTS r1, r2, r3, r4, jacket, gloves, gear, asha, ravi, meera, k1, k2, ride, monsoon

MCKeyOf == r1 :> k1 @@ r2 :> k2 @@ r3 :> k1
MCPhoneOf == r1 :> asha @@ r2 :> ravi @@ r3 :> asha
MCProductOf == [v \in {jacket, gloves} |-> gear]
MCPromotionOf == ride :> monsoon
AllUse(c) == [r \in {r1, r2, r3} |-> c]

Of(v, n) == [variant |-> v, quantity |-> n]

\* Contention: the gloves do not suffice for r1 and r2, who lock their lines in
\* opposite orders; they would suffice for r1 and its repeat r3.
OpposedLines == r1 :> <<Of(jacket, 1), Of(gloves, 2)>>
             @@ r2 :> <<Of(gloves, 3), Of(jacket, 1)>>
             @@ r3 :> <<Of(jacket, 1), Of(gloves, 2)>>
ScarceStock == jacket :> 2 @@ gloves :> 4
NoCoupons == AllUse(NoCoupon)

AmpleStock == jacket :> 3 @@ gloves :> 2

\* Coupons: asha's two requests reach the customer's cap, ravi's and meera's
\* with one of them the total cap.
OwnKeys == [r \in Requests |-> r]
FourPhones == r1 :> asha @@ r2 :> ravi @@ r3 :> asha @@ r4 :> meera
OneEach == r1 :> <<Of(jacket, 1)>> @@ r2 :> <<Of(gloves, 1)>>
        @@ r3 :> <<Of(jacket, 1)>> @@ r4 :> <<Of(jacket, 1)>>
\* r1 and r3 differ in nothing but their keys.
AshasRequests == Permutations({r1, r3})
FourRide == [r \in Requests |-> ride]
Unlimited == ride :> 0
One == ride :> 1
Two == ride :> 2

=============================================================================
