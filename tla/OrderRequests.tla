---------------------------- MODULE OrderRequests ---------------------------
(***************************************************************************)
(* What a POST /public/orders body asks for, and the catalogue and coupon  *)
(* rows it names.  Shared by the checkout and by its abstract              *)
(* specification.                                                          *)
(***************************************************************************)
EXTENDS Integers, Sequences, FiniteSets

CONSTANTS
  Requests,          \* POST /public/orders calls, retries included
  Variants, Products,  \* ProductVariant and Product rows
  ProductOf,         \* [Variants -> Products]
  Phones,            \* customers, identified by phone
  Coupons, Promotions,
  NoCoupon,          \* body.couponCode is absent
  KeyOf,             \* [Requests -> idempotencyKey]
  PhoneOf,           \* [Requests -> Phones]
  CouponOf,          \* [Requests -> Coupons \cup {NoCoupon}]
  Lines,             \* [Requests -> Seq([variant, quantity])], body.items
  InitialStock,      \* [Variants -> Nat]
  PromotionOf,       \* [Coupons -> Promotions]
  Automatic,         \* promotions that need no coupon
  LimitTotal,        \* [Coupons -> Nat], 0 for no limit
  LimitPerCustomer   \* [Coupons -> Nat], 0 for no limit

Line == [variant : Variants, quantity : Nat \ {0}]

ASSUME ConstantsAssumption ==
  /\ PhoneOf \in [Requests -> Phones]
  /\ CouponOf \in [Requests -> Coupons \cup {NoCoupon}]
  /\ NoCoupon \notin Coupons
  /\ ProductOf \in [Variants -> Products]
  /\ Lines \in [Requests -> Seq(Line)]
  /\ \A r \in Requests : Lines[r] # << >>
  /\ InitialStock \in [Variants -> Nat]
  /\ PromotionOf \in [Coupons -> Promotions]
  /\ Automatic \subseteq Promotions
  /\ LimitTotal \in [Coupons -> Nat]
  /\ LimitPerCustomer \in [Coupons -> Nat]

ASSUME FiniteAssumption == IsFiniteSet(Requests)

-----------------------------------------------------------------------------

VariantsOf(r) == {Lines[r][i].variant : i \in 1..Len(Lines[r])}
QuantityOf(r, v) ==
  LET i == CHOOSE i \in 1..Len(Lines[r]) : Lines[r][i].variant = v
  IN  Lines[r][i].quantity
NoRepeatedVariant(r) ==
  \A i, j \in 1..Len(Lines[r]) :
    Lines[r][i].variant = Lines[r][j].variant => i = j

=============================================================================
