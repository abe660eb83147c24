SPECIFICATION Spec
CONSTANTS
  r1 = r1  r2 = r2  r3 = r3  r4 = r4  jacket = jacket  gloves = gloves
  gear = gear  asha = asha  ravi = ravi  meera = meera  k1 = k1  k2 = k2
  ride = ride  monsoon = monsoon  NoCoupon = NoCoupon
  Requests = {r1, r2, r3, r4}
  Variants = {jacket, gloves}
  Products = {gear}
  ProductOf <- MCProductOf
  Phones = {asha, ravi, meera}
  Coupons = {ride}
  Promotions = {monsoon}
  KeyOf <- OwnKeys
  PhoneOf <- FourPhones
  CouponOf <- FourRide
  Lines <- OneEach
  InitialStock <- AmpleStock
  PromotionOf <- MCPromotionOf
  Automatic = {}
  LimitTotal <- Two
  LimitPerCustomer <- One
INVARIANTS CouponCapsHold
PROPERTY PlacesAtomically
SYMMETRY AshasRequests
CHECK_DEADLOCK FALSE
