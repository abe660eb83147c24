SPECIFICATION FairSpec
CONSTANTS
  r1 = r1  r2 = r2  r3 = r3  r4 = r4  jacket = jacket  gloves = gloves
  gear = gear  asha = asha  ravi = ravi  meera = meera  k1 = k1  k2 = k2
  ride = ride  monsoon = monsoon  NoCoupon = NoCoupon
  Requests = {r1, r2, r3}
  Variants = {jacket, gloves}
  Products = {gear}
  ProductOf <- MCProductOf
  Phones = {asha, ravi, meera}
  Coupons = {ride}
  Promotions = {monsoon}
  KeyOf <- MCKeyOf
  PhoneOf <- MCPhoneOf
  CouponOf <- NoCoupons
  Lines <- OpposedLines
  InitialStock <- ScarceStock
  PromotionOf <- MCPromotionOf
  Automatic = {monsoon}
  LimitTotal <- Unlimited
  LimitPerCustomer <- Unlimited
INVARIANTS TypeOK StockNeverNegative BooksBalance AnswersHonest
PROPERTY EveryRequestAnswered
CHECK_DEADLOCK FALSE
