SPECIFICATION Spec
CONSTANTS
  gift = gift
  sale = sale
  club = club
  a = a
  b = b
  c = c
  Absent = Absent
  Promos = {gift, sale, club}
  Offer <- MCOffers
  Carts <- MCCarts
  Flat = 2
  FreeFrom = 6
  MaxFormSaves = 2
CHECK_DEADLOCK FALSE
INVARIANTS  DiscountBounded
PROPERTIES StandsAlone
