SPECIFICATION MCSpec
CONSTANTS
  first = first
  second = second
  medium = medium
  large = large
  Lines <- OrderLines
  Variants = {medium, large}
  VariantOf <- MCVariantOf
  Ordered <- MCOrdered
  Price <- MCPrice
  Total = 2
  Shelf <- MCShelf
  Forms <- MCForms
  MaxReturns = 2
  Workers = {w1, w2}
  Faults = TRUE
  Pages = {desk}
  Photos = {photo, photo2}
  None = None
  MaxClicks = 8
INVARIANTS NothingStaysReserved ReservationsExact NoStageSkipped ConfirmedComplete PressesWork
PROPERTY ClosedStaysClosed
CONSTRAINTS OneOvertaken Scenes
SYMMETRY Exchangeable
CHECK_DEADLOCK FALSE
