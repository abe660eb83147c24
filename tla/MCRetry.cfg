SPECIFICATION Spec
CONSTANTS
  Tabs = {t1, t2}
  Variants = {shirt}
  LineCap = 2
  MaxEdits = 2
  MaxPosts = 2
  FullBags = {b1, b2}
  Codes = {ten, twenty}
  Pins = {p1, p2}
  MaxLookups = 2
CHECK_DEADLOCK FALSE
PROPERTY RetryIsPayable
