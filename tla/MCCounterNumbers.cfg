SPECIFICATION Spec
CONSTANTS
  tee = tee  t1 = t1  t2 = t2
  Variants = {tee}
  InitialStock <- MCStock
  Tills = {t1}
  Adjustments = {1, 2}
  MaxOrders = 2
  SingleVariant = {tee}
  MaxVisits = 2
  Buttons <- MCButtons
  MaxTyped = 1
  Rows = {1}
  RowVariant <- MCRowVariant
  RowDelta <- MCRowDelta
  MaxUploads = 2
  Shifts <- MCShifts
INVARIANT NextWebNumberFree
CHECK_DEADLOCK FALSE
