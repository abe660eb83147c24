SPECIFICATION Spec
CONSTANTS
  Workers = {w1, w2}
  MaxRefunds = 1
  MaxRestocks = 2
  MaxDeliveries = 1
  Faults = FALSE
PROPERTY CancelledIsFinal
CHECK_DEADLOCK FALSE
