SPECIFICATION Spec
CONSTANTS
  Workers = {w1, w2}
  MaxRefunds = 2
  MaxRestocks = 2
  MaxDeliveries = 2
  Faults = TRUE
INVARIANTS PaymentAgrees FulfilledInOrder
PROPERTY FollowsTrail
CHECK_DEADLOCK FALSE
