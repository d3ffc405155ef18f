SPECIFICATION Spec
CONSTANTS
  Orders = {o1}
  Redeeming = {o1}
  Customers = {c1, c2}
  Callbacks = {k1, k2}
  Codes = {"accepted", "delivered", "cancelled"}
  Desk = {d1}
  MaxCrash = 1
CHECK_DEADLOCK FALSE
INVARIANTS StockAccounted PointsReversedOnce RefundsMatchCancels
