SPECIFICATION Spec
CONSTANTS
  Orders = {o1}
  Redeeming = {o1}
  Customers = {c1}
  Callbacks = {k1, k2}
  Codes = {"preparing", "cancelled"}
  Desk = {}
  MaxCrash = 0
CHECK_DEADLOCK FALSE
INVARIANT StockRestoredOnce
