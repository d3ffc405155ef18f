SPECIFICATION Spec
CONSTANTS
  Intents = {i1}
  Requests = {r1}
  Pollers = {p1, p2}
  Confirms = {}
  Deliveries = {d1}
  Admins = {a1}
  Jobs = {j1, j2}
  Kinds = {"captured", "order_paid"}
  MaxAttempts = 2
  MaxLost = 1
  MaxOver = 1
  MaxCrash = 1
CHECK_DEADLOCK FALSE
SYMMETRY Interchangeable
INVARIANTS RefundsAccounted PendingRefundHasOwner
PROPERTIES RefundsFollowLedger
