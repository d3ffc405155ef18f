SPECIFICATION Spec
CONSTANTS
  Intents = {i1}
  Requests = {r1}
  Pollers = {p1}
  Confirms = {}
  Deliveries = {d1}
  Admins = {}
  Jobs = {j1, j2}
  Kinds = {"captured", "order_paid"}
  MaxAttempts = 2
  MaxLost = 0
  MaxOver = 1
  MaxCrash = 0
CHECK_DEADLOCK FALSE
INVARIANTS RefundIdempotent
