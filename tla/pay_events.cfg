SPECIFICATION FairSpec
CONSTANTS
  Intents = {i1}
  Requests = {r1}
  Pollers = {p1}
  Confirms = {c1}
  Deliveries = {d1}
  Admins = {}
  Jobs = {j1}
  Kinds = {"captured", "failed", "wrong_amount"}
  MaxAttempts = 2
  MaxLost = 1
  MaxOver = 1
  MaxCrash = 0
CHECK_DEADLOCK FALSE
 
PROPERTIES QueuedRefundSettles
