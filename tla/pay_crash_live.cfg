SPECIFICATION FairSpec
CONSTANTS
  Intents = {i1}
  Requests = {r1}
  Pollers = {p1}
  Confirms = {}
  Deliveries = {d1}
  Admins = {}
  Jobs = {j1, j2}
  Kinds = {"captured"}
  MaxAttempts = 2
  MaxLost = 0
  MaxOver = 0
  MaxCrash = 1
CHECK_DEADLOCK FALSE
PROPERTIES QueuedRefundSettles
