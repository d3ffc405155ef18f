SPECIFICATION Spec
CONSTANTS
  Phones = {p1}
  Orders = {o1}
  Logins = {r1, r2, r3}
  Issuers = {i1, i2}
  MaxCodes = 2
  RateMax = 1
  MaxAttempts = 1
  Users = {u1}
  Requests = {r1, r2, r3}
  Secrets = {s1, s2}
  MaxAccountCrash = 1
  Emails = {e1, e2}
  Attempts = {r1, r2, r3}
  EmailMax = 2
  MaxRateCrash = 1
  Owners = {u1, u2}
  Tokens = {d1}
  Calls = {r1, r2, r3}
  Cafes = {c1, c2}
  FirstCafe = c1
  Desks = {r1, r2, r3}
  MaxStores = 2
  Providers = {g1, g2}
  EnvProviders = {g1}
  EnvGateway = g1
  Production = FALSE
  Keepers = {r1, r2, r3}
  Reviewers = {r1, r2, r3}
  Reasons = {w1}
  bowl = bowl
  drink = drink
  Plates = {bowl, drink}
  PlateForms <- MCPlateForms
  OpeningMenu <- MCOpeningMenu
  CouponForms <- MCCouponForms
  RuleForms <- MCRuleForms
  Baskets <- MCBaskets
  Fees = {0, 30}
  PointSums = {0, 300}
  GstRate = 25
  DiyDelta = 20
  MaxEdits = 1
CHECK_DEADLOCK FALSE
SYMMETRY Interchangeable
INVARIANTS FrontTypeOK CodesAreAccounted RefreshedOnce   HitsWithinLimit
  RegisteredStays OptOutRespected StoreAsTold DefaultKept PaymentsGoAsChosen BillAddsUp PaidQuoteBecomesOrder HostKnows
 
