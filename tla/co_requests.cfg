SPECIFICATION FairSpec
CONSTANTS
  Shoppers = {r1, r2}
  Guests = {g1}
  Admins = {}
  Users = {"u1", "u2"}
  Keys = {"k1", "k2"}
  Items = {"a", "b"}
  Intents = {"i1", "i2", "i3"}
  Payloads <- Carts
  Amount <- CartAmount
  Deposit = 10
  Stock <- OneEach
  Points <- NoPoints
  Earn = 0
  MaxRedemptions = 1
  Pool = 4
  MaxCrash = 0
CHECK_DEADLOCK FALSE
INVARIANTS RetriesAgree StockConserved IntentSpentOnce
PROPERTIES RequestsAnswered
