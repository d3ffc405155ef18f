SPECIFICATION Spec
CONSTANTS
  Shoppers = {r1, r2, r3}
  Guests = {}
  Admins = {a1}
  Users = {"u1"}
  Keys = {"k1", "k2", "k3"}
  Items = {"a"}
  Intents = {"i1", "i2", "i3"}
  Payloads <- Savers
  Amount <- SaverAmount
  Deposit = 0
  Stock <- ThreeEach
  Points <- ThreePoints
  Earn = 1
  MaxRedemptions = 1
  Pool = 9
  MaxCrash = 1
CHECK_DEADLOCK FALSE
SYMMETRY Interchangeable
INVARIANTS CouponWithinCap PointsNotOverdrawn
