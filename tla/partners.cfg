SPECIFICATION Spec
CONSTANTS
  Hooks = {h1, h2}
  MaxPushes = 2
  MaxKitchenCrash = 1
  Syncs = {h1, h2}
  Dishes = {n1, n2}
  PosCodes = {c1, c2}
  MenuOutlets = {o1}
  Tries = {n1, n2}
  Handlers = {h1, h2}
  Runs = {h1, h2}
  DemoOrders = 2
  MaxDeaths = 1
  MaxTouches = 1
  FullStock = 1
  MaxHeld = 1
CHECK_DEADLOCK FALSE
SYMMETRY Interchangeable
INVARIANTS PartnersTypeOK TicketsAccounted KitchenIdKept CancelStopsKitchen StockOutlivesSync
   CaptureIsNoticed SeededOnce
PROPERTIES SyncListsItems
