SPECIFICATION MCSpec
CONSTANTS
  Parts = {"checkout", "storefront", "attempts", "graph", "loaders"}
  None = None
  Checkouts = {"c1", "c2"}
  Carts <- MCCarts
  Menus <- MCMenus
  MaxMenuEdits = 1
  MaxFaults = 2
  Closed = Closed
  Unset = Unset
  Admins = {"a1", "a2"}
  Shoppers = {"s1"}
  Reviewers = {}
  PrepTimes = {15}
  InitialSettings <- MCSettings
  Hours <- MCHours
  Specials <- MCSpecials
  OverrideDays = {4}
  OtherTimes <- MCOtherTimes
  Horizon <- MCHorizon
  Instants <- MCInstants
  MaxEdits = 2
  Requests = {"r1", "r2"}
  MaxFailedAttempts = 2
  MaxTries = 6
  MaxCounterFaults = 1
  MaxDays = 1
  Bearers <- MCTokens
  NoBearer <- MCNoToken
  People = {"ann", "bob"}
  MaxPicks = 6
  LoadOps = {"event1", "event2", "query"}
  ConnectionOf <- MCConnectionOf
  LoadKeys = {"o1", "o2"}
  BatchCapacity = 2
  MaxWrites = 1
CHECK_DEADLOCK FALSE
INVARIANTS
  ChargesAddUp
  CheckoutKept
  SlotsHonoured
  BoardSettles
  GuessesBounded
  
  NobodyElsesData
  LoadsSound
