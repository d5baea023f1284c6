SPECIFICATION MCSpec
CONSTANTS
  Parts = {"coupon", "pool", "staff"}
  alice = alice
  bob = bob
  r1 = r1
  r2 = r2
  r3 = r3
  d1 = d1
  d2 = d2
  d3 = d3
  p = p
  q = q
  Nobody = Nobody
  User <- MCUser
  Reservation <- MCReservation
  Owner <- MCOwner
  MaxUsesValues <- MCMaxUses
  MaxPerUserValues <- MCMaxPerUser
  Delivery <- MCDelivery
  Payment = {p, q}
  PaymentOf <- MCPaymentOf
  PoolSize = 2
  MaxQueries = 2
  Handhelds = {"p1"}
  AdminPhones = {"m1", "m2"}
  AndroidAdmins = {"m1"}
  FcmTokens = {"t1", "t2"}
  MaxStaffFaults = 2
CHECK_DEADLOCK FALSE
INVARIANTS
  CountersMatchHolders
  KitchenTold
PROPERTIES
  RedeemWithinCaps
  TransactionsEnd
  LedgerSpec
  EveryDeliveryEnds
  RevokedStaysOut
