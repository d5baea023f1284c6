SPECIFICATION FairSpec
CONSTANTS
  alice = alice
  bob = bob
  carol = carol
  o1 = o1
  o2 = o2
  o3 = o3
  o4 = o4
  w1 = w1
  w2 = w2
  KeepStatus = KeepStatus
  User <- MCUser
  Order <- MCAll
  Owner <- MCOwner
  CouponOrder <- MCAll
  OnlineOrder <- MCSomeOnline
  TestOrder <- MCNone
  Request = {w1, w2}
  StaffStatus <- MCStatus
  MaxUses = 2
  MaxPerUser = 1
  Environment <- MCNone
CHECK_DEADLOCK FALSE
INVARIANTS
  UsesAccounted
PROPERTIES
  NoUseLost
  LedgerSpec
