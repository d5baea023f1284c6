SPECIFICATION Spec
CONSTANTS
  alice = alice
  bob = bob
  carol = carol
  o1 = o1
  o2 = o2
  o3 = o3
  o4 = o4
  w1 = w1
  w2 = w2
  KeepStatus = KeepStatus
  User <- MCUser
  Order <- MCTwoUsers
  Owner <- MCOwnerOfTwo
  CouponOrder <- MCTwoUsers
  OnlineOrder <- MCSomeOnline
  TestOrder <- MCOneTest
  Request = {w1, w2}
  StaffStatus <- MCReopen
  MaxUses = 2
  MaxPerUser = 1
  Environment <- MCWild
CHECK_DEADLOCK FALSE
INVARIANTS
  OneActiveCouponOrder
  GlobalNeverAhead
