SPECIFICATION Spec
CONSTANTS
  alice = alice
  bob = bob
  carol = carol
  o1 = o1
  o2 = o2
  o3 = o3
  o4 = o4
  w1 = w1
  w2 = w2
  KeepStatus = KeepStatus
  User <- MCUser
  Order <- MCTwoUsers
  Owner <- MCOwnerOfTwo
  CouponOrder <- MCTwoUsers
  OnlineOrder <- MCNone
  TestOrder <- MCNone
  Request = {w1, w2}
  StaffStatus <- MCStatus
  MaxUses = 2
  MaxPerUser = 1
  Environment <- MCConcurrent
INVARIANTS
  ReturnedAtMostOnce
CHECK_DEADLOCK FALSE
