SPECIFICATION FairSpec
CONSTANTS
  d1 = d1
  d2 = d2
  Delivery = {d1, d2}
  Nobody = Nobody
  MaxFaults = 1
  StaffStatus = {"CONFIRMED"}
  Environments <- MCEnvironments
CHECK_DEADLOCK FALSE
INVARIANTS
  OneInside
  AnnouncedAtMostOnce
  DeadIsCancelled
PROPERTIES
  LedgerSpec
  OutcomesArrive
  CancelledIsRefunded
