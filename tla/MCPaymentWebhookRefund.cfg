SPECIFICATION FairSpec
CONSTANTS
  d1 = d1
  d2 = d2
  Delivery = {d1, d2}
  Nobody = Nobody
  MaxFaults = 1
  StaffStatus = {"CONFIRMED"}
  Environments <- MCHistory
PROPERTIES
  CancelledPaidIsRefunded
CHECK_DEADLOCK FALSE
