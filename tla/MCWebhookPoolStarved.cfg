SPECIFICATION PatientSpec
CONSTANTS
  d1 = d1
  d2 = d2
  d3 = d3
  p = p
  q = q
  Delivery <- MCDelivery
  Payment = {p, q}
  PaymentOf <- MCPaymentOf
  PoolSize = 2
  MaxQueries = 2
PROPERTIES
  EveryDeliveryEnds
CHECK_DEADLOCK FALSE
