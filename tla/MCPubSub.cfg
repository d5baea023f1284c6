SPECIFICATION BrokerFairSpec
CONSTANTS
  p1 = p1
  p2 = p2
  s1 = s1
  s2 = s2
  Publisher = {p1, p2}
  Subscriber = {s1, s2}
  MaxMessages = 2
CHECK_DEADLOCK FALSE
INVARIANTS
  NeverPanics
PROPERTIES
  InOrderPerPublisher
  GoroutineEnds
