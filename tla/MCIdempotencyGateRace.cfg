SPECIFICATION GateSpec
CONSTANTS
  k1 = k1
  k2 = k2
  c1 = c1
  c2 = c2
  r1 = r1
  r2 = r2
  r3 = r3
  r4 = r4
  e1 = e1
  e2 = e2
  e3 = e3
  e4 = e4
  Key = {k1, k2}
  Code = {c1, c2}
  Entry = {e1, e2, e3, e4}
  Request = {r1, r2, r3, r4}
  KeyOf <- MCKeyOf
  CodeOf <- MCCodeOf
  NoEntry = NoEntry
  NoCode = NoCode
  NoRequest = NoRequest
INVARIANTS
  OperationsSerialized
CHECK_DEADLOCK FALSE
