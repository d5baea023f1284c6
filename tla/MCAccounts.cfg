SPECIFICATION MCSpec
CONSTANTS
  Parts = {"users", "login", "gate", "notifications", "limiter", "mail"}
  Identities = {"z1", "z2"}
  Profiled = {"z2"}
  Mailboxes <- MCMailboxes
  RowIds = {"row1", "row2", "row3"}
  EditedEmails = {"g", "e", "", "row1"}
  MaxUserRequests = 3
  MaxUserFaults = 1
  LoginNames = {"a", "b"}
  ReviewLogins = {"b"}
  Providers = {"a"}
  MaxLoginRequests = 3
  MaxLoginFaults = 1
  k1 = k1
  k2 = k2
  c1 = c1
  c2 = c2
  q1 = q1
  q2 = q2
  q3 = q3
  q4 = q4
  Key = {k1, k2}
  Code = {c1, c2}
  Entry = {"e1", "e2", "e3", "e4"}
  Request = {q1, q2, q3, q4}
  KeyOf <- MCKeyOf
  CodeOf <- MCCodeOf
  NoEntry = NoEntry
  NoCode = NoCode
  NoRequest = NoRequest
  Phones = {"i", "a"}
  IPhones = {"i"}
  Households = {{"i"}, {"a"}}
  Updaters = {"u1"}
  Statuses = {"CONFIRMED", "DELIVERED", "CANCELLED"}
  Languages = {"fr", "nl"}
  MaxEvents = 2
  MaxPushFaults = 1
  Keys = {"ip1", "ip2"}
  Callers = {"x", "y"}
  Limiters = {"l1", "l2", "l3"}
  NoLimiter = "nil"
  Burst = 2
  Period = 2
  Idle = 5
  Stall = 1
  Mailees = {"a@x", "b@x"}
  BounceWindow = 3
  BouncePageSize = 1
  MaxMails = 2
  MaxHours = 5
  MaxMailFaults = 1
CHECK_DEADLOCK FALSE
INVARIANTS
  AccountsTypeOK
  OneAccountEach
  ErasureHolds
  LoginsAnswered
  LastCodeIsLive
  GateSound
  DevicesTold
  SuppressionSound
PROPERTIES
  AnswersEarned
  LimitsHold
