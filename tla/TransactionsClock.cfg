\* Transactions that race with each other and with the clock.
CONSTANTS
  u1 = u1
  u2 = u2
  o1 = o1
  o2 = o2
  k1 = k1
  k2 = k2
  w1 = w1
  w2 = w2
  none = none
  Users = {u1}
  Orders = {o1, o2}
  Keys = {k1}
  Workers = {w1, w2}
  MaxAttempts = 2
  NoOrder = none
  LegacyUsers = {}
  LegacyOrder = o2
  LegacyDebit = 2
  Requests <- ClockRequests
  LastDay = 3
  LedgerBound = 3
  MinimumDeduction = 2
  BirthdayBonus = 2
  SilverVisits = 2
  SilverPoints = 3
  GoldVisits = 3
  GoldPoints = 7
  BirthdayRadius = 0
  YearDays = 3
  MaxInt = 9
SPECIFICATION TxnSpec
PROPERTIES
  ExpiresOnlyWhatIsDue
  ImplementsAccounts
CHECK_DEADLOCK FALSE
