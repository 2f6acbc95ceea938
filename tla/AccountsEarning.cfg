\* Every way of earning, the tiers, the birthday bonus and the jobs.
CONSTANTS
  u1 = u1
  u2 = u2
  o1 = o1
  o2 = o2
  k1 = k1
  k2 = k2
  k3 = k3
  none = none
  Users = {u1}
  Orders = {o1, o2}
  Keys = {k1, k2, k3}
  NoOrder = none
  LegacyUsers = {}
  LegacyOrder = o2
  LegacyDebit = 2
  Requests <- EarningRequests
  LastDay = 3
  LedgerBound = 4
  MinimumDeduction = 2
  BirthdayBonus = 2
  SilverVisits = 2
  SilverPoints = 3
  GoldVisits = 3
  GoldPoints = 7
  BirthdayRadius = 0
  YearDays = 3
  MaxInt = 9
SPECIFICATION AccountsSpec
INVARIANTS
  LedgerExplainsBalance
  NeverOverdrawn
  TierEventsTellTheTier
  OneBonusPerYear
CHECK_DEADLOCK FALSE
