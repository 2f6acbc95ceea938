\* One notification job, whose worker stops between the mark and the message.
CONSTANTS
  u1 = u1
  u2 = u2
  o1 = o1
  w1 = w1
  w2 = w2
  none = none
  Users = {u1, u2}
  Orders = {o1}
  Keys = {}
  NoOrder = none
  LegacyUsers = {u1, u2}
  LegacyOrder = o1
  LegacyDebit = 2
  Requests <- Changes
  LastDay = 2
  LedgerBound = 9
  MinimumDeduction = 2
  BirthdayBonus = 2
  SilverVisits = 2
  SilverPoints = 3
  GoldVisits = 3
  GoldPoints = 7
  BirthdayRadius = 0
  YearDays = 2
  MaxInt = 7
  Workers = {w1, w2}
  NoWorker = none
  JobAttempts = 2
  MaxStalls = 1
  IdOf <- Ids
  BatchSize = 1
  NotifyDays = 1
  Schedules <- OneNotification
  ChangeBound = 2
  FailureBound = 2
SPECIFICATION JobsSpec
INVARIANTS
  NotificationsFollowMarks
CHECK_DEADLOCK FALSE
