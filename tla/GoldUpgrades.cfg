\* Use, rollback and reset across a month end, with a hold of the migration.
CONSTANTS
  u1 = u1
  u2 = u2
  o1 = o1
  o2 = o2
  w1 = w1
  w2 = w2
  none = none
  Users = {u1, u2}
  Orders = {o1, o2}
  NoOrder = none
  LegacyHolders = {u2}
  Workers = {w1, w2}
  LastMonth = 1
SPECIFICATION GoldSpec
SYMMETRY Symmetric
INVARIANTS
  GoldTypeOK
  OneUpgradePerMonth
  MirrorTellsTheQuota
PROPERTIES
  ReservationsAreBound
CHECK_DEADLOCK FALSE
