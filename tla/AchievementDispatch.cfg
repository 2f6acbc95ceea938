\* Two purchases on their way to the achievements, with failures and edits.
CONSTANTS
  u1 = u1
  t1 = t1
  t2 = t2
  visits = visits
  spender = spender
  p1 = p1
  p2 = p2
  w1 = w1
  w2 = w2
  none = none
  Users = {u1}
  Events = {t1, t2}
  UserOf <- Owners
  ActionOf <- Tickets
  AmountOf <- Amounts
  Achievements = {visits, spender}
  Definitions <- TheDefinitions
  Refused = {spender}
  Purchases <- TwoPurchases
  InitialDefinitions <- AtFirst
  NoDefinition = none
  Publishers = {p1, p2}
  Workers = {w1, w2}
  NoWorker = none
  JobAttempts = 2
  MaxStalls = 1
  BatchSize = 1
  FailureBound = 1
  EditBound = 1
SPECIFICATION FairDispatchSpec
INVARIANTS
  DispatchTypeOK
  RewardsAreRight
  NothingIsForgotten
PROPERTIES
  CountsExactlyOnce
  HandsIntentsOver
  EveryEventCounts
CHECK_DEADLOCK FALSE
