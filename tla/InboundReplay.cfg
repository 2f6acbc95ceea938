\* A date and a purchase that fails for good until it is replayed.
CONSTANTS
  date = date
  bad = bad
  h1 = h1
  h2 = h2
  none = none
  Bodies = {date, bad}
  Dates = {date}
  Poison = {bad}
  Handlers = {h1, h2}
  NoHandler = none
  NoBody = none
  MaxAttempts = 2
  Traffics <- OneOrTheOther
  FailureBound = 2
  ReplayBound = 1
  InterventionBound = 3
SPECIFICATION FairReplaySpec
INVARIANTS
  ReplayTypeOK
  NoMessageLost
  QuarantinedForAReason
  BudgetIsKept
PROPERTIES
  OutcomesAreFenced
  EveryDeliveryEnds
CHECK_DEADLOCK FALSE
