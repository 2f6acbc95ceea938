\* Two replicas, a new event, and the rows that the old publisher left.
CONSTANTS
  e1 = e1
  e2 = e2
  e3 = e3
  e4 = e4
  p1 = p1
  p2 = p2
  Events = {e1, e2, e3, e4}
  Publishers = {p1, p2}
  MaxAttempts = 2
  BatchSize = 2
  Concurrency = 1
  LegacyClaims = {e4}
  LegacyAttempts <- Attempted
  CrashBound = 1
SPECIFICATION FairOutboxSpec
INVARIANTS
  OutboxTypeOK
  SettledForAReason
PROPERTIES
  ResultsAreFenced
  HandsEventsOver
CHECK_DEADLOCK FALSE
