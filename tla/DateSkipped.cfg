\* Two dates of birth, one after the other and back.
CONSTANTS
  dateA = dateA
  dateB = dateB
  h1 = h1
  h2 = h2
  none = none
  Bodies = {dateA, dateB}
  Dates = {dateA, dateB}
  Poison = {}
  Handlers = {h1, h2}
  NoHandler = none
  NoBody = none
  MaxAttempts = 2
  Traffics <- ThereAndBack
  FailureBound = 0
SPECIFICATION InboundSpec
INVARIANTS
  LastDateStands
CHECK_DEADLOCK FALSE
