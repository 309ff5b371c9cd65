SPECIFICATION Spec
CONSTANTS
  Requests = {r1, r2}
  MaxTokens = 4
  MaxLapses = 2
  MaxLosses = 1
  MaxLogouts = 1
  None = None
INVARIANTS
  TypeOK
  NeverComesWithASpentToken
PROPERTIES
  EveryRequestEnds
CHECK_DEADLOCK FALSE
