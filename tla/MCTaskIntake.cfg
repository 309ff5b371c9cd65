SPECIFICATION Spec
CONSTANTS
  Inputs = {i1}
  MaxExtractions = 2
  Requests = {r1, r2}
  Critical = {deadline}
  MaxLosses = 1
  None = None
INVARIANTS
  SubmittedOnce
PROPERTIES
  ConfirmationIsAnswered
CHECK_DEADLOCK FALSE
