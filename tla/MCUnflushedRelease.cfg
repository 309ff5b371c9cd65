SPECIFICATION Spec
CONSTANTS
  Li = Li
  Wang = Wang
  Assignees = {Li, Wang}
  Nobody = Nobody
  Week = Week
  Periods = {Week}
  NoPeriod = NoPeriod
  MaxVersion = 8
  MaxAttempts = 2
INVARIANTS
  BlockedHasBlocker
CHECK_DEADLOCK FALSE
