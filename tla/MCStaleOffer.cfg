SPECIFICATION Spec
CONSTANTS
  Li = Li
  Wang = Wang
  Assignees = {Li, Wang}
  Nobody = Nobody
  Week = Week
  Periods = {Week}
  NoPeriod = NoPeriod
  MaxVersion = 9
  MaxAttempts = 2
INVARIANT
  ChangeOfferIsAccepted
CHECK_DEADLOCK FALSE
