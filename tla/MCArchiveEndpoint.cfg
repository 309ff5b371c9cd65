SPECIFICATION EndpointSpec
CONSTANTS
  Li = Li
  Wang = Wang
  Assignees = {Li, Wang}
  Nobody = Nobody
  Week = Week
  Periods = {Week}
  NoPeriod = NoPeriod
  MaxVersion = 11
  MaxAttempts = 2
SYMMETRY Symmetry
INVARIANTS
  ExecutionIsEffective
PROPERTIES
  LateResultIgnored
  SettledAttemptStays
CHECK_DEADLOCK FALSE
