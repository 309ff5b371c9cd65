SPECIFICATION Spec
CONSTANTS
  Li = Li
  Wang = Wang
  People = {Li, Wang}
  Main = Li
  Creator = Wang
  Workers = {w1, w2}
  Overlapping = {"event", "issue"}
  Sent = {"event"}
  Plans <- SmallPlans
  Horizon = 5
  Limit = 1
  MaxCrashes = 1
  None = None
INVARIANTS
  DeliveredOnce
PROPERTIES
  OverdueIsTold
  EveryNotificationSettles
CHECK_DEADLOCK FALSE
