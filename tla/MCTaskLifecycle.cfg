SPECIFICATION FairSpec
CONSTANTS
  Li = Li
  Wang = Wang
  Assignees = {Li, Wang}
  Nobody = Nobody
  Week = Week
  Periods = {Week}
  NoPeriod = NoPeriod
  MaxVersion = 12
  MaxAttempts = 3
INVARIANTS
  TypeOK
  AttemptsAreServed
  RestsOnDelivery
  ReviewIsSound
  ChangeDecidedInExecution
  OfferIsAccepted
PROPERTIES
  LateResultIgnored
  DecisionsAreVisible
  ImplementsActivation
  DecompositionEnds
CHECK_DEADLOCK FALSE
