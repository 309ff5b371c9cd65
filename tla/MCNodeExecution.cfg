SPECIFICATION Spec
CONSTANTS
  Li = Li
  Wang = Wang
  Main = Li
  People = {Li, Wang}
  Nodes = {n1, n2}
  Issues = {i1}
  Full = 1
  None = None
SYMMETRY NodeSymmetry
INVARIANTS
  TypeOK
  ReviewedIsComplete
  ReworkNodeStays
  DependenciesAreAcyclic
  StartedInOrder
  BlockedHasOpenIssue
  SomebodyIsAsked
PROPERTIES
  ImplementsContract
CHECK_DEADLOCK FALSE
