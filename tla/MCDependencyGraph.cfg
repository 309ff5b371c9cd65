SPECIFICATION FairSpec
CONSTANTS
  Nodes = {n1, n2, n3}
  Foreign = {f1}
  MaxEdges = 4
INVARIANTS
  TypeOK
  DecidesAcyclicity
PROPERTIES
  GetsVerdict
CHECK_DEADLOCK FALSE
