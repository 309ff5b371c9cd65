SPECIFICATION Spec
CONSTANTS
  Actions = {report}
  Payloads = {first}
  Proposals = {p1, p2}
  Approvals = {a1}
  Rejections = {r1}
  MaxSends = 2
  MaxRetried = 2
SYMMETRY Symmetry
INVARIANTS
  DoneIsFiled
CHECK_DEADLOCK FALSE
