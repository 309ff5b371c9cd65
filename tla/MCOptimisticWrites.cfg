SPECIFICATION Spec
CONSTANTS
  Actions = {report}
  Payloads = {first, edited}
  Proposals = {p1}
  Approvals = {a1}
  Rejections = {r1}
  MaxSends = 2
  MaxRetried = 2
SYMMETRY Symmetry
INVARIANTS
  TypeOK
  OneEffect
  DoneIsApplied
  LateResendSucceeds
  ApprovedOnItsBase
CHECK_DEADLOCK FALSE
