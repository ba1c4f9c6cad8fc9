SPECIFICATION Spec
CONSTANTS
  a = a
  b = b
  Users = {a, b}
  Elsewhere = {b}
  Hints = {a, b, None}
  RequireProof = FALSE
  MaxHandlers = 2
  MaxFaults = 2
  MaxWhims = 2
  None = None
CHECK_DEADLOCK FALSE
INVARIANTS PanelTellsTruth CodesBeforeApproval
PROPERTY ReachesEnd
