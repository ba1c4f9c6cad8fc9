SPECIFICATION FairSpec
CONSTANTS
  h1 = h1
  w1 = w1
  w2 = w2
  u1 = u1
  u2 = u2
  s1 = s1
  r1 = r1
  Handoffs = {h1}
  Workers = {w1, w2}
  Subjects = {u1, u2}
  Enrolled = {u1, u2}
  Receipts <- MCReceipts
  Sids = {s1}
  Requests = {r1}
  RequireZk = FALSE
  MaxFaults = 1
  None = None
CHECK_DEADLOCK FALSE
INVARIANTS IInv EarnedLogin SingleLogin OneVerdict PageTellsTruth
PROPERTIES KeepsPromise ApprovalReachesPage
