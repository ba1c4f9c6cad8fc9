SPECIFICATION Spec
CONSTANTS
  r1 = r1
  r2 = r2
  s1 = s1
  s2 = s2
  u1 = u1
  cl1 = cl1
  r3 = r3
  openid = openid
  profile = profile
  Scopes = {openid, profile}
  ScopesOf <- MCScopesOf
  w1 = w1
  w2 = w2
  Requests = {r1, r2, r3}
  Sids = {s1, s2}
  Subjects = {u1}
  Clients = {cl1}
  ClientOf <- MCClientOf
  Workers = {w1, w2}
  Forced = {r2}
  RequestTtl = 1
  HandoffTtl = 1
  ShowTtl = 1
  FormTtl = 1
  MaxEntries = 3
  MaxFaults = 1
  None = None
SYMMETRY Interchangeable
CHECK_DEADLOCK FALSE
INVARIANTS CodesAreConsented OneAnswerPerSession FreshLogin
