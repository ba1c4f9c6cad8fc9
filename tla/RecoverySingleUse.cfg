SPECIFICATION Spec
CONSTANTS
  c1 = c1
  c2 = c2
  c3 = c3
  g1 = g1
  g2 = g2
  t1 = t1
  t2 = t2
  k1 = k1
  k2 = k2
  s1 = s1
  s2 = s2
  w1 = w1
  w2 = w2
  Codes = {c1, c2}
  Gens = {g1}
  GenOf <- MCGenOf
  FirstGen = g1
  Tokens = {t1, t2}
  Passkeys = {k1, k2}
  OldKeys = {k1}
  Sids = {s1, s2}
  Workers = {w1}
  Needed = 1
  MaxFaults = 0
  None = None
SYMMETRY Interchangeable
CHECK_DEADLOCK FALSE
INVARIANT CodesSingleUse
