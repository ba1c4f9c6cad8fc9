SPECIFICATION Spec
CONSTANTS
  c1 = c1
  c2 = c2
  cl1 = cl1
  cl2 = cl2
  t1 = t1
  t2 = t2
  t3 = t3
  w1 = w1
  w2 = w2
  w3 = w3
  Codes = {c1, c2}
  Clients = {cl1, cl2}
  IssuedTo <- MCIssuedTo
  Tokens = {t1, t2, t3}
  Workers = {w1, w2, w3}
  MaxFaults = 1
  NoCode = NoCode
SYMMETRY Interchangeable
CHECK_DEADLOCK FALSE
INVARIANTS SingleUseUnlessRaced AnswersComplete IInv
PROPERTY SettledIsFinal
