SPECIFICATION Spec
CONSTANTS
  d1 = d1
  d2 = d2
  r1 = r1
  w1 = w1
  w3 = w3
  w2 = w2
  Drafts = {d1, d2}
  Requests = {r1}
  Workers = {w1, w2, w3}
  MaxFaults = 1
  MaxServed = 3
  None = None
SYMMETRY Interchangeable
CHECK_DEADLOCK FALSE
INVARIANTS IInv LogIsLinear RecordsAgree OneReceiptUnlessRaced
PROPERTY SettledRequestIsFinal
