SPECIFICATION ChainSpec
CONSTANTS
  w1 = w1
  w2 = w2
  w3 = w3
  p1 = p1
  p2 = p2
  Writers = {w1, w2}
  Payloads = {p1, p2}
  Jsonb <- ReordersKeys
  NoPayload = NoPayload
  MaxEvents = 3
SYMMETRY WriterSymmetry
CHECK_DEADLOCK FALSE
INVARIANT LinearChain
