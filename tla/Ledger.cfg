SPECIFICATION LedgerSpec
CONSTANTS
  w1 = w1
  w2 = w2
  w3 = w3
  p1 = p1
  p2 = p2
  Writers = {w1, w2, w3}
  Payloads = {p1, p2}
  Jsonb <- ReordersKeys
  NoPayload = NoPayload
  MaxEvents = 4
  u1 = u1
  u2 = u2
  u3 = u3
  b1 = b1
  b2 = b2
  Uids = {u1, u2}
  Versions = 2
  Runs = {b1, b2}
  MaxFaults = 1
CHECK_DEADLOCK FALSE
INVARIANTS WalksBack AloneMeansLinked ChainInv IInv OncePerIdentity ChainAgrees
PROPERTY EventuallyAnchored
