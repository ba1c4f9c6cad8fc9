SPECIFICATION Spec
CONSTANTS
  p1 = p1
  p2 = p2
  g1 = g1
  g2 = g2
  o1 = o1
  o2 = o2
  People = {p1, p2}
  Posted = {p1}
  Gates = {g1, g2}
  Officers = {o1, o2}
  MaxId = 2
  MaxFlight = 2
  MaxStops = 2
  None = None
INVARIANTS SeededOnce LastCheckpointIsNewest TextStaysInItsDispatch
CHECK_DEADLOCK FALSE
