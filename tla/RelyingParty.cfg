SPECIFICATION AppSpec
CONSTANTS
  a = a
  b = b
  w = w
  t1 = t1
  t2 = t2
  Users = {a, b, w}
  Weak = {w}
  Tabs = {t1, t2}
  MaxMishaps = 2
  None = None
CHECK_DEADLOCK FALSE
INVARIANTS SavedUnderAccountShown SignedOutMeansOut
PROPERTY SignInSucceeds
