\* CHECK_DEADLOCK: the supply of identities and of time is bounded.
CONSTANTS
  Tabs = {t1, t2}
  Identities = {p1, p2, p3}
  CookieMaxAge = 2
  CSRFTokenDuration = 1
  MaxTime = 3
SPECIFICATION SessionSpec
SYMMETRY MCSymmetry
INVARIANT FiledUnderPageOwner
PROPERTY PollFindsRow
CHECK_DEADLOCK FALSE
