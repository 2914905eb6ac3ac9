SPECIFICATION Spec
CONSTANTS
  v1 = v1
  v2 = v2
  a = a
  b = b
  c = c
  pw = pw
  NoPassword = NoPassword
  NoToken = NoToken
  Visits = {v1, v2}
  Ips = {a, b}
  Passwords = {}
  Settings <- ViewSettings
  Updates <- NoUpdates
  MaxGen = 1
  MaxSecurities = 1
  MaxClock = 0
  MaxOpened = 2
INVARIANTS
  OpenedAtMostMaxViews
SYMMETRY VisitSymmetry
CHECK_DEADLOCK FALSE
