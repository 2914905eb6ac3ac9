SPECIFICATION Spec
CONSTANTS
  v1 = v1
  v2 = v2
  v3 = v3
  a = a
  b = b
  c = c
  pw = pw
  NoPassword = NoPassword
  NoToken = NoToken
  Visits = {v1, v2, v3}
  Ips = {a, b}
  Passwords = {pw}
  Settings <- SteadySettings
  Updates <- NoUpdates
  MaxGen = 1
  MaxSecurities = 1
  MaxClock = 0
  MaxOpened = 2
INVARIANTS
  OpenedByAtMostMaxIps
  TokensNeedPassword
  ViewsAreVisits
SYMMETRY VisitSymmetry
CHECK_DEADLOCK FALSE
