SPECIFICATION Spec
CONSTANTS
  v1 = v1
  v2 = v2
  a = a
  b = b
  c = c
  pw = pw
  NoPassword = NoPassword
  NoToken = NoToken
  Visits = {v1, v2}
  Ips = {a}
  Passwords = {}
  Settings <- TokenSettings
  Updates <- AddressUpdates
  MaxGen = 2
  MaxSecurities = 2
  MaxClock = 1
  MaxOpened = 2
INVARIANTS
  TypeOK
PROPERTIES
  TokenOpensItsShare
  HolderNotRefused
SYMMETRY VisitSymmetry
CHECK_DEADLOCK FALSE
