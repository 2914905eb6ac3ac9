SPECIFICATION FairSpec
CONSTANTS
  None = None
  p = p
  q = q
  Requests = {r1, r2, r3, r4}
  Passwords = {p, q}
  Workloads <- Each
  TotpOverlaps = FALSE
INVARIANTS
  TypeOK
  ResetOnce
  LoginTokenSpent
  VerifiedSecretConfirmed
PROPERTY
  ExpiredTokensGo
CHECK_DEADLOCK FALSE
