SPECIFICATION Spec
CONSTANTS
  None = None
  p = p
  q = q
  Requests = {r1, r2, r3, r4}
  Passwords = {p, q}
  Workloads <- Codes
  TotpOverlaps = TRUE
INVARIANT
  LoginTokenOnce
CHECK_DEADLOCK FALSE
