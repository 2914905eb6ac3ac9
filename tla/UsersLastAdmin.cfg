SPECIFICATION Spec
CONSTANTS
  None = None
  f1 = f1
  f2 = f2
  a = a
  b = b
  c = c
  dn1 = dn1
  x = x
  Founders = {f1, f2}
  Requests = {r1, r2, r3}
  Emails = {a, b, c}
  LdapNames = {dn1}
  Identities = {x}
  Tasks <- LastAdmin
  Overlapping = TRUE
INVARIANT
  SomeoneIsAdmin
CHECK_DEADLOCK FALSE
