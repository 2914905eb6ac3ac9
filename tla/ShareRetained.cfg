SPECIFICATION Spec
CONSTANTS
  s1 = s1
  s2 = s2
  f1 = f1
  f2 = f2
  f3 = f3
  r1 = r1
  r2 = r2
  r3 = r3
  j1 = j1
  j2 = j2
  None = None
  Shares = {s1}
  Files = {f1}
  NameOf <- OwnNames
  Requests = {r1}
  Runs = {j1, j2}
  JobOf <- BothJobs
  Provider = "LOCAL"
  EditablePeriod = 1
  RetentionPeriod = 3
  MaxExpiration = 0
  OneDay = 2
  MaxTime = 5
  MaxGen = 1
  MaxTasks = 2
  Infected = {}
  ClamActive = FALSE
  Lifetimes <- ShortLifetimes
  Ops <- EditOps
PROPERTIES
  RetainedAfterExpiry
CHECK_DEADLOCK FALSE
