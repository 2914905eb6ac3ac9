SPECIFICATION FairSpec
CONSTANTS
  None = None
  Revs = {v1}
  Shares = {s1, s2}
  Clients = {c1}
  Requests = {r1, r2}
  Removals = {cron, owner}
  CronJobs = {cron}
  Provider = "LOCAL"
  MaxUseCount = 1
  MaxExpiration = 0
  LinkLifetime = 0
  Lifetimes = {0}
  MaxTime = 2
  Workloads <- UseOrExpire
  MaxGen = 1
  MaxCharges = 3
INVARIANTS
  TypeOK
  PaidFor
  OverdrawnByOverlapOnly
PROPERTY
  ExpiredLinksGo
CHECK_DEADLOCK FALSE
