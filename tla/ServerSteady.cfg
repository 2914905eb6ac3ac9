SPECIFICATION Spec
CONSTANTS
  Saves = {a1, a2}
  Batches <- UpToTwo
  Periods = {0, 1}
  Yamls <- SomeFiles
  MaxAdmins = 2
  ApiTokenIds = {t1}
  Calls = {c1, c2}
  Limit = 2
  Ttl = 2
  Window = 2
  MaxTime = 5
  Work <- EitherWork
  MaxRestarts = 2
INVARIANTS
  TypeOK
  StartsAgain
  CopyFollows
  WithinLimit
  UsageIsRecent
SYMMETRY ServerSymmetry
CHECK_DEADLOCK FALSE
