SPECIFICATION Spec
CONSTANTS
  Saves = {a1, a2}
  Batches <- Good
  Periods = {0, 1}
  Yamls <- NoFiles
  MaxAdmins = 2
  ApiTokenIds = {t1}
  Calls = {c1, c2}
  Limit = 2
  Ttl = 2
  Window = 2
  MaxTime = 5
  Work <- OnlyConfig
  MaxRestarts = 2
INVARIANT
  StoredIsConsistent
CHECK_DEADLOCK FALSE
