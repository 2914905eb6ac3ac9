SPECIFICATION Spec
CONSTANTS
  h1 = h1
  h2 = h2
  i1 = i1
  i2 = i2
  i3 = i3
  u1 = u1
  NoId = NoId
  Uploads = {u1}
  Ids = {i1, i2, i3}
  Handlers = {h1, h2}
  Chunks = 2
  MaxSize = 9
  Faults = {"crash"}
  MaxFaults = 2
INVARIANTS
  DoneMeansListed
SYMMETRY IdHandlerSymmetry
CHECK_DEADLOCK FALSE
