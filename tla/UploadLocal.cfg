SPECIFICATION FairSpec
CONSTANTS
  h1 = h1
  h2 = h2
  i1 = i1
  i2 = i2
  i3 = i3
  i4 = i4
  i5 = i5
  i6 = i6
  u1 = u1
  u2 = u2
  NoId = NoId
  Uploads = {u1, u2}
  Ids = {i1, i2, i3, i4, i5, i6}
  Handlers = {h1, h2}
  Chunks = 3
  MaxSize = 5
  Faults = {"loss", "lastLoss", "crash"}
  MaxFaults = 2
INVARIANTS
  TypeOK
  UndisturbedIsListed
PROPERTIES
  FilesAppearWhole
  UploadEnds
CHECK_DEADLOCK FALSE
