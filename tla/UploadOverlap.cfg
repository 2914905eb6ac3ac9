SPECIFICATION Spec
CONSTANTS
  h1 = h1
  h2 = h2
  i1 = i1
  i2 = i2
  i3 = i3
  u1 = u1
  NoId = NoId
  Uploads = {u1}
  Ids = {i1, i2, i3}
  Handlers = {h1, h2}
  Chunks = 3
  MaxSize = 9
  Faults = {"loss", "overlap"}
  MaxFaults = 2
PROPERTIES
  AppendsExpectedChunk
CHECK_DEADLOCK FALSE
