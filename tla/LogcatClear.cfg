CONSTANTS
  Injector = {i1, i2}
  Client = {c1, c2, f1}
  Forwarder = {f1}
  NR = 1
  Capacity = 2
  Chunk = 2
  MaxRecord = 1
  MaxConnect = 1
  MaxClear = 1
  MayEnd = FALSE
SPECIFICATION FairSpec
PROPERTY ClearEnds
CHECK_DEADLOCK FALSE
