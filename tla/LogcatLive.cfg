CONSTANTS
  Injector = {i1, i2}
  Client = {c1, f1}
  Forwarder = {f1}
  NR = 1
  Capacity = 2
  Chunk = 1
  MaxRecord = 2
  MaxConnect = 2
  MaxClear = 0
  MayEnd = TRUE
SPECIFICATION FairSpec
PROPERTIES Delivered SlotGivenBack
CHECK_DEADLOCK FALSE
