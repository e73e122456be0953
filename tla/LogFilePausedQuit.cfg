CONSTANTS
  Injector = {i1, i2}
  MaxRecord = 2
  Capacity = 4
  Chunk = 2
  MaxPause = 1
  DiskFails = FALSE
  DateMode = FALSE
SPECIFICATION Spec
INVARIANT QuitStoresLogs
CHECK_DEADLOCK FALSE
