CONSTANTS
  Injector = {i1, i2}
  MaxRecord = 3
  Capacity = 4
  Chunk = 2
  MaxPause = 1
  DiskFails = TRUE
  DateMode = FALSE
SPECIFICATION Spec
SYMMETRY InjectorSymmetry
INVARIANTS InOrder NothingVanishes WriteIsScheduled QuitStoresLogsNoticed
CHECK_DEADLOCK FALSE
