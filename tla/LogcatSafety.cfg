CONSTANTS
  Injector = {i1, i2}
  Client = {c1, c2, f1}
  Forwarder = {f1}
  NR = 2
  Capacity = 2
  Chunk = 2
  MaxRecord = 2
  MaxConnect = 3
  MaxClear = 1
  MayEnd = FALSE
SPECIFICATION Spec
SYMMETRY InjectorSymmetry
INVARIANTS SlotsMatchClients NoUseAfterFree ClientInOrder ClientMissesNothing
CHECK_DEADLOCK FALSE
