CONSTANTS
  a = a
  b = b
  Thread = {t1, t2}
  Byte = {a, b}
  Size = 3
  Data <- MCData3
  ReadArg <- MCBunchArg
  Sync = FALSE
  Setters = {"loop_overwrite", "stop_read", "stop_write"}
  Disciplined = TRUE
SPECIFICATION Spec
SYMMETRY ThreadSymmetry
INVARIANTS RingInv NoUseAfterClose
PROPERTY RefinesStream
