CONSTANTS
  a = a
  b = b
  Thread = {t1, t2}
  Byte = {a, b}
  Size = 2
  Data <- MCData2
  ReadArg <- MCReadArg
  Sync = TRUE
  Setters = {"sync_timeout"}
  Disciplined = TRUE
SPECIFICATION FairSpec
PROPERTIES CallsReturn CloseReturns
