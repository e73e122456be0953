SPECIFICATION Spec
CONSTANTS
  Producer = {p1, p2}
  Consumer = {c1}
  Length = 3
  MaxMessage = 6
  DestroyAlone = TRUE
INVARIANT NothingLost
