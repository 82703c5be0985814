SPECIFICATION FairSpec
CONSTANTS
  d1 = d1
  d2 = d2
  p1 = p1
  p2 = p2
  Procs = {p1, p2}
  Dirs = {d1, d2}
  Changing = {d1}
  Removing = TRUE
  Shrinking = TRUE
  Mounted <- OneEach
  Fd = {1, 2, 3, 4}
  NInodes = 4
INVARIANTS NamesResolve ListSound
PROPERTIES PlaceKept CallsReturn
CHECK_DEADLOCK FALSE
