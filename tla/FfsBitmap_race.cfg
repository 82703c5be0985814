SPECIFICATION Spec
CONSTANTS
  p1 = p1
  p2 = p2
  p3 = p3
  d1 = d1
  d2 = d2
  Nobody = nobody
  Procs = {p1, p2}
  Dirs = {d1, d2}
  Home <- TwoDirs
  Calls = {"create", "unlink"}
  NBits = 4
  NFds = 4
  Cpus = 3
  MaxBlocks = 1
INVARIANT SetsAnEmptyBit
CHECK_DEADLOCK FALSE
