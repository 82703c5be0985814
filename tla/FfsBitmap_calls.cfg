SPECIFICATION MCSpec
CONSTANTS
  p1 = p1
  p2 = p2
  p3 = p3
  d1 = d1
  d2 = d2
  Nobody = nobody
  Procs = {p1, p2}
  Dirs = {d1, d2}
  Home <- TwoDirs
  Calls = {"create", "write", "unlink"}
  NBits = 3
  NFds = 2
  Cpus = 2
  MaxBlocks = 2
INVARIANTS DiskMatches KnownStops
PROPERTY EveryCallReturns
CHECK_DEADLOCK FALSE
