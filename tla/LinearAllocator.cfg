SPECIFICATION Spec
CONSTANTS
  Amount = 21
  H = 2
  Ids = {1, 2, 3}
  Requests = {1, 2, 6}
  Rewrites = FALSE
  Corrupting = {}
INVARIANTS ContentsKept WellFormed AllFreeIsWhole
PROPERTIES HeapSpec
