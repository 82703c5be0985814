SPECIFICATION Spec
CONSTANTS
  NPages = 3
  PageUnits = 8
  Requests = {0, 1, 2}
  Wide = TRUE
  MaxLive = 7
INVARIANT ContentsKept
CHECK_DEADLOCK FALSE
