SPECIFICATION Spec
CONSTANTS
  NPages = 3
  PageUnits = 8
  Requests = {0, 1, 2, 4}
  Wide = FALSE
  MaxLive = 7
INVARIANTS WellFormed AllFreeIsWhole
PROPERTIES HeapSpec
CHECK_DEADLOCK FALSE
