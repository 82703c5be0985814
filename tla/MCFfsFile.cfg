SPECIFICATION Spec
CONSTANTS
  NBlocks = 7
  Service = 2
  PerBlock = 3
  Files = {f1, f2}
  Procs = {p1, p2}
  Values = {101, 102}
  Uses = {}
  MaxSize = 6
  MaxLen = 4
  MaxOps = 5
SYMMETRY Symmetry
INVARIANTS ReadsBack BlocksOwned Reclaimed
CHECK_DEADLOCK FALSE
