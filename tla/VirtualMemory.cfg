SPECIFICATION MCSpec
CONSTANTS
  FrameCount = 2
  Local = {1, 2}
  Increment = 1
  MaxProcs = 1
  Tick = 2
  Algorithm = "nru"
  Variant = "mem2"
  MaxVpid = 3
  None = none
INVARIANTS FramesConserved PagesOwned FlagsOfResidentPages
PROPERTY QuantumEnds
CHECK_DEADLOCK FALSE
