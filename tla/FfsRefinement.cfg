SPECIFICATION FairSpec
CONSTANTS
  NBlocks = 9
  Service = 1
  MaxFiles = 4
  PerBlock = 2
  Names = {hello, world, a}
  NoName = noname
  Hello = hello
  World = world
  MaxSize = 2
  MaxOps = 4
  MaxCrashes = 1
  OpsOnTorn = TRUE
INVARIANTS NoDangling SizesFit ExclusiveBlocks LinkCounts NoLeak MemoryIsDisk UniqueNames NothingCutOff
PROPERTIES ImplementsNamespace TearsAreKnown OpsEnd
CHECK_DEADLOCK FALSE
