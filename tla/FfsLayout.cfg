SPECIFICATION Spec
CONSTANTS
  BlockSize = 2
  FdPerBlock = 2
  Counts = {14, 15, 16}
  FileCounts = {3, 5}
INVARIANTS MountRemembers BitmapsInPlace
