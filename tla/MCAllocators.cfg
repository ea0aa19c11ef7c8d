CONSTANTS
  a1 = a1
  a2 = a2
  a3 = a3
  a4 = a4
  f1 = f1
  f2 = f2
  f3 = f3
  outermost = outermost
  always = always
  Allocations = {a1, a2, a3, a4}
  Frames = {f1, f2, f3}
  BlockSize = 2
  BlockCount = 2
  Sizes = {0, 1, 2, 3}
  Alignments = {1, 2, 4}
  Capacity = 5
  StackSizes = {0, 1, 2}
  RegionSizes = {0, 1, 2}
  RegionAlignments = {1, 2}
  ChunkSize = 2
  MaxResets = 2
SPECIFICATION AllSpec
SYMMETRY Symmetry
INVARIANTS
  EveryBlockIsSomewhere
  OnlyTheDeadAreGivenBack
PROPERTIES
  ImplementsAllocator
  OthersImplementAllocator
CHECK_DEADLOCK FALSE
