\* Two threads, two addresses, two slab sizes and a large one; a free list
\* is full with one block, and a size_t has two values.
SPECIFICATION Spec
CONSTANTS
  Threads = {t1, t2}
  Blocks = {b1, b2}
  Null = Null
  SlabSizes = {s1, s2}
  LargeSize = Large
  NoSize = NoSize
  FreeListLimit = 1
  SizeMod = 2
INVARIANTS TypeOK BlocksHaveOneOwner HeldBlocksAreRegistered
CHECK_DEADLOCK FALSE
