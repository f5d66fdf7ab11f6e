\* Values that fit a slab block and a value that does not, and a free list for
\* one block: blocks are parked, and go back to the system and come back.
SPECIFICATION Spec
CONSTANTS
  Threads = {t1, t2}
  Blocks = {b1, b2, b3}
  Null = Null
  SlabSizes = {s64}
  SmallSize = s64
  LargeSize = Large
  NoSize = NoSize
  FreeListLimit = 1
  SizeMod = 4
  Keys = {k1, k2}
  SmallValues = {v1, v2}
  LargeValues = {w1}
  Empty = Empty
  Missing = Missing
  Garbage = Garbage
  NoCall = NoCall
  MaxUpdates = 3
SYMMETRY Symmetry
INVARIANTS TypeOK LogReplaysToIndex IndexedBlocksAreLive
PROPERTY Linearizable
