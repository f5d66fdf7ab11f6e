\* A value may be the empty string.
SPECIFICATION Spec
CONSTANTS
  Threads = {t1, t2}
  Blocks = {b1, b2, b3}
  Null = Null
  SlabSizes = {s64}
  SmallSize = s64
  LargeSize = Large
  NoSize = NoSize
  FreeListLimit = 3
  SizeMod = 4
  Keys = {k1}
  SmallValues = {v1, Empty}
  LargeValues = {}
  Empty = Empty
  Missing = Missing
  Garbage = Garbage
  NoCall = NoCall
  MaxUpdates = 3
SYMMETRY Symmetry
INVARIANT LogReplaysToIndex
