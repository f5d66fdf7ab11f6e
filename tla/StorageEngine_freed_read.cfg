\* A get against a put that replaces a value of more than 4096 bytes.
SPECIFICATION Spec
CONSTANTS
  Threads = {t1, t2}
  Blocks = {b1, b2}
  Null = Null
  SlabSizes = {s64}
  SmallSize = s64
  LargeSize = Large
  NoSize = NoSize
  FreeListLimit = 1
  SizeMod = 4
  Keys = {k1}
  SmallValues = {v1}
  LargeValues = {w1}
  Empty = Empty
  Missing = Missing
  Garbage = Garbage
  NoCall = NoCall
  MaxUpdates = 3
SYMMETRY Symmetry
INVARIANT GetReadsALiveBlock
