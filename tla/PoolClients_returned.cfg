\* The reactor thread returns a block that a worker allocated.
SPECIFICATION Spec
CONSTANTS
  Threads = {worker, reactor}
  Blocks = {b1, b2}
  Null = Null
  SlabSizes = {s4096}
  LargeSize = Large
  NoSize = NoSize
  FreeListLimit = 1
  SizeMod = 4
INVARIANT BlocksReturnToThePool
CHECK_DEADLOCK FALSE
