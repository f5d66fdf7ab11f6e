\* Two producers and two consumers on a two-cell queue; the positions run past
\* the end of the ring twice and past the range of a long.
SPECIFICATION Spec
CONSTANTS
  Producers = {p1, p2}
  Consumers = {c1, c2}
  Items = {a, b}
  NoItem = NoItem
  Capacity = 2
  LongMod = 4
  MaxPos = 3
SYMMETRY Symmetry
INVARIANTS IInv ExclusiveCell LifetimeRespected DestroyLeavesNoObject
PROPERTY FifoSpec
CHECK_DEADLOCK FALSE
