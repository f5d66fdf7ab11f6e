\* The smallest capacity that the static_assert of MPMCQueue.hpp:32 admits.
SPECIFICATION Spec
CONSTANTS
  Producers = {p1}
  Consumers = {c1}
  Items = {a, b}
  NoItem = NoItem
  Capacity = 1
  LongMod = 4
  MaxPos = 3
INVARIANT LifetimeRespected
CHECK_DEADLOCK FALSE
