\* Two producers: a refusal computed from a stale position.
SPECIFICATION HSpec
CONSTANTS
  Producers = {p1, p2}
  Consumers = {c1, c2}
  Items = {a}
  NoItem = NoItem
  Capacity = 2
  LongMod = 4
  MaxPos = 4
SYMMETRY Symmetry
PROPERTY RefusedOnlyWhenFull
CHECK_DEADLOCK FALSE
