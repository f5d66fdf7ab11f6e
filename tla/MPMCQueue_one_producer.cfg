\* The deployment of main.cpp: one reactor thread enqueues, workers dequeue.
\* With a single producer a refusal means that the queue is full.  No symmetry,
\* as liveness is checked.
SPECIFICATION FairSpec
CONSTANTS
  Producers = {p1}
  Consumers = {c1, c2}
  Items = {a, b}
  NoItem = NoItem
  Capacity = 2
  LongMod = 4
  MaxPos = 4
PROPERTIES FifoSpec CallsReturn
CHECK_DEADLOCK FALSE
