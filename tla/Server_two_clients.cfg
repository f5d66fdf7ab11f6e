\* Two clients and a queue of one; the handle of the pool is null, as in main.cpp:53.
SPECIFICATION Spec
CONSTANTS
  Connections = {c1, c2}
  Workers = {w1}
  Nobody = Nobody
  NoMessage = NoMessage
  Capacity = 1
  Parts = 1
  LeftOver = {0, 1}
  WorkersHaveIocp = FALSE
  CallsFail = FALSE
  MaxRequests = 2
INVARIANT DeafOnlyIfSplitOrParked
CHECK_DEADLOCK FALSE
