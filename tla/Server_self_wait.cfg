\* A send completes while a worker adds a response.
SPECIFICATION Spec
CONSTANTS
  Connections = {c1}
  Workers = {w1}
  Nobody = Nobody
  NoMessage = NoMessage
  Capacity = 1
  Parts = 1
  LeftOver = {0, 1}
  WorkersHaveIocp = FALSE
  CallsFail = FALSE
  MaxRequests = 2
INVARIANT IoThreadNeverBlocks
CHECK_DEADLOCK FALSE
