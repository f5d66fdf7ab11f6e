\* A request that TCP delivers in two pieces.
SPECIFICATION Spec
CONSTANTS
  Connections = {c1}
  Workers = {w1}
  Nobody = Nobody
  NoMessage = NoMessage
  Capacity = 1
  Parts = 2
  LeftOver = {0, 1}
  WorkersHaveIocp = FALSE
  CallsFail = FALSE
  MaxRequests = 1
INVARIANT OpenConnectionsListen
CHECK_DEADLOCK FALSE
