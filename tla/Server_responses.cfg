\* One request and its response.
SPECIFICATION FairSpec
CONSTANTS
  Connections = {c1}
  Workers = {w1}
  Nobody = Nobody
  NoMessage = NoMessage
  Capacity = 1
  Parts = 1
  LeftOver = {0, 1}
  WorkersHaveIocp = FALSE
  CallsFail = FALSE
  MaxRequests = 1
PROPERTY ResponsesArrive
CHECK_DEADLOCK FALSE
