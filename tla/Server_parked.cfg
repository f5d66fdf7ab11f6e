\* The pool's handle is null, as in main.cpp:53.
SPECIFICATION FairSpec
CONSTANTS
  Connections = {c1}
  Workers = {w1}
  Nobody = Nobody
  NoMessage = NoMessage
  Capacity = 1
  Parts = 1
  LeftOver = {0, 1}
  WorkersHaveIocp = FALSE
  CallsFail = FALSE
  MaxRequests = 3
PROPERTY ParkedRequestsMove
CHECK_DEADLOCK FALSE
