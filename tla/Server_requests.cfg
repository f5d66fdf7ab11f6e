\* One client, which sends three requests, each in two pieces or whole, and calls
\* that may fail.
SPECIFICATION FairSpec
CONSTANTS
  Connections = {c1}
  Workers = {w1, w2}
  Nobody = Nobody
  NoMessage = NoMessage
  Capacity = 1
  Parts = 2
  LeftOver = {0, 1}
  WorkersHaveIocp = TRUE
  CallsFail = TRUE
  MaxRequests = 3
INVARIANTS TypeOK EachRequestIsServedOnce DeafOnlyIfSplitOrParked
PROPERTY QueuedRequestsAreAnswered
CHECK_DEADLOCK FALSE
