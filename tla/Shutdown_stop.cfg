\* Two workers and two IO threads; no symmetry, as liveness is checked.
SPECIFICATION FairSpec
CONSTANTS
  Workers = {w1, w2}
  IoThreads = {i1, i2}
INVARIANTS TypeOK UsersEndFirst
PROPERTY StopReturns
CHECK_DEADLOCK FALSE
