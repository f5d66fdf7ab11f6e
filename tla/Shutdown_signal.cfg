\* A signal between main's look at the flag and its sleep.
SPECIFICATION FairSpec
CONSTANTS
  Workers = {w1}
  IoThreads = {i1}
PROPERTY SignalStopsTheServer
CHECK_DEADLOCK FALSE
