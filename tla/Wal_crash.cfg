\* A server that crashes once and is started again in a later second.
SPECIFICATION FairSpec
CONSTANTS
  Appenders = {a1}
  Keys = {k1}
  Values = {v1, v2}
  OversizedValues = {}
  Torn = Torn
  Absent = Absent
  NoRecord = NoRecord
  MaxFileSize = 2
  BufferSize = 4
  TicksPerSecond = 2
  MaxTime = 5
  MaxAppends = 3
  MaxCrashes = 1
  DistinctTimes = TRUE
  RestartWithinSecond = FALSE
  ClockIsSetBack = FALSE
INVARIANTS TypeOK LogInOrder CloseDrains RecoversPointInTime
PROPERTIES AppendsReachDisk CloseReturns
CHECK_DEADLOCK FALSE
