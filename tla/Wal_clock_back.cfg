\* The clock is set back between two appends of one key.
SPECIFICATION Spec
CONSTANTS
  Appenders = {a1}
  Keys = {k1, k2}
  Values = {v1, v2}
  OversizedValues = {}
  Torn = Torn
  Absent = Absent
  NoRecord = NoRecord
  MaxFileSize = 4
  BufferSize = 4
  TicksPerSecond = 4
  MaxTime = 2
  MaxAppends = 2
  MaxCrashes = 0
  DistinctTimes = TRUE
  RestartWithinSecond = FALSE
  ClockIsSetBack = TRUE
INVARIANT RecoversPointInTime
CHECK_DEADLOCK FALSE
