\* A value of more than 64 KiB in the middle of a file.
SPECIFICATION Spec
CONSTANTS
  Appenders = {a1}
  Keys = {k1, k2}
  Values = {v1, big}
  OversizedValues = {big}
  Torn = Torn
  Absent = Absent
  NoRecord = NoRecord
  MaxFileSize = 4
  BufferSize = 4
  TicksPerSecond = 2
  MaxTime = 3
  MaxAppends = 2
  MaxCrashes = 0
  DistinctTimes = TRUE
  RestartWithinSecond = FALSE
  ClockIsSetBack = FALSE
INVARIANT RecoversPointInTime
CHECK_DEADLOCK FALSE
