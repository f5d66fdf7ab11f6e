\* A restart in the second of the crash appends to a file whose last record is torn.
SPECIFICATION Spec
CONSTANTS
  Appenders = {a1}
  Keys = {k1, k2}
  Values = {v1, v2}
  OversizedValues = {}
  Torn = Torn
  Absent = Absent
  NoRecord = NoRecord
  MaxFileSize = 4
  BufferSize = 4
  TicksPerSecond = 4
  MaxTime = 3
  MaxAppends = 2
  MaxCrashes = 1
  DistinctTimes = TRUE
  RestartWithinSecond = TRUE
  ClockIsSetBack = FALSE
INVARIANT RecoversPointInTime
CHECK_DEADLOCK FALSE
