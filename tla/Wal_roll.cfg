\* More records in a second than a file is meant to hold, none of them buffered.
SPECIFICATION Spec
CONSTANTS
  Appenders = {a1}
  Keys = {k1, k2}
  Values = {v1}
  OversizedValues = {}
  Torn = Torn
  Absent = Absent
  NoRecord = NoRecord
  MaxFileSize = 2
  BufferSize = 0
  TicksPerSecond = 4
  MaxTime = 3
  MaxAppends = 4
  MaxCrashes = 0
  DistinctTimes = FALSE
  RestartWithinSecond = FALSE
  ClockIsSetBack = FALSE
INVARIANT FilesAreRolled
CHECK_DEADLOCK FALSE
