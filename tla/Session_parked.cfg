\* One client, who has more requests under way than the queue has room for.
SPECIFICATION Spec
CONSTANTS
  Connections = {c1, c2}
  Workers = {w1, w2}
  NoMessage = NoMessage
  Absent = Absent
  Incomplete = Incomplete
  Torn = Torn
  Keys <- MCKeys
  Values <- MCValues
  Unknown = {"PING"}
  LastWhenMalformed = TRUE
  Settings <- Hurried
PROPERTY RepliesAnswerRequests
SYMMETRY Symmetry
CHECK_DEADLOCK FALSE
