\* One client with requests under way and one worker, or two clients that wait for
\* each response and two workers.
SPECIFICATION Spec
CONSTANTS
  Connections = {c1, c2}
  Workers = {w1, w2}
  NoMessage = NoMessage
  Absent = Absent
  Incomplete = Incomplete
  Torn = Torn
  Keys <- MCKeys
  Values <- MCValues
  Unknown = {"PING"}
  LastWhenMalformed = TRUE
  Settings <- Careful
INVARIANTS TypeOK DecoderKeepsUp
PROPERTY RepliesAnswerRequests
SYMMETRY Symmetry
CHECK_DEADLOCK FALSE
