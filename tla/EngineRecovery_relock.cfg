\* Three records of two keys.
SPECIFICATION FairSpec
CONSTANTS
  k1 = k1
  k2 = k2
  v1 = v1
  Keys = {k1, k2}
  Tombstone = Tombstone
  OversizedValues = {}
  Torn = Torn
  Absent = Absent
  Files <- OneFile
PROPERTY RecoverReturns
CHECK_DEADLOCK FALSE
