\* Three keys on two levels in one shard, a fourth in another; one thread that
\* clears the index or visits it while others put and remove.
SPECIFICATION Spec
CONSTANTS
  Keys = {1, 2, 3, 4}
  Values = {v1, v2}
  head_ = head_
  Nil = Nil
  Missing = Missing
  MaxLevel = 2
  kShardCount = 2
  hashKey <- MCHash
  Sweepers = {t1}
INVARIANTS TypeOK LevelsAreSortedLists ActsAsMap ClearForgets ForEachReports
