CONSTANTS
  Workers = {w1, w2}
  BatchSizes = {1, 2}
  insertionRetryLimit = 2
  Start = 0
  MaxKeys = 4
SPECIFICATION Spec
INVARIANTS NilMeansStored BoundedInserts EveryKeyAttempted
PROPERTY InsertsReturn
CHECK_DEADLOCK FALSE
