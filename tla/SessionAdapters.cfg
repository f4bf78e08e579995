CONSTANTS
  Workers = {w1, w2}
  Queries = {q1, q2}
  MaxFaults = 3
  QueueSize = 2
SPECIFICATION Spec
INVARIANTS NothingLeaks AddedItemsSent PanicCauses
PROPERTIES Recovers
CHECK_DEADLOCK FALSE
