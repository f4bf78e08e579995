CONSTANTS
  Workers = {w1, w2, w3}
  WindowSize = 2
  Start = 1
  MaxLead = 2
  MaxKey = 6
SPECIFICATION Spec
INVARIANTS LastOnlyAcked IInv
PROPERTIES LimitMonotone ImplementsAckSequence
SYMMETRY Symmetry
CHECK_DEADLOCK FALSE
