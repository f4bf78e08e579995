CONSTANTS
  ThreadCount = 1
  Totals = {2}
  Modes <- LoadWithWarmUp
  MaxCalls = 1
  MaxSignals = 0
  Saturation = 8
SPECIFICATION Spec
INVARIANT LoadExact
CHECK_DEADLOCK FALSE
