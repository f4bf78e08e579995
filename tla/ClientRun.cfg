CONSTANTS
  ThreadCount = 2
  Totals = {1, 3}
  Modes <- CommonModes
  MaxCalls = 2
  MaxSignals = 2
  Saturation = 6
SPECIFICATION Spec
INVARIANTS QuietOutput TotalAgrees MeasuredIsCounted AllExecuted
PROPERTY Terminates
CHECK_DEADLOCK FALSE
