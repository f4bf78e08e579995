SPECIFICATION AdapterSpec
CONSTANTS
  Callers = {w1, w2}
  NumKeys = 4
  Fields = {1, 2}
  Batches <- MCBatches
  Loaded = {1, 2, 4}
  MaxScan = 3
  MaxCalls = 2
  NoRow = NoRow
  Null = Null
  SqliteConns = 2
  PageMax = 2
INVARIANTS ErrorLeavesPrefix BatchLikeSinglesByAdapter ReadsAligned ScanExact
SYMMETRY MCSymmetry
