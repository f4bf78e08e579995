CONSTANTS
  Workers = {w1, w2}
  RecordCount = 4
  ExpectedNewKeys = 1
  Fields = {f1, f2}
  Modes <- CommonModes
  MaxKey = 6
SPECIFICATION Spec
INVARIANTS ChosenKeysInserted NoAckLeak InsertsWhole
SYMMETRY Symmetry
