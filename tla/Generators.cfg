SPECIFICATION Spec
CONSTANTS
  Workers = {w1, w2}
  MaxItems = 5
  Free = Free
  RecordCounts = {1, 3, 4}
  Configs <- MCConfigs
  Darts = 12
  RegionKeys = 2
  MinRegions = 3
  MaxInt = 7
  MaxDraws = 5
INVARIANTS ZetaExact LatestKeyExists KeysInRange OperationFitsBucket DrawsProportional
PROPERTY DrawsReturn
