SPECIFICATION GCSpec
CONSTANTS
  LogFiles <- MCLogFiles
  Counts <- MCCounts
  Ratios <- MCRatios
  MaxCompactions = 1
INVARIANTS TotalsAccount AllCollected
PROPERTY Ends
