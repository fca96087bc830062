SPECIFICATION Spec
CONSTANTS
  w1 = w1
  w2 = w2
  w3 = w3
  Writers <- ThreeWriters
  Limit = 2
  MaxRecords = 5
  MaxKills = 0
  MaxShort = 0
SYMMETRY WriterSymmetry
CHECK_DEADLOCK FALSE
INVARIANT
  MostRecentRetained
