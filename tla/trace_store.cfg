SPECIFICATION Spec
CONSTANTS
  w1 = w1
  w2 = w2
  w3 = w3
  Writers <- ThreeWriters
  Limit = 2
  MaxRecords = 6
  MaxKills = 1
  MaxShort = 1
SYMMETRY WriterSymmetry
CHECK_DEADLOCK FALSE
INVARIANTS
  StoreInvariant
  NewestKept
