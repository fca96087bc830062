SPECIFICATION FairSpec
CONSTANTS
  MaxAttempts = 2
  Signals <- TwoSignals
  Grace = 2
CHECK_DEADLOCK FALSE
INVARIANTS
  ProcessInvariant
  SweptTreesAreGone
PROPERTIES
  StopsSettle
