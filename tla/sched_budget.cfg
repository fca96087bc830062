SPECIFICATION FairSpec
CONSTANTS
  a = a
  b = b
  c = c
  d = d
  e = e
  Tasks = {a, b}
  NoTask = NoTask
  Checkouts = {k1}
  NoCheckout = NoCheckout
  Unknown = Unknown
  Metered = {"token"}
  RootLimits <- BudgetLimits
  DispatchCeiling <- TwoUnitCeiling
  ParentChoices <- OneTree
  PermissionChoices <- ReadOnly
  ActualsChoices <- AnyActuals
  Returning = {b}
  MAX_DELEGATION_DEPTH = 2
  MAX_DIRECT_FAN_OUT = 2
  MAX_GLOBAL_ACTIVE_CONCURRENCY = 3
  MAX_ROOT_ACTIVE_CONCURRENCY = 3
  MaxClock = 5
CHECK_DEADLOCK FALSE
INVARIANTS
  LedgersSound
  CancelledRootIsQuiet
PROPERTIES
  ConsumptionNeverResets
  StartsNeverOvercommit
  ExpiredRootIsCancelled
