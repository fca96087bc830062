SPECIFICATION Spec
CONSTANTS
  a = a
  b = b
  c = c
  d = d
  e = e
  Tasks = {a, b, c, d, e}
  NoTask = NoTask
  Checkouts = {k1}
  NoCheckout = NoCheckout
  Unknown = Unknown
  Metered = {}
  RootLimits <- SlotLimits
  DispatchCeiling <- UnitCeiling
  ParentChoices <- TwoTrees
  PermissionChoices <- ReadOrWrite
  ActualsChoices <- UnchargedActual
  Returning = {}
  MAX_DELEGATION_DEPTH = 1
  MAX_DIRECT_FAN_OUT = 2
  MAX_GLOBAL_ACTIVE_CONCURRENCY = 2
  MAX_ROOT_ACTIVE_CONCURRENCY = 2
  MaxClock = 0
CHECK_DEADLOCK FALSE
INVARIANTS
  SlotAccounting
  ReservationsMatchActive
  SerializedWriters
  CancelledRootIsQuiet
  TreeConsistent
PROPERTIES
  ImplementsDispatchPool
