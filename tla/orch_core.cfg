SPECIFICATION OrchestratorFairSpec
CONSTANTS
  a = a
  b = b
  r1 = r1
  r2 = r2
  Tasks = {a, b}
  NoTask = NoTask
  Checkouts = {k1}
  NoCheckout = NoCheckout
  Unknown = Unknown
  Metered = {"cost"}
  RootLimits <- TwoUnits
  DispatchCeiling <- Ceiling
  ParentChoices <- ParentIsFixed
  PermissionChoices <- ReadOnly
  ActualsChoices <- FullyUsed
  Returning = {b}
  MAX_DELEGATION_DEPTH = 2
  MAX_DIRECT_FAN_OUT = 2
  MAX_GLOBAL_ACTIVE_CONCURRENCY = 2
  MAX_ROOT_ACTIVE_CONCURRENCY = 2
  MaxClock = 1
  RungIds = {r1, r2}
  NoRung = NoRung
  DispatchCost = 5
  Parent <- RootAndChild
  RootIdentity <- UnderA
  Depth <- DepthUnderA
  Policies <- ByDispatch
  Stacks <- TwoRungs
  ParentEvents <- EventsByDispatch
  Dispositions = {"null", "retryable", "terminal-unclassified"}
  Reports <- FullyUsed
  NoReport = NoReport
CHECK_DEADLOCK FALSE
INVARIANTS
  SessionInvariant
  LogReplays
  EscalationLinked
  DispatchesCharged
PROPERTIES
  CancellationsTold
  CancelledWorkNotCompleted
  AwaitsSettle
