SPECIFICATION Spec
CONSTANTS
  r1 = r1
  r2 = r2
  RungIds = {r1, r2}
  NoRung = NoRung
  DispatchCost = 5
  MAX_DELEGATION_DEPTH = 2
  MAX_DIRECT_FAN_OUT = 2
  MAX_GLOBAL_ACTIVE_CONCURRENCY = 3
  MAX_ROOT_ACTIVE_CONCURRENCY = 3
  Policies <- AllPolicies
  Depths = {0, 2}
  Stacks <- OneOrTwoRungs
  CostChoices <- Costs
  MaxRuns = 4
CHECK_DEADLOCK FALSE
INVARIANTS
  LifeInvariant
  WithinPolicy
  AcceptedWasVerified
  ChecksSpareLead
  OutcomesRecorded
PROPERTIES
  FollowsTransitionTable
