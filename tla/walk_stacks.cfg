SPECIFICATION EvaluationSpec
CONSTANTS
  Registries <- BothRegistries
  Requests <- TheRequests
  Stacks <- TheStacks
  AliasStacks <- TheAliases
  Contexts <- TheContexts
  Answers <- TheAnswers
  AvailabilityWindow = 3
  Window = 2
  Cap = 2
  MaxClock = 3
CHECK_DEADLOCK FALSE
INVARIANTS
  WalkInvariant
  ValidatedNeverRefused
  SelectionSound
  DegradedAsIfRequested
  PredictionMatchesWalk
PROPERTIES
  ImplementsOrderedWalk
