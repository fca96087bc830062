SPECIFICATION RunFairSpec
CONSTANTS
  Registries <- Shipped
  Requests <- TheRequests
  Answers <- TheAnswers
  Trials <- TheTrials
  Window = 1
  Cap = 2
  MaxClock = 0
CHECK_DEADLOCK FALSE
INVARIANTS
  RunInvariant
  AcceptedNeverRejected
  DispatchedAsContracted
  TracesTellRun
PROPERTIES
  RunEnds
