SPECIFICATION Spec
CONSTANTS
  MaxAttempts = 2
  Signals <- OneSignal
  Grace = 2
CHECK_DEADLOCK FALSE
INVARIANT
  ShutdownLeavesNoWorker
