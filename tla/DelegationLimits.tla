-------------------------- MODULE DelegationLimits --------------------------
(***************************************************************************)
(* The limits delegation-scheduler.ts exports, shared by the scheduler and *)
(* the task machine.                                                       *)
(***************************************************************************)
CONSTANTS
  MAX_DELEGATION_DEPTH,
  MAX_DIRECT_FAN_OUT,
  MAX_GLOBAL_ACTIVE_CONCURRENCY,
  MAX_ROOT_ACTIVE_CONCURRENCY
=============================================================================
