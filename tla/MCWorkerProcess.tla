--------------------------- MODULE MCWorkerProcess ---------------------------
(***************************************************************************)
(* Instances of WorkerProcess for TLC.                                     *)
(***************************************************************************)
EXTENDS WorkerProcess

TwoSignals == {"SIGINT", "SIGTERM"}
OneSignal == {"SIGTERM"}
==============================================================================
