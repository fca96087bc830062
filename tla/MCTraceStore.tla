---------------------------- MODULE MCTraceStore -----------------------------
(***************************************************************************)
(* Instances of TraceStore for TLC.                                        *)
(***************************************************************************)
EXTENDS TraceStore, TLC

CONSTANTS w1, w2, w3
ThreeWriters == {w1, w2, w3}
WriterSymmetry == Permutations(ThreeWriters)
==============================================================================
