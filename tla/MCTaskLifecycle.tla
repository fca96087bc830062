-------------------------- MODULE MCTaskLifecycle --------------------------
(***************************************************************************)
(* Instances of TaskLifecycle for TLC.  Costs are in half units: a         *)
(* dispatch is 5, a fresh root 20, and 35 percent of 15 just pays for one. *)
(***************************************************************************)
EXTENDS TaskLifecycle

CONSTANTS r1, r2

Policy(escalations, ceiling, verification, codeReview) ==
  [maxEscalations |-> escalations, maxReplans |-> 1, escalationCostFraction |-> 35,
   floorCeiling |-> ceiling, maxBand |-> 3, verification |-> verification,
   codeReview |-> codeReview]

\* The default limits, and a freer policy whose caps bind before its counter.
AllPolicies ==
  {Policy(n, 4, v, c) : n \in {1, 2}, v \in {"parent", "dispatch", "skip"},
                        c \in {"dispatch", "skip"}}
  \cup {Policy(2, 2, "parent", "skip")}

DispatchedCheck == {Policy(0, 4, "dispatch", "skip")}

OneOrTwoRungs == {<<r1>>, <<r1, r2>>, <<r2>>}
Costs == {14, 15}
============================================================================
