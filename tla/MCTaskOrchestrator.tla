------------------------- MODULE MCTaskOrchestrator -------------------------
(***************************************************************************)
(* Instances of TaskOrchestrator for TLC: a root a and its child b, one    *)
(* metered dimension in cost units (a dispatch reserves 5 of a root's 20). *)
(***************************************************************************)
EXTENDS TaskOrchestrator

CONSTANTS a, b, r1, r2

RootAndChild == [t \in Tasks |-> IF t = a THEN NoTask ELSE a]
UnderA == [t \in Tasks |-> a]
DepthUnderA == [t \in Tasks |-> IF t = a THEN 0 ELSE 1]
ParentIsFixed == [t \in Tasks |-> {RootAndChild[t]}]

Limits(calls, wall) ==
  [x \in Dimensions |-> CASE x = "call" -> calls [] x = "concurrency" -> 2
                          [] x = "wallTimeMs" -> wall [] OTHER -> 20]
ThreeCalls == Limits(3, 9)
TwoUnits == Limits(3, 2)
Ceiling == [x \in Dimensions |-> IF x = "cost" THEN 5 ELSE 1]

ReadOnly == {{"read"}}
Used(cost) == [x \in Metered \cup {"call"} |-> IF x = "call" THEN 1 ELSE cost]
FreeOrFull == {Used(0), Used(5)}
FullyUsed == {Used(5)}

Policy(verification, codeReview) ==
  [maxEscalations |-> 1, maxReplans |-> 1, escalationCostFraction |-> 35,
   floorCeiling |-> 4, maxBand |-> 4, verification |-> verification,
   codeReview |-> codeReview]

\* The parent checks for itself.
ByParent == {Policy("parent", "skip")}
\* Checks are dispatched and nothing is planned anew.
ByDispatch == {[Policy("dispatch", "skip") EXCEPT !.maxReplans = 0]}

OneRung == {<<r1>>}
TwoRungs == {<<r1>>, <<r2>>}

Planning ==
  {[kind |-> "classified", route |-> "other", floor |-> 1],
   [kind |-> "planned", criteria |-> TRUE]}
Verdicts(mode, rungs) ==
  [kind : {"verified"}, verdict : VerdictKind, mode : {mode}, rung : rungs]
Recovering ==
  [kind : {"escalation-authorized"}, toBand : {2}]
  \cup [kind : {"escalation-denied", "ship-authorized"}]

EventsByParent == Planning \cup Verdicts("parent", {NoRung}) \cup Recovering
EventsByDispatch == Planning \cup Verdicts("dispatch", {r1, r2}) \cup Recovering
==============================================================================
