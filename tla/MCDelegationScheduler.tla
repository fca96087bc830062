------------------------ MODULE MCDelegationScheduler ------------------------
(***************************************************************************)
(* Instances of DelegationScheduler for TLC.  Units are scaled: the limits *)
(* keep the order between dispatch ceilings and root limits of             *)
(* BUDGET_LIMITS_V1, not their values.                                     *)
(***************************************************************************)
EXTENDS DelegationScheduler

CONSTANTS a, b, c, d, e

\* Two roots a and d.  b, c and e ask a, whose fan-out holds two of them, and e asks
\* b too, below the depth there may be.
TwoTrees ==
  [t \in Tasks |-> CASE t \in {a, d} -> {NoTask} [] t = e -> {a, b} [] OTHER -> {a}]

\* One tree only.
OneTree == [t \in Tasks |-> CASE t = a -> {NoTask} [] t = b -> {a}]

ReadOnly == {{"read"}}
ReadOrWrite == {{"read"}, {"read", "write"}}

SlotLimits == [x \in Dimensions |-> IF x = "call" THEN 4 ELSE 2]
BudgetLimits == [x \in Dimensions |-> CASE x = "call" -> 3 [] x = "concurrency" -> 2
                                        [] x = "wallTimeMs" -> 4 [] OTHER -> 3]
UnitCeiling == [x \in Dimensions |-> 1]
TwoUnitCeiling == [x \in Dimensions |-> IF x \in SlotDimensions THEN 1 ELSE 2]

Measured(k, v) == [x \in Metered \cup {"call"} |-> IF x = "call" THEN k ELSE v]
UnchargedActual == {Measured(0, 0)}
AnyActuals == {Measured(1, Unknown), Measured(0, 0), Measured(Unknown, 3)}
==============================================================================
