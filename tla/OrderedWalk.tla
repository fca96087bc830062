----------------------------- MODULE OrderedWalk -----------------------------
(***************************************************************************)
(* What a bounded fallback promises: the rungs of a stack are tried in     *)
(* their order, each at most once and one at a time; the next one is tried *)
(* only after the one before failed in a way that another backend could    *)
(* cure, and nothing is tried once the walk has ended.                     *)
(***************************************************************************)
EXTENDS Naturals

VARIABLES
  last,     \* index of the rung tried last, 0 when none was
  failure,  \* how it failed, "null" when it has not
  walk      \* "open", "trying", "selected" or "stopped"
orderVars == <<last, failure, walk>>

Init == last = 0 /\ failure = "null" /\ walk = "open"

Try == /\ walk = "open"
       /\ last' \in Nat /\ last' > last
       /\ failure' = "null"
       /\ walk' = "trying"

Succeed == walk = "trying" /\ walk' = "selected" /\ UNCHANGED <<last, failure>>

\* Another rung may follow a failure exactly when it was retryable.
Fail == /\ walk = "trying"
        /\ failure' \in {"retryable", "terminal", "terminal-unclassified",
                         "terminal-completed-low-quality"}
        /\ walk' = IF failure' = "retryable" THEN "open" ELSE "stopped"
        /\ UNCHANGED last

Stop == walk = "open" /\ walk' = "stopped" /\ UNCHANGED <<last, failure>>

Next == Try \/ Succeed \/ Fail \/ Stop
Spec == Init /\ [][Next]_orderVars
==============================================================================
