-------------------------- MODULE RoutingEvaluation --------------------------
(***************************************************************************)
(* evaluateRouting of evaluate-policy.ts and what it decides for: a routing*)
(* context is resolved to a candidate stack, the walk of that stack is     *)
(* predicted, and a capability selection is made; then the engine really   *)
(* walks the stack.  The two were written apart and must agree.            *)
(***************************************************************************)
EXTENDS FallbackTraversal, CapabilitySelection, WorkloadProfile

CONSTANTS
  Stacks,          \* compiled automatic stacks
  AliasStacks,     \* public alias -> its pinned stack
  Contexts,        \* routing contexts asked about
  AvailabilityWindow

\* Scores and prices are counts of their unit, what may be unknown is at most one.
RowOK(row) ==
  /\ IsFiniteSet(row.measurements) /\ \A m \in row.measurements : m.score \in Nat
  /\ row.usd \subseteq Nat /\ \A p, q \in row.usd : p = q
ContextOK(c) ==
  /\ c.snapshot.bandWidth \in Nat \ {0}
  /\ \A r \in DOMAIN c.snapshot.rows : RowOK(c.snapshot.rows[r])
  /\ IsFiniteSet(c.quotas)
  /\ \A o \in c.quotas : o.at \in Nat /\ o.left \subseteq Nat /\ \A x, y \in o.left : x = y
  /\ c.cost \in Int
EntryOK(entry) ==
  /\ entry.maturity \in Maturities
  /\ entry.transportBackend \in Backends \cup NoBackend
  /\ entry.fixedEffort \in Efforts \cup {Null}
\* What is walked for a context; a pin gets one attempt.
walkRequest(stack, policy) ==
  Request(stack.route, stack.rungs, IF stack.automaticFallback THEN {} ELSE {1}, policy)

ASSUME EvaluationAssumption ==
  /\ \A c \in Contexts : ContextOK(c)
  /\ \A r \in Registries : \A e \in Elements(r) : EntryOK(e)
  /\ \A s \in Stacks \cup {AliasStacks[a] : a \in DOMAIN AliasStacks} :
       /\ s.rungs \in Seq([stableId : STRING, effort : STRING]) \ {<<>>}
       /\ \A c \in Contexts : c.dispatch => walkRequest(s, c.retryPolicy) \in Requests

VARIABLES
  context,         \* the context evaluated
  evaluation       \* what evaluateRouting returned for it

vars == <<registry, request, cursor, attempts, charged, crossPending, status, ended, now,
          context, evaluation>>

parentLocalPhases == {"analyze"}

(* Route and stack. *)

capabilityRouteForPhase(phase) ==
  CASE phase \in {"implement", "deploy"} -> IMPLEMENT [] phase = "verify" -> CHECK [] OTHER -> EXPLORE

routeOf(c) == IF c.alias = NoClass THEN capabilityRouteForPhase(c.phase) ELSE AliasStacks[c.alias].route
stackFor(c) ==
  IF c.alias # NoClass THEN {AliasStacks[c.alias]}
  ELSE candidateStackFor(Stacks, routeOf(c), c.phase, resolveWorkloadClass(c))
errorFor(c) ==
  CASE c.alias # NoClass /\ c.alias \notin DOMAIN AliasStacks -> "unknown-alias"
    [] c.alias \in DOMAIN AliasStacks /\ c.phase # "analyze" /\ capabilityRouteForPhase(c.phase) # routeOf(c)
         -> "alias-route-mismatch"
    [] c.alias = NoClass /\ c.phase \in parentLocalPhases -> "parent-local-phase"
    [] c.alias = NoClass /\ c.phase = "implement" /\ resolveWorkloadClass(c) = NoClass
         -> IF c.evidence = {} THEN "workload-class-required" ELSE "insufficient-evidence"
    [] OTHER -> IF stackFor(c) = {} THEN "no-candidate-stack" ELSE Null

(* predictTraversal: every rung is looked at, and one is predicted. *)

eligibleForRoute(entry, route) ==
  /\ entry.maturity \in RunnableMaturities
  /\ route \in entry.routeEligibility
  /\ CAPABILITY_ROUTES[route].sandbox \in entry.sandboxPermissionSupport
  /\ CAPABILITY_ROUTES[route].outputContract \in entry.outputContracts
  /\ entry.evidence /\ entry.identity
  /\ entry.transportBackend \notin NoBackend
rungStatus(known, rung, route, snapshot, view) ==
  IF ~ Known(known, rung.stableId) THEN "unknown-model"
  ELSE LET entry == registryIndex(known, rung.stableId)
           pool == rowFor(snapshot, rungId(rung)).pool
       IN  CASE entry.maturity \notin RunnableMaturities -> "not-runnable"
             [] entry.maturity \in RunnableMaturities /\ ~ eligibleForRoute(entry, route) -> "ineligible"
             [] OTHER -> IF view.backends[entry.transportBackend] = "unavailable" THEN "unavailable"
                         ELSE IF pool # Null /\ leftIn(view, pool) = {0} THEN "quota-exhausted"
                         ELSE "runnable"
\* Slip: the last runnable rung is predicted.
\* selectedIndex: {} when no rung is runnable.
predictTraversalLast(known, stack, snapshot, view) ==
  LET statuses == [i \in DOMAIN stack.rungs |-> rungStatus(known, stack.rungs[i], stack.route, snapshot, view)]
  IN  [statuses |-> statuses,
       selectedIndex |-> {i \in DOMAIN statuses : statuses[i] = "runnable" /\
                            \A j \in DOMAIN statuses : j > i => statuses[j] # "runnable"}]
predictTraversal(known, stack, snapshot, view) ==
  LET statuses == [i \in DOMAIN stack.rungs |-> rungStatus(known, stack.rungs[i], stack.route, snapshot, view)]
  IN  [statuses |-> statuses,
       selectedIndex |-> {i \in DOMAIN statuses : statuses[i] = "runnable" /\
                            \A j \in DOMAIN statuses : j < i => statuses[j] # "runnable"}]

(* evaluateRouting. *)

viewFor(c) == buildAvailabilityView(c.observations, c.quotas, c.nowMs, AvailabilityWindow)

\* Only implement has stacks a class or a pin can name; elsewhere the floor is
\* that of the route's own stack, whichever stack is walked.
floorStacksFor(c, stack) ==
  IF stack.route = IMPLEMENT /\ (c.alias # NoClass \/ resolveWorkloadClass(c) = NoClass) THEN {stack}
  ELSE candidateStackFor(Stacks, stack.route, Null,
                         IF c.phase = "implement" THEN resolveWorkloadClass(c) ELSE NoClass)
floorStackFor(c, stack) == CHOOSE s \in floorStacksFor(c, stack) : TRUE
floorFor(known, c, stack) ==
  deriveFloor(floorStackFor(c, stack), axisForCapabilityRoute(stack.route), c.snapshot, known)

selectionRequestFor(known, c, stack) ==
  SelectionRequest(stack.route, floorFor(known, c, stack), c.override, c.excludedRung, c.excludedStableId,
                   deriveLeadPolicy(stack, known))

Evaluation(error, stack, traversal, asked, selection) ==
  [error |-> error, stack |-> stack, traversal |-> traversal, asked |-> asked, selection |-> selection]
NoEvaluation == Evaluation("none", {}, {}, {}, {})
evaluateRouting(known, c) ==
  IF errorFor(c) # Null THEN Evaluation(errorFor(c), {}, {}, {}, {})
  ELSE LET stack == CHOOSE s \in stackFor(c) : TRUE
           asked == selectionRequestFor(known, c, stack)
           traversal == predictTraversal(known, stack, c.snapshot, viewFor(c))
       IN  IF \E o \in c.override : ~ Known(known, o.stableId)
           THEN Evaluation("override-unknown-model", {stack}, {traversal}, {}, {})
           ELSE Evaluation(Null, {stack}, {traversal}, {asked},
                           {select(asked, known, c.snapshot, c.cost, viewFor(c), c.nowMs)})

(* The machine. *)

EvaluationInit == Init /\ context = {} /\ evaluation = NoEvaluation

\* A stack led by an unknown model throws, as does a route without a stack of its
\* own to take the floor from, and nothing is evaluated.
Evaluate(c) ==
  /\ status = "idle" /\ context = {}
  /\ errorFor(c) = Null =>
       \A s \in stackFor(c) : Known(registry, s.rungs[1].stableId) /\ floorStacksFor(c, s) # {}
  /\ context' = {c}
  /\ evaluation' = evaluateRouting(registry, c)
  /\ UNCHANGED walkVars

\* The engine walks the stack of the same context.
Dispatch(c) ==
  /\ context = {c} /\ c.dispatch
  /\ \E s \in evaluation.stack : Begin(walkRequest(s, c.retryPolicy))
  /\ UNCHANGED <<context, evaluation>>

EvaluationNext ==
  \/ \E c \in Contexts : Evaluate(c) \/ Dispatch(c)
  \/ (Steps \/ Answer \/ Tick) /\ UNCHANGED <<context, evaluation>>

EvaluationSpec == EvaluationInit /\ [][EvaluationNext]_vars

(* Properties. *)

Asked == CHOOSE c \in context : TRUE
Validated == \A s \in evaluation.stack : validateModelRegistry(registry, {s}) = {}
Selection == CHOOSE d \in evaluation.selection : TRUE
DuplicateIds == \E i, j \in DOMAIN registry : i # j /\ registry[i].stableId = registry[j].stableId
SelectedFreely == \E d \in evaluation.selection : d.outcome = "selected" /\ ~ d.overrideApplied

\* What predictTraversal says of each rung is what the engine finds when it comes to
\* it.  The first rung attempted is the first not called inert, the selected one or
\* one the prediction passed over for a reason the engine does not look at; no inert
\* or unknown rung is attempted; a walk that ran out attempted every other rung; and
\* a rung the engine refuses was called unknown or ineligible.
PredictionMatchesWalk ==
  status # "idle" =>
    \A t \in evaluation.traversal :
      LET open == {i \in DOMAIN t.statuses : t.statuses[i] # "not-runnable"}
          tried == {attempts[k].index : k \in DOMAIN attempts}
      IN  /\ attempts # <<>> =>
               /\ attempts[1].index = LowestOf(open)
               /\ \/ t.selectedIndex = {attempts[1].index}
                  \/ t.statuses[attempts[1].index] \in {"unavailable", "quota-exhausted", "ineligible"}
          /\ \A i \in tried : t.statuses[i] \notin {"not-runnable", "unknown-model"}
          /\ status = "stack-exhausted" => tried = open
          /\ ended.incompatible =>
               duplicateRung(request.rungs) \/ t.statuses[cursor] \in {"unknown-model", "ineligible"}

\* Every rung of a registry without duplicate ids is accounted for exactly once in
\* a free selection:
\* it is offered, rejected by name, out of bounds, pruned or too dear; only a
\* pruned rung brought back to lead is in two places.
EveryRungExplained ==
  (SelectedFreely /\ ~ DuplicateIds) =>
    \A q \in evaluation.asked :
      LET offered == {Selection.stack[i] : i \in DOMAIN Selection.stack}
          view == viewFor(Asked)
          placed(c) == {x \in 1..5 :
            CASE x = 1 -> c \in offered
              [] x = 2 -> rejectionOf(c, q, view) # "eligible"
              [] x = 3 -> rejectionOf(c, q, view) = "eligible"
                          /\ (aboveCeiling(c, q) \/ belowFloor(c, Selection.effectiveFloor))
              [] x = 4 -> c \in Selection.found.pruned
              [] x = 5 -> c \in Selection.found.constrained}
      IN  \A c \in Candidates(registry, Asked.snapshot, q.axis) :
            Cardinality(placed(c)) = 1 \/ (placed(c) = {1, 4} /\ c = Selection.stack[1])

\* selection.ts: "a degraded selection is indistinguishable from one requested at
\* that floor to begin with".
DegradedAsIfRequested ==
  SelectedFreely =>
    \A q \in evaluation.asked :
      LET again == [q EXCEPT !.floor = [@ EXCEPT !.capabilityFloor = Selection.effectiveFloor]]
      IN  select(again, registry, Asked.snapshot, Asked.cost, viewFor(Asked), Asked.nowMs) = Selection

\* capability-floor.ts: "a floor is always the band of a rung that exists, so it
\* can never be unreachable": in a fresh, valid snapshot, while nothing is
\* unavailable, too dear, or excluded, the floor of a validated stack with a
\* dispatchable lead free of a role restriction is met, and met without lowering it.
DerivedFloorReachable ==
  \A q \in evaluation.asked : \A s \in evaluation.stack :
    LET source == floorStackFor(Asked, s)
    IN  (/\ Asked.observations = {} /\ Asked.quotas = {} /\ Asked.override = {}
         /\ Asked.excludedRung = {} /\ Asked.excludedStableId = {}
         /\ Asked.cost > 0
         /\ \A r \in DOMAIN Asked.snapshot.rows : \A p \in Asked.snapshot.rows[r].usd : p <= Asked.cost
         /\ validateCapabilitySnapshot(Asked.snapshot, registry, Asked.nowMs) = {}
         /\ validateModelRegistry(registry, {source}) = {}
         /\ deriveLeadPolicy(source, registry) # {}
         /\ registryIndex(registry, source.rungs[1].stableId).roleRestriction = Null)
        => Selection.outcome = "selected" /\ Selection.effectiveFloor = q.floor.capabilityFloor

\* The backend that leads today keeps the lead unless a strictly higher measured
\* band takes it, or nothing of it that is within bounds can be afforded.
LeadKeepsBackend ==
  SelectedFreely =>
    \A q \in evaluation.asked : \A b \in q.incumbent :
      LET able == {c \in withinBounds(eligibleIn(q, registry, Asked.snapshot, viewFor(Asked)), q,
                                      Selection.effectiveFloor) :
                     c.backend = b /\ \A p \in c.row.usd : p <= Asked.cost}
      IN  \/ Selection.stack[1].backend = b
          \/ able = {}
          \/ LET ranked == {c \in able : c.band # {}}
             IN  ranked # {} /\ \A c \in ranked : improvesBand(Selection.stack[1], c)

\* A free selection places every rung it was offered exactly once, keeps the incumbent
\* in the lead where it must, and a derived floor is one it can meet.
SelectionSound == EveryRungExplained /\ LeadKeepsBackend /\ DerivedFloorReachable
==============================================================================
