---------------------- MODULE RoutingEvaluation_proofs -----------------------
(***************************************************************************)
(* For every registry, every set of stacks and every context asked about:  *)
(* the walk does what the evaluation predicted of it, a selection places   *)
(* every rung it was offered, keeps the incumbent in the lead where it     *)
(* must, meets the floor derived for it, and looks the same whether a      *)
(* floor was lowered to or asked for.                                      *)
(***************************************************************************)
EXTENDS RoutingEvaluation, FallbackTraversal_proofs

(* The invariant of the evaluation and the walk after it. *)

AllStacks == Stacks \cup {AliasStacks[a] : a \in DOMAIN AliasStacks}

\* The cursor passes a rung that may not run, stops at one that is refused, and the
\* first attempt is of the first rung that is neither.
Passing ==
  /\ \A k \in DOMAIN attempts : Runnable(attempts[k].index)
  /\ attempts # <<>> => \A i \in DOMAIN request.rungs : i < attempts[1].index => NonRunnable(i)
  /\ status \in {"walking", "attempting"} =>
       \A i \in DOMAIN request.rungs : i < cursor => ~ Incompatible(i)
  /\ status = "stack-exhausted" => \A i \in DOMAIN request.rungs : ~ Incompatible(i)
  /\ ended.incompatible =>
       duplicateRung(request.rungs) \/ (cursor \in DOMAIN request.rungs /\ Incompatible(cursor))

\* What was evaluated stays what evaluateRouting says of the context, and the walk
\* is of the stack it resolved.
Evaluated(c) ==
  /\ c \in Contexts /\ context = {c} /\ evaluation = evaluateRouting(registry, c)
  /\ errorFor(c) = Null => \A s \in stackFor(c) : floorStacksFor(c, s) # {}
EvaluationInv ==
  /\ registry \in Registries
  /\ context = {} => evaluation = NoEvaluation /\ status = "idle"
  /\ context # {} => \E c \in Contexts : Evaluated(c)
  /\ status # "idle" => \E s \in evaluation.stack, p \in Policies : request = walkRequest(s, p)

\* A context that resolves without an error has a stack.
LEMMA StackOf ==
  ASSUME NEW c \in Contexts, errorFor(c) = Null
  PROVE  stackFor(c) # {} /\ stackFor(c) \subseteq AllStacks
<1>1. stackFor(c) # {} /\ (c.alias # NoClass => c.alias \in DOMAIN AliasStacks)
  <2>1. CASE c.alias # NoClass /\ c.alias \notin DOMAIN AliasStacks
    BY <2>1 DEF errorFor, Null
  <2>2. CASE c.alias \in DOMAIN AliasStacks /\ c.alias # NoClass
    BY <2>2 DEF stackFor
  <2>3. CASE c.alias = NoClass
    BY <2>3 DEF errorFor, Null
  <2> QED
    BY <2>1, <2>2, <2>3
<1>2. stackFor(c) \subseteq AllStacks
  BY <1>1 DEF stackFor, candidateStackFor, AllStacks
<1> QED
  BY <1>1, <1>2

\* What an evaluation consists of.
LEMMA Parts ==
  ASSUME NEW c \in Contexts, NEW e, e = evaluateRouting(registry, c)
  PROVE  /\ errorFor(c) # Null => e.stack = {} /\ e.traversal = {} /\ e.asked = {} /\ e.selection = {}
         /\ errorFor(c) = Null =>
              \E s \in stackFor(c) :
                /\ e.stack = {s}
                /\ e.traversal = {predictTraversal(registry, s, c.snapshot, viewFor(c))}
                /\ \/ e.asked = {} /\ e.selection = {}
                   \/ LET q == selectionRequestFor(registry, c, s)
                      IN  /\ e.asked = {q}
                          /\ e.selection = {select(q, registry, c.snapshot, c.cost, viewFor(c), c.nowMs)}
<1>1. CASE errorFor(c) # Null
  BY <1>1 DEF evaluateRouting, Evaluation
<1>2. CASE errorFor(c) = Null
  <2> DEFINE s == CHOOSE x \in stackFor(c) : TRUE
             q == selectionRequestFor(registry, c, s)
             t == predictTraversal(registry, s, c.snapshot, viewFor(c))
             d == select(q, registry, c.snapshot, c.cost, viewFor(c), c.nowMs)
  <2>1. s \in stackFor(c)
    BY <1>2, StackOf
  <2>2. \/ e = Evaluation("override-unknown-model", {s}, {t}, {}, {})
        \/ e = Evaluation(Null, {s}, {t}, {q}, {d})
    BY <1>2 DEF evaluateRouting
  <2> HIDE DEF s, t, q, d
  <2>3. /\ e.stack = {s} /\ e.traversal = {t}
        /\ \/ e.asked = {} /\ e.selection = {}
           \/ e.asked = {q} /\ e.selection = {d}
    BY <2>2 DEF Evaluation
  <2> QED
    BY <1>2, <2>1, <2>3 DEF q, t, d
<1> QED
  BY <1>1, <1>2

LEMMA DispatchBegins ==
  ASSUME EvaluationInv, NEW c \in Contexts, Dispatch(c)
  PROVE  \E s \in evaluation.stack, p \in Policies :
           walkRequest(s, p) \in Requests /\ Begin(walkRequest(s, p))
<1>1. c \in Contexts /\ evaluation = evaluateRouting(registry, c) /\ c.dispatch
  <2>1. context = {c} /\ c.dispatch
    BY DEF Dispatch
  <2>2. PICK d \in Contexts : Evaluated(d)
    BY <2>1 DEF EvaluationInv
  <2> QED
    BY <2>1, <2>2 DEF Evaluated
<1>2. PICK s \in evaluation.stack : Begin(walkRequest(s, c.retryPolicy))
  BY DEF Dispatch
<1>3. s \in AllStacks
  <2>1. errorFor(c) = Null
    BY <1>1, <1>2, Parts
  <2> QED
    BY <1>1, <1>2, <2>1, Parts, StackOf
<1>4. walkRequest(s, c.retryPolicy) \in Requests
  BY <1>1, <1>3, EvaluationAssumption DEF AllStacks
<1>5. c.retryPolicy \in Policies
  BY <1>4, TraversalAssumption DEF walkRequest, Request
<1> QED
  BY <1>2, <1>4, <1>5

LEMMA StepsOfWalk == ASSUME EvaluationInv, [EvaluationNext]_vars PROVE [Next]_walkVars
<1>1. ASSUME NEW c \in Contexts, Evaluate(c) PROVE [Next]_walkVars
  BY <1>1 DEF Evaluate
<1>2. ASSUME NEW c \in Contexts, Dispatch(c) PROVE [Next]_walkVars
  BY <1>2, DispatchBegins DEF Next
<1>3. CASE Steps \/ Answer \/ Tick
  BY <1>3 DEF Next
<1>4. CASE UNCHANGED vars
  BY <1>4 DEF vars, walkVars
<1> QED
  BY <1>1, <1>2, <1>3, <1>4 DEF EvaluationNext

LEMMA EvaluationStep == EvaluationInv /\ [EvaluationNext]_vars => EvaluationInv'
<1> SUFFICES ASSUME EvaluationInv, [EvaluationNext]_vars PROVE EvaluationInv'
  OBVIOUS
<1>1. ASSUME UNCHANGED <<registry, context>>, UNCHANGED evaluation,
             status' # "idle" => \E s \in evaluation.stack, p \in Policies : request' = walkRequest(s, p),
             context # {}
      PROVE  EvaluationInv'
  BY <1>1 DEF EvaluationInv, Evaluated
<1>2. ASSUME NEW c \in Contexts, Evaluate(c) PROVE EvaluationInv'
  <2>1. UNCHANGED walkVars /\ status = "idle" /\ context' = {c} /\ evaluation' = evaluateRouting(registry, c)
        /\ (errorFor(c) = Null => \A s \in stackFor(c) : floorStacksFor(c, s) # {})
    BY <1>2 DEF Evaluate
  <2>2. UNCHANGED <<registry, status>>
    BY <2>1 DEF walkVars
  <2>3. Evaluated(c)'
    BY <2>1, <2>2 DEF Evaluated
  <2>4. registry' \in Registries /\ context' # {} /\ status' = "idle"
    BY <2>1, <2>2 DEF EvaluationInv
  <2> QED
    BY <2>3, <2>4 DEF EvaluationInv
<1>3. ASSUME NEW c \in Contexts, Dispatch(c) PROVE EvaluationInv'
  <2>1. PICK s \in evaluation.stack, p \in Policies : Begin(walkRequest(s, p))
    BY <1>3, DispatchBegins
  <2>2. registry' = registry /\ request' = walkRequest(s, p)
    BY <2>1 DEF Begin
  <2>3. context # {} /\ UNCHANGED <<context, evaluation>>
    BY <1>3 DEF Dispatch
  <2> QED
    BY <1>1, <2>2, <2>3
<1>4. CASE (Steps \/ Answer \/ Tick) /\ UNCHANGED <<context, evaluation>>
  <2>1. status \in {"walking", "attempting"} /\ UNCHANGED <<registry, request>>
    BY <1>4 DEF Steps, Answer, Tick, SkipNonRunnable, RefuseIncompatible, StopAtMaxAttempts,
                BlockedByRetryBudget, StartAttempt, Exhaust, AttemptSucceeds, AttemptFails, At
  <2>2. context # {}
    BY <2>1 DEF EvaluationInv
  <2> QED
    BY <1>1, <1>4, <2>1, <2>2 DEF EvaluationInv
<1>5. CASE UNCHANGED vars
  <2>1. UNCHANGED <<registry, request, status, context>> /\ UNCHANGED evaluation
    BY <1>5 DEF vars
  <2> QED
    BY <2>1 DEF EvaluationInv, Evaluated
<1> QED
  BY <1>2, <1>3, <1>4, <1>5 DEF EvaluationNext

LEMMA RungsKept ==
  ASSUME UNCHANGED <<registry, request>>
  PROVE  /\ \A i : Runnable(i)' <=> Runnable(i)
         /\ \A i : NonRunnable(i)' <=> NonRunnable(i)
         /\ \A i : Incompatible(i)' <=> Incompatible(i)
BY DEF Runnable, NonRunnable, Incompatible, rungOf, entryOf, Contract

LEMMA PassingStep == WInv /\ WInv' /\ ValidInv /\ Passing /\ [Next]_walkVars => Passing'
<1> SUFFICES ASSUME WInv, WInv', ValidInv, Passing, [Next]_walkVars PROVE Passing'
  OBVIOUS
<1> DEFINE n == Len(attempts)
<1>1. /\ n \in Nat /\ DOMAIN attempts = 1..n /\ attempts \in Seq(AttemptRecord) /\ cursor \in Nat
      /\ (attempts = <<>>) <=> (n = 0)
  BY Records DEF WInv, WalkTypes
<1>2. /\ Len(request.rungs) \in Nat /\ DOMAIN request.rungs = 1..Len(request.rungs)
      /\ \A i \in DOMAIN request.rungs : i \in Nat
  BY RungTypes DEF WInv
<1>3. status \in {"walking", "attempting"} => ~ ended.incompatible
  BY DEF ValidInv
<1>4. ASSUME NEW q \in Requests, Begin(q) PROVE Passing'
  <2>1. /\ status = "idle" /\ attempts' = <<>> /\ cursor' = 1 /\ status' \in {"terminal", "walking"}
        /\ request' = q
        /\ duplicateRung(q.rungs) \/ ended' = ended
    BY <1>4 DEF Begin, Finish, WInv, Fresh0
  <2>2. DOMAIN attempts' = {} /\ ~ ended.incompatible
    BY <2>1 DEF ValidInv
  <2>3. \A i \in DOMAIN q.rungs : ~ (i < 1)
    BY TraversalAssumption
  <2> QED
    BY <2>1, <2>2, <2>3 DEF Passing
<1>5. CASE SkipNonRunnable
  <2>1. /\ cursor \in DOMAIN request.rungs /\ NonRunnable(cursor) /\ status = "walking"
        /\ UNCHANGED <<registry, request, attempts, status, ended>> /\ cursor' = cursor + 1
    BY <1>5 DEF SkipNonRunnable, At, afterSkip
  <2>2. ~ Incompatible(cursor)
    BY <2>1 DEF Incompatible, NonRunnable
  <2>3. \A i \in DOMAIN request.rungs : i < cursor + 1 => i < cursor \/ i = cursor
    BY <1>1, <1>2
  <2> QED
    BY <1>3, <2>1, <2>2, <2>3, RungsKept DEF Passing
<1>6. CASE RefuseIncompatible
  <2>1. /\ cursor \in DOMAIN request.rungs /\ Incompatible(cursor)
        /\ UNCHANGED <<registry, request, attempts, cursor>> /\ status' = "terminal"
    BY <1>6 DEF RefuseIncompatible, At, Finish
  <2> QED
    BY <2>1, RungsKept DEF Passing
<1>7. CASE StopAtMaxAttempts \/ BlockedByRetryBudget \/ AttemptSucceeds
  <2>1. /\ UNCHANGED <<registry, request, attempts, cursor>> /\ status' \in {"budget-exhausted", "selected"}
        /\ ended'.incompatible = FALSE
    BY <1>7 DEF StopAtMaxAttempts, BlockedByRetryBudget, AttemptSucceeds, Finish, End
  <2> QED
    BY <2>1, RungsKept DEF Passing
<1>8. CASE StartAttempt
  <2>1. /\ UNCHANGED <<registry, request, cursor, ended>> /\ status = "walking" /\ status' = "attempting"
        /\ cursor \in DOMAIN request.rungs /\ Runnable(cursor)
        /\ \E e : attempts' = Append(attempts, e) /\ e.index = cursor
    BY <1>8 DEF StartAttempt, At, Attempt
  <2>2. PICK e : attempts' = Append(attempts, e) /\ e.index = cursor
    BY <2>1
  <2>3. Len(attempts') = n + 1 /\ DOMAIN attempts' = 1..(n + 1) /\ attempts'[n + 1] = e
        /\ \A k \in 1..n : attempts'[k] = attempts[k]
    BY <1>1, <2>2
  <2>4. \A k \in 1..(n + 1) : k \in 1..n \/ k = n + 1
    BY <1>1
  <2>5. \A k \in 1..(n + 1) : Runnable(attempts'[k].index)
    BY <1>1, <2>1, <2>2, <2>3, <2>4 DEF Passing
  <2>6. \A i \in DOMAIN request.rungs : i < attempts'[1].index => NonRunnable(i)
    <3>1. CASE n = 0
      <4>1. attempts'[1].index = cursor /\ DOMAIN attempts = {}
        BY <1>1, <2>2, <2>3, <3>1
      <4>2. \A i \in DOMAIN request.rungs : i < cursor => ~ Runnable(i) /\ ~ Incompatible(i)
        BY <2>1, <4>1 DEF WInv, PassedWereTried, Passing
      <4> QED
        BY <4>1, <4>2 DEF Runnable
    <3>2. CASE n # 0
      <4>1. attempts # <<>> /\ attempts'[1] = attempts[1]
        BY <1>1, <2>3, <3>2
      <4> QED
        BY <4>1 DEF Passing
    <3> QED
      BY <3>1, <3>2
  <2>7. \A i \in DOMAIN request.rungs : i < cursor => ~ Incompatible(i)
    BY <2>1 DEF Passing
  <2> QED
    BY <1>3, <2>1, <2>3, <2>5, <2>6, <2>7, RungsKept DEF Passing
<1>9. ASSUME NEW d \in Answers, AttemptFails(d) PROVE Passing'
  <2>1. /\ UNCHANGED <<registry, request>> /\ status = "attempting"
        /\ attempts' = [attempts EXCEPT ![n] = [attempts[n] EXCEPT !.disposition = d]]
        /\ \/ status' = "walking" /\ cursor' = cursor + 1 /\ ended' = ended
           \/ status' = "terminal" /\ ended'.incompatible = FALSE
    BY <1>9 DEF AttemptFails, Finish, End
  <2>2. \A k \in 1..n : attempts[k] \in AttemptRecord
    BY <1>1
  <2>3. DOMAIN attempts' = 1..n /\ \A k \in 1..n : attempts'[k].index = attempts[k].index
    BY <1>1, <2>1, <2>2 DEF AttemptRecord
  <2>4. n # 0 /\ attempts[n].index = cursor /\ n \in 1..n /\ 1 \in 1..n
    <3>1. attempts # <<>> /\ attempts[n].index = cursor
      BY <2>1 DEF WInv, CursorLeads, Newest
    <3> QED
      BY <1>1, <3>1
  <2>5. Runnable(cursor) /\ \A k \in 1..n : Runnable(attempts'[k].index)
    BY <1>1, <2>3, <2>4 DEF Passing
  <2>6. \A i \in DOMAIN request.rungs : i < attempts'[1].index => NonRunnable(i)
    BY <1>1, <2>3, <2>4 DEF Passing
  <2>7. \A i \in DOMAIN request.rungs : i < cursor + 1 => ~ Incompatible(i)
    <3>1. \A i \in DOMAIN request.rungs : i < cursor + 1 => i < cursor \/ i = cursor
      BY <1>1, <1>2
    <3> QED
      BY <2>1, <2>5, <3>1 DEF Passing, Runnable
  <2> QED
    BY <1>3, <2>1, <2>3, <2>5, <2>6, <2>7, RungsKept DEF Passing
<1>10. CASE Exhaust
  <2>1. /\ UNCHANGED <<registry, request, attempts, cursor>> /\ status = "walking" /\ status' = "stack-exhausted"
        /\ cursor > Len(request.rungs) /\ ended'.incompatible = FALSE
    BY <1>10 DEF Exhaust, Finish, End
  <2>2. \A i \in DOMAIN request.rungs : ~ Incompatible(i)
    BY <1>1, <1>2, <2>1 DEF Passing
  <2> QED
    BY <2>1, <2>2, RungsKept DEF Passing
<1>11. CASE Tick \/ UNCHANGED walkVars
  <2>1. UNCHANGED <<registry, request, attempts, cursor, status, ended>>
    BY <1>11 DEF Tick, walkVars
  <2> QED
    BY <2>1, RungsKept DEF Passing
<1> QED
  BY <1>4, <1>5, <1>6, <1>7, <1>8, <1>9, <1>10, <1>11 DEF Next, Steps, Answer

LEMMA InitInvariants == EvaluationInit => EvaluationInv /\ WInv /\ ValidInv /\ Passing
<1> SUFFICES ASSUME EvaluationInit PROVE EvaluationInv /\ Passing
  BY InitWInv, ValidInit DEF EvaluationInit
<1>1. EvaluationInv
  BY DEF EvaluationInit, Init, EvaluationInv
<1>2. attempts = <<>> /\ status = "idle" /\ DOMAIN attempts = {} /\ ended.incompatible = FALSE
  BY DEF EvaluationInit, Init, Running, End
<1> QED
  BY <1>1, <1>2 DEF Passing

FullInv == EvaluationInv /\ WInv /\ ValidInv /\ Passing
LEMMA EvaluationInvariance == EvaluationSpec => []FullInv
<1>1. EvaluationInit => FullInv
  BY InitInvariants DEF FullInv
<1>2. FullInv /\ [EvaluationNext]_vars => FullInv'
  <2> SUFFICES ASSUME FullInv, [EvaluationNext]_vars PROVE FullInv'
    OBVIOUS
  <2>1. [Next]_walkVars
    BY StepsOfWalk DEF FullInv
  <2>2. WInv' /\ ValidInv' /\ EvaluationInv'
    BY <2>1, NextWInv, ValidStep, EvaluationStep DEF FullInv
  <2> QED
    BY <2>1, <2>2, PassingStep DEF FullInv
<1> QED
  BY <1>1, <1>2, PTL DEF EvaluationSpec

\* Whatever context is evaluated first, the walk after it is a walk of runFallbackTraversal,
\* with all that is proved of those: it keeps to its retry budget, is ordered, and refuses
\* nothing the validator lets through.
THEOREM EvaluationWalks ==
  EvaluationSpec => Spec /\ []WalkInvariant /\ []ValidatedNeverRefused /\ ImplementsOrderedWalk
<1>1. EvaluationInit => Init
  BY DEF EvaluationInit
<1>2. FullInv /\ [EvaluationNext]_vars => [Next]_walkVars
  BY StepsOfWalk DEF FullInv
<1>3. EvaluationSpec => Spec
  BY <1>1, <1>2, EvaluationInvariance, PTL DEF EvaluationSpec, Spec
<1> QED
  BY <1>3, WalkInvariantHolds, ValidatedNeverRefusedHolds, ImplementsOrderedWalkHolds, PTL

(* The prediction. *)

LEMMA LowestIs ==
  ASSUME NEW S, S \subseteq Int, NEW b \in S, \A c \in S : b <= c PROVE LowestOf(S) = b
<1>1. \A x \in S : (\A c \in S : x <= c) => x = b
  OBVIOUS
<1> QED
  BY <1>1 DEF LowestOf
LEMMA HighestIs ==
  ASSUME NEW S, S \subseteq Int, NEW b \in S, \A c \in S : b >= c PROVE HighestOf(S) = b
<1>1. \A x \in S : (\A c \in S : x >= c) => x = b
  OBVIOUS
<1> QED
  BY <1>1 DEF HighestOf

\* A rung of a stack the validator accepts has an entry that may run on its route.
LEMMA ValidRung ==
  ASSUME registry \in Seq(Elements(registry)), NEW s, validateModelRegistry(registry, {s}) = {},
         NEW i \in DOMAIN s.rungs
  PROVE  LET e == registryIndex(registry, s.rungs[i].stableId)
         IN  /\ Known(registry, s.rungs[i].stableId)
             /\ e \in Elements(registry) /\ e.stableId = s.rungs[i].stableId
             /\ s.route \in RouteIds /\ s.route \in e.routeEligibility
             /\ e.maturity \in RunnableMaturities
             /\ CAPABILITY_ROUTES[s.route].sandbox \in e.sandboxPermissionSupport
             /\ CAPABILITY_ROUTES[s.route].outputContract \in e.outputContracts
             /\ EffortErrors(e) = {}
<1> DEFINE rung == s.rungs[i]
           e == registryIndex(registry, rung.stableId)
<1>1. StackErrors(registry, s) = {} /\ \A x \in Elements(registry) : EntryErrors(x) = {}
  BY DEF validateModelRegistry
<1>2. s.route \in RouteIds
  BY <1>1 DEF StackErrors
<1>3. RungErrors(registry, s, rung) = {}
  <2>1. rung \in Elements(s.rungs)
    BY DEF Elements
  <2> HIDE DEF rung
  <2> QED
    BY <1>1, <2>1 DEF StackErrors
<1> HIDE DEF rung
<1>4. Known(registry, rung.stableId) /\ s.route \in e.routeEligibility
  BY <1>3 DEF RungErrors
<1>5. e \in Elements(registry) /\ e.stableId = rung.stableId
  BY <1>4, KnownEntry
<1> HIDE DEF e
<1>6. ClaimErrors(e) = {} /\ EligibilityErrors(e) = {} /\ EffortErrors(e) = {}
  BY <1>1, <1>5 DEF EntryErrors
<1>7. e.maturity \in RunnableMaturities
  BY <1>4, <1>6 DEF EligibilityErrors
<1>8. /\ CAPABILITY_ROUTES[s.route].sandbox \in e.sandboxPermissionSupport
      /\ CAPABILITY_ROUTES[s.route].outputContract \in e.outputContracts
  <2>1. s.route \in e.routeEligibility \cap RouteIds
    BY <1>2, <1>4
  <2> QED
    BY <1>6, <2>1 DEF ClaimErrors
<1> QED
  BY <1>2, <1>4, <1>5, <1>6, <1>7, <1>8 DEF e, rung

\* What the prediction calls a rung, and what the engine makes of it.
LEMMA StatusTells ==
  ASSUME registry \in Seq(Elements(registry)), \A e \in Elements(registry) : EntryOK(e),
         NEW i \in DOMAIN request.rungs, NEW snapshot, NEW view, NEW st,
         st = rungStatus(registry, request.rungs[i], request.route, snapshot, view)
  PROVE  /\ st \in {"unknown-model", "not-runnable", "ineligible", "unavailable", "quota-exhausted", "runnable"}
         /\ st = "not-runnable" <=> NonRunnable(i)
         /\ Incompatible(i) => st \in {"unknown-model", "ineligible"}
         /\ Runnable(i) => st # "unknown-model"
<1> DEFINE id == request.rungs[i].stableId
           e == registryIndex(registry, id)
           q == CAPABILITY_ROUTES[request.route]
<1>1. /\ entryOf(i) = e /\ Contract = q /\ rungOf(i).stableId = id
  BY DEF entryOf, rungOf, Contract
<1> HIDE DEF id, q
<1>2. CASE ~ Known(registry, id)
  <2>1. st = "unknown-model"
    BY <1>2 DEF rungStatus, id
  <2>2. ~ NonRunnable(i) /\ Incompatible(i) /\ ~ Runnable(i)
    BY <1>1, <1>2 DEF NonRunnable, Incompatible, Runnable
  <2> QED
    BY <2>1, <2>2
<1>3. CASE Known(registry, id)
  <2>1. e.maturity \in Maturities
    BY <1>3, KnownEntry DEF EntryOK
  <2>2. NonRunnable(i) <=> e.maturity \notin RunnableMaturities
    BY <1>1, <1>3, <2>1 DEF NonRunnable, Maturities, RunnableMaturities
  <2> HIDE DEF e
  <2>3. CASE e.maturity \notin RunnableMaturities
    <3>1. st = "not-runnable"
      BY <1>3, <2>3 DEF rungStatus, e, id
    <3> QED
      BY <1>1, <1>3, <2>2, <2>3, <3>1 DEF Incompatible, Runnable
  <2>4. CASE e.maturity \in RunnableMaturities /\ ~ eligibleForRoute(e, request.route)
    <3>1. st = "ineligible"
      BY <1>3, <2>4 DEF rungStatus, e, id
    <3> QED
      BY <2>2, <2>4, <3>1
  <2>5. CASE e.maturity \in RunnableMaturities /\ eligibleForRoute(e, request.route)
    <3>1. st \in {"unavailable", "quota-exhausted", "runnable"}
      BY <1>3, <2>5 DEF rungStatus, e, id
    <3>2. q.sandbox \in e.sandboxPermissionSupport /\ q.outputContract \in e.outputContracts
      BY <2>5 DEF eligibleForRoute, q
    <3>3. ~ Incompatible(i)
      BY <1>1, <1>3, <3>2 DEF Incompatible, isSandboxCompatible
    <3> QED
      BY <2>2, <2>5, <3>1, <3>3
  <2> QED
    BY <2>3, <2>4, <2>5
<1> QED
  BY <1>2, <1>3

LEMMA PredictedWalk == FullInv => PredictionMatchesWalk
<1> SUFFICES ASSUME FullInv, status # "idle", NEW t \in evaluation.traversal
             PROVE  LET open == {i \in DOMAIN t.statuses : t.statuses[i] # "not-runnable"}
                        tried == {attempts[k].index : k \in DOMAIN attempts}
                    IN  /\ attempts # <<>> =>
                             /\ attempts[1].index = LowestOf(open)
                             /\ \/ t.selectedIndex = {attempts[1].index}
                                \/ t.statuses[attempts[1].index] \in {"unavailable", "quota-exhausted", "ineligible"}
                        /\ \A i \in tried : t.statuses[i] \notin {"not-runnable", "unknown-model"}
                        /\ status = "stack-exhausted" => tried = open
                        /\ ended.incompatible =>
                             duplicateRung(request.rungs) \/ t.statuses[cursor] \in {"unknown-model", "ineligible"}
  BY DEF PredictionMatchesWalk
<1>1. PICK s \in evaluation.stack, p \in Policies : request = walkRequest(s, p)
  BY DEF FullInv, EvaluationInv
<1>2. PICK c \in Contexts : Evaluated(c)
  BY DEF FullInv, EvaluationInv
<1>3. evaluation.stack = {s} /\ t = predictTraversal(registry, s, c.snapshot, viewFor(c))
  <2>1. errorFor(c) = Null
    BY <1>1, <1>2, Parts DEF Evaluated
  <2> QED
    BY <1>1, <1>2, <2>1, Parts DEF Evaluated
<1>4. registry \in Seq(Elements(registry)) /\ \A e \in Elements(registry) : EntryOK(e)
  BY EvaluationAssumption DEF FullInv, ValidInv, EvaluationInv
<1>5. request.rungs = s.rungs /\ request.route = s.route
  BY <1>1 DEF walkRequest, Request
<1> DEFINE R == DOMAIN request.rungs
           st == t.statuses
           open == {i \in DOMAIN st : st[i] # "not-runnable"}
           tried == {attempts[k].index : k \in DOMAIN attempts}
           n == Len(attempts)
<1>6. R \subseteq Nat /\ n \in Nat /\ DOMAIN attempts = 1..n /\ ((attempts = <<>>) <=> (n = 0))
      /\ \A k \in DOMAIN attempts : attempts[k].index \in R
  <2>1. R \subseteq Nat
    BY RungTypes DEF FullInv, WInv
  <2>2. n \in Nat /\ DOMAIN attempts = 1..n /\ ((attempts = <<>>) <=> (n = 0))
    BY Records DEF FullInv, WInv
  <2> QED
    BY <2>1, <2>2 DEF FullInv, WInv, WalkTypes
<1>7. /\ DOMAIN st = R
      /\ \A i \in R :
           /\ st[i] \in {"unknown-model", "not-runnable", "ineligible", "unavailable", "quota-exhausted", "runnable"}
           /\ st[i] = "not-runnable" <=> NonRunnable(i)
           /\ Incompatible(i) => st[i] \in {"unknown-model", "ineligible"}
           /\ Runnable(i) => st[i] # "unknown-model"
  <2> DEFINE view == viewFor(c)
  <2>1. st = [i \in R |-> rungStatus(registry, request.rungs[i], request.route, c.snapshot, view)]
    BY <1>3, <1>5 DEF predictTraversal
  <2> HIDE DEF view, st
  <2>2. ASSUME NEW i \in R
        PROVE  /\ st[i] \in {"unknown-model", "not-runnable", "ineligible", "unavailable", "quota-exhausted", "runnable"}
               /\ st[i] = "not-runnable" <=> NonRunnable(i)
               /\ Incompatible(i) => st[i] \in {"unknown-model", "ineligible"}
               /\ Runnable(i) => st[i] # "unknown-model"
    <3>1. st[i] = rungStatus(registry, request.rungs[i], request.route, c.snapshot, view)
      BY <2>1
    <3> QED
      BY <1>4, <3>1, StatusTells
  <2> QED
    BY <2>1, <2>2
<1> HIDE DEF R, st
<1>8. \A i \in tried : i \in R /\ Runnable(i) /\ st[i] \notin {"not-runnable", "unknown-model"}
  BY <1>6, <1>7 DEF FullInv, Passing, Runnable
<1>9. ASSUME attempts # <<>>
      PROVE  /\ attempts[1].index = LowestOf(open)
             /\ \/ t.selectedIndex = {attempts[1].index}
                \/ st[attempts[1].index] \in {"unavailable", "quota-exhausted", "ineligible"}
  <2> DEFINE a == attempts[1].index
  <2>1. 1 \in DOMAIN attempts
    BY <1>6, <1>9
  <2>2. a \in R /\ a \in Nat /\ st[a] \in {"ineligible", "unavailable", "quota-exhausted", "runnable"}
    BY <1>6, <1>7, <1>8, <2>1
  <2>3. \A i \in R : i < a => st[i] = "not-runnable"
    BY <1>7, <1>9 DEF FullInv, Passing, R
  <2> HIDE DEF a
  <2>4. a \in open /\ open \subseteq Int /\ \A i \in open : a <= i
    BY <1>6, <1>7, <2>2, <2>3
  <2>5. a = LowestOf(open)
    <3> HIDE DEF open
    <3> QED
      BY <2>4, LowestIs
  <2>6. ASSUME st[a] = "runnable" PROVE t.selectedIndex = {a}
    <3>1. t.selectedIndex = {i \in DOMAIN st : st[i] = "runnable" /\ \A j \in DOMAIN st : j < i => st[j] # "runnable"}
      BY <1>3 DEF predictTraversal, st
    <3>2. \A i \in R : (st[i] = "runnable" /\ \A j \in R : j < i => st[j] # "runnable") <=> i = a
      BY <1>6, <2>2, <2>3, <2>6
    <3> QED
      BY <1>7, <2>2, <3>1, <3>2
  <2> QED
    BY <2>2, <2>5, <2>6 DEF a
<1>10. ASSUME status = "stack-exhausted" PROVE tried = open
  <2>1. \A i \in R : ~ Incompatible(i) /\ (Runnable(i) => i \in tried)
    BY <1>10 DEF FullInv, WInv, ExhaustedMeansAllTried, Passing, R
  <2>2. \A i \in R : st[i] # "not-runnable" => i \in tried
    BY <1>7, <2>1 DEF Runnable
  <2> HIDE DEF tried
  <2> QED
    BY <1>7, <1>8, <2>2
<1>11. ended.incompatible => duplicateRung(request.rungs) \/ st[cursor] \in {"unknown-model", "ineligible"}
  BY <1>7 DEF FullInv, Passing, R
<1> QED
  BY <1>8, <1>9, <1>10, <1>11 DEF st

\* What predictTraversal says of a stack, evaluate-policy.ts says of the executing engine:
\* for every registry, sound or not, every stack and whatever is observed or priced, the
\* first rung attempted is the first one not inert, no inert or unknown rung is attempted,
\* an exhausted walk attempted all others, and a refused rung was foretold as such.
THEOREM PredictionMatchesWalkHolds == EvaluationSpec => []PredictionMatchesWalk
BY PredictedWalk, EvaluationInvariance, PTL

(* Finite orders. *)

LEMMA FiniteSubset ==
  ASSUME NEW S, IsFiniteSet(S), NEW T, T \subseteq S
  PROVE  /\ IsFiniteSet(T) /\ Cardinality(T) \in Nat /\ Cardinality(T) <= Cardinality(S)
         /\ Cardinality(T) = Cardinality(S) => T = S
<1>1. T \in SUBSET S
  OBVIOUS
<1> QED
  BY <1>1, FS_Subset, FS_CardinalityType

\* A finite set has a minimum in a strict order, total or not.
LEMMA MinimalIn ==
  ASSUME NEW S, IsFiniteSet(S), S # {}, NEW R,
         \A x \in S : <<x, x>> \notin R,
         \A x, y, z \in S : <<x, y>> \in R /\ <<y, z>> \in R => <<x, z>> \in R
  PROVE  \E x \in S : \A y \in S : <<y, x>> \notin R
<1> DEFINE Before(x) == {y \in S : <<y, x>> \in R}
           Befores == {Before(x) : x \in S}
<1>1. IsWellFoundedOn(StrictSubsetOrdering(S), SUBSET S)
  BY FS_StrictSubsetOrderingWellFounded, FS_FiniteSubsetsOfFinite
<1>2. Befores \subseteq SUBSET S /\ Befores # {}
  <2>1. PICK x \in S : TRUE
    OBVIOUS
  <2>2. Before(x) \in Befores
    BY <2>1
  <2>3. Befores \subseteq SUBSET S
    OBVIOUS
  <2> HIDE DEF Befores
  <2> QED
    BY <2>2, <2>3
<1>3. PICK B \in Befores : \A C \in Befores : ~ (<<C, B>> \in StrictSubsetOrdering(S))
  <2> HIDE DEF Befores
  <2> QED
    BY <1>1, <1>2, WFMin
<1>4. PICK x \in S : B = Before(x)
  BY <1>3
<1>5. ASSUME NEW y \in S, <<y, x>> \in R PROVE FALSE
  <2>1. Before(y) \subseteq Before(x) /\ y \in Before(x) /\ y \notin Before(y)
    BY <1>5
  <2>2. <<Before(y), B>> \in StrictSubsetOrdering(S)
    BY <1>4, <2>1 DEF StrictSubsetOrdering
  <2> QED
    BY <1>3, <2>2
<1> QED
  BY <1>5

\* In a strict total order the number of those before it tells a member from the
\* others, and takes every value below the size of the set.
StrictTotalOrder(R, S) ==
  /\ \A x \in S : <<x, x>> \notin R
  /\ \A x, y, z \in S : <<x, y>> \in R /\ <<y, z>> \in R => <<x, z>> \in R
  /\ \A x, y \in S : x = y \/ <<x, y>> \in R \/ <<y, x>> \in R
BeforeIn(R, S) == [x \in S |-> {y \in S : <<y, x>> \in R}]
LEMMA Ranks ==
  ASSUME NEW S, IsFiniteSet(S), NEW R, StrictTotalOrder(R, S)
  PROVE  LET Before == BeforeIn(R, S) IN
         /\ Cardinality(S) \in Nat
         /\ \A x \in S : Cardinality(Before[x]) + 1 \in 1..Cardinality(S)
         /\ \A i \in 1..Cardinality(S) : \E x \in S : Cardinality(Before[x]) = i - 1
         /\ \A x, y \in S : Cardinality(Before[x]) = Cardinality(Before[y]) => x = y
<1> DEFINE n == Cardinality(S)
           Before == BeforeIn(R, S)
           rank == [x \in S |-> Cardinality(Before[x]) + 1]
<1>1. n \in Nat
  BY FS_CardinalityType
<1> USE DEF StrictTotalOrder, BeforeIn
<1>2. ASSUME NEW x \in S
      PROVE  /\ IsFiniteSet(Before[x]) /\ Cardinality(Before[x]) \in Nat
             /\ Cardinality(Before[x]) + 1 \in 1..n
  <2>1. Before[x] \subseteq S \ {x}
    OBVIOUS
  <2>2. IsFiniteSet(S \ {x}) /\ Cardinality(S \ {x}) = n - 1
    BY FS_RemoveElement
  <2> DEFINE B == Before[x]
             T == S \ {x}
  <2> HIDE DEF B, T
  <2>3. IsFiniteSet(B) /\ Cardinality(B) \in Nat /\ Cardinality(B) <= Cardinality(T)
    <3>1. IsFiniteSet(T) /\ B \subseteq T
      BY <2>1, <2>2 DEF B, T
    <3> QED
      BY <3>1, FiniteSubset
  <2>4. Cardinality(B) <= n - 1
    BY <2>2, <2>3 DEF T
  <2> QED
    BY <1>1, <2>3, <2>4 DEF B
<1>3. ASSUME NEW x \in S, NEW y \in S, <<x, y>> \in R
      PROVE  Cardinality(Before[x]) # Cardinality(Before[y])
  <2>1. Before[x] \subseteq Before[y] /\ x \in Before[y] /\ x \notin Before[x]
    BY <1>3
  <2>2. Before[x] # Before[y]
    BY <2>1
  <2> QED
    BY <1>2, <2>1, <2>2, FiniteSubset
<1>4. \A x, y \in S : Cardinality(Before[x]) = Cardinality(Before[y]) => x = y
  BY <1>3
<1>5. rank \in Injection(S, 1..n)
  <2>1. rank \in [S -> 1..n]
    BY <1>2
  <2>2. \A x, y \in S : rank[x] = rank[y] => x = y
    <3> SUFFICES ASSUME NEW x \in S, NEW y \in S, rank[x] = rank[y] PROVE x = y
      OBVIOUS
    <3>1. Cardinality(Before[x]) \in Nat /\ Cardinality(Before[y]) \in Nat
      BY <1>2
    <3>2. Cardinality(Before[x]) + 1 = Cardinality(Before[y]) + 1
      OBVIOUS
    <3>3. Cardinality(Before[x]) = Cardinality(Before[y])
      BY <3>1, <3>2
    <3> QED
      BY <1>4, <3>3
  <2> HIDE DEF rank
  <2> QED
    BY <2>1, <2>2 DEF Injection, IsInjective
<1>6. IsFiniteSet(1..n) /\ Cardinality(1..n) = n
  BY <1>1, FS_Interval
<1>7. rank \in Surjection(S, 1..n)
  <2> HIDE DEF rank
  <2> QED
    BY <1>5, <1>6, FS_Injection
<1>8. \A i \in 1..n : \E x \in S : Cardinality(Before[x]) = i - 1
  <2> SUFFICES ASSUME NEW i \in 1..n PROVE \E x \in S : Cardinality(Before[x]) = i - 1
    OBVIOUS
  <2>1. PICK x \in S : rank[x] = i
    <3> HIDE DEF rank
    <3> QED
      BY <1>7 DEF Surjection
  <2>2. Cardinality(Before[x]) + 1 = i /\ Cardinality(Before[x]) \in Nat
    BY <1>2, <2>1
  <2>3. Cardinality(Before[x]) = i - 1
    BY <2>2
  <2> QED
    BY <2>3
<1> QED
  BY <1>1, <1>2, <1>4, <1>8

(* The order of candidates. *)

\* A value that may be unknown, as a number.
Num(u) == IF u = {} THEN -1 ELSE CHOOSE x \in u : TRUE
AtMostOne(u) == u \subseteq Nat /\ \A x, y \in u : x = y
Comparable(c, view) ==
  /\ AtMostOne(c.band) /\ AtMostOne(c.row.usd)
  /\ c.key \in Nat /\ quotaPreference(view, c.row.pool) \in Nat
Cheaper(u, v) == u # v /\ (v = -1 \/ (u # -1 /\ u < v))

LEMMA Numbers ==
  ASSUME NEW u, AtMostOne(u)
  PROVE  /\ Num(u) \in Int /\ Num(u) >= -1 /\ (u = {} <=> Num(u) = -1) /\ (u # {} => u = {Num(u)})
         /\ \A x : x \in u <=> x \in Nat /\ x = Num(u)
<1>1. CASE u = {}
  BY <1>1 DEF Num
<1>2. CASE u # {}
  <2>1. Num(u) \in u
    BY <1>2 DEF Num
  <2>2. Num(u) \in Nat /\ \A x \in u : x = Num(u)
    BY <2>1 DEF AtMostOne
  <2>3. u = {Num(u)}
    BY <2>1, <2>2
  <2> QED
    BY <1>2, <2>2, <2>3
<1> QED
  BY <1>1, <1>2

LEMMA NumbersEqual ==
  ASSUME NEW u, NEW v, AtMostOne(u), AtMostOne(v) PROVE u = v <=> Num(u) = Num(v)
<1>1. /\ (u = {} <=> Num(u) = -1) /\ (u # {} => u = {Num(u)})
      /\ (v = {} <=> Num(v) = -1) /\ (v # {} => v = {Num(v)})
  BY Numbers
<1> QED
  BY <1>1

LEMMA PrecedesIs ==
  ASSUME NEW view, NEW a, NEW b, Comparable(a, view), Comparable(b, view)
  PROVE  LET p == Num(a.band)  q == Num(b.band)
             u == Num(a.row.usd)  v == Num(b.row.usd)
             m == quotaPreference(view, a.row.pool)  n == quotaPreference(view, b.row.pool)
         IN  Precedes(a, b, view) <=>
               \/ p > q
               \/ p = q /\ Cheaper(u, v)
               \/ p = q /\ u = v /\ m > n
               \/ p = q /\ u = v /\ m = n /\ a.key < b.key
<1> DEFINE p == Num(a.band)
           q == Num(b.band)
           u == Num(a.row.usd)
           v == Num(b.row.usd)
           m == quotaPreference(view, a.row.pool)
           n == quotaPreference(view, b.row.pool)
           Lex == \/ p > q
                  \/ p = q /\ Cheaper(u, v)
                  \/ p = q /\ u = v /\ m > n
                  \/ p = q /\ u = v /\ m = n /\ a.key < b.key
<1> SUFFICES Precedes(a, b, view) <=> Lex
  OBVIOUS
<1>1. /\ p \in Int /\ p >= -1 /\ (a.band = {} <=> p = -1) /\ (a.band # {} => a.band = {p})
      /\ q \in Int /\ q >= -1 /\ (b.band = {} <=> q = -1) /\ (b.band # {} => b.band = {q})
      /\ (a.band = b.band <=> p = q)
  <2>1. AtMostOne(a.band) /\ AtMostOne(b.band)
    BY DEF Comparable
  <2> QED
    BY <2>1, Numbers, NumbersEqual
<1>2. /\ u \in Int /\ u >= -1 /\ (a.row.usd = {} <=> u = -1) /\ (a.row.usd # {} => a.row.usd = {u})
      /\ v \in Int /\ v >= -1 /\ (b.row.usd = {} <=> v = -1) /\ (b.row.usd # {} => b.row.usd = {v})
      /\ (a.row.usd = b.row.usd <=> u = v)
  <2>1. AtMostOne(a.row.usd) /\ AtMostOne(b.row.usd)
    BY DEF Comparable
  <2> QED
    BY <2>1, Numbers, NumbersEqual
<1>3. m \in Nat /\ n \in Nat
  BY DEF Comparable
<1> HIDE DEF p, q, u, v, m, n
<1>4. CASE a.band # b.band
  <2>1. Precedes(a, b, view) <=> IF a.band = {} \/ b.band = {} THEN b.band = {} ELSE \E x \in a.band, y \in b.band : x > y
    BY <1>4 DEF Precedes
  <2>2. CASE a.band = {} \/ b.band = {}
    BY <1>1, <1>4, <2>1, <2>2
  <2>3. CASE a.band # {} /\ b.band # {}
    <3>1. (\E x \in a.band, y \in b.band : x > y) <=> p > q
      BY <1>1, <2>3
    <3> QED
      BY <1>1, <1>4, <2>1, <2>3, <3>1
  <2> QED
    BY <2>2, <2>3
<1>5. CASE a.band = b.band /\ a.row.usd # b.row.usd
  <2>1. Precedes(a, b, view) <=> IF a.row.usd = {} \/ b.row.usd = {} THEN b.row.usd = {}
                                 ELSE \E x \in a.row.usd, y \in b.row.usd : x < y
    BY <1>5 DEF Precedes
  <2>2. CASE a.row.usd = {} \/ b.row.usd = {}
    BY <1>1, <1>2, <1>5, <2>1, <2>2 DEF Cheaper
  <2>3. CASE a.row.usd # {} /\ b.row.usd # {}
    <3>1. (\E x \in a.row.usd, y \in b.row.usd : x < y) <=> u < v
      BY <1>2, <2>3
    <3> QED
      BY <1>1, <1>2, <1>5, <2>1, <2>3, <3>1 DEF Cheaper
  <2> QED
    BY <2>2, <2>3
<1>6. CASE a.band = b.band /\ a.row.usd = b.row.usd
  <2>1. Precedes(a, b, view) <=> IF m # n THEN m > n ELSE a.key < b.key
    BY <1>6 DEF Precedes, m, n
  <2>2. p = q /\ u = v
    BY <1>1, <1>2, <1>6
  <2>3. Precedes(a, b, view) <=> (m > n \/ (m = n /\ a.key < b.key))
    BY <1>3, <2>1
  <2> QED
    BY <1>1, <2>2, <2>3 DEF Cheaper
<1> QED
  BY <1>4, <1>5, <1>6

\* A set of candidates that can be compared, no two of them the same.
Sortable(S, view) ==
  /\ IsFiniteSet(S)
  /\ \A c \in S : Comparable(c, view)
  /\ \A a, b \in S : a.key = b.key => a = b

LEMMA SubsetSortable ==
  ASSUME NEW view, NEW S, Sortable(S, view), NEW T, T \subseteq S PROVE Sortable(T, view)
BY FS_Subset DEF Sortable

LEMMA PrecedesOrder ==
  ASSUME NEW view, NEW S, Sortable(S, view)
  PROVE  /\ \A a \in S : ~ Precedes(a, a, view)
         /\ \A a, b, c \in S : Precedes(a, b, view) /\ Precedes(b, c, view) => Precedes(a, c, view)
         /\ \A a, b \in S : a = b \/ Precedes(a, b, view) \/ Precedes(b, a, view)
<1> DEFINE B(c) == Num(c.band)
           U(c) == Num(c.row.usd)
           Q(c) == quotaPreference(view, c.row.pool)
           K(c) == c.key
<1>1. \A c \in S : Comparable(c, view) /\ B(c) \in Int /\ U(c) \in Int /\ U(c) >= -1 /\ Q(c) \in Nat /\ K(c) \in Nat
  <2> SUFFICES ASSUME NEW c \in S
               PROVE  Comparable(c, view) /\ B(c) \in Int /\ U(c) \in Int /\ U(c) >= -1 /\ Q(c) \in Nat /\ K(c) \in Nat
    OBVIOUS
  <2>1. Comparable(c, view)
    BY DEF Sortable
  <2> QED
    BY <2>1, Numbers DEF Comparable
<1>2. \A a, b \in S : Precedes(a, b, view) <=>
         \/ B(a) > B(b)
         \/ B(a) = B(b) /\ Cheaper(U(a), U(b))
         \/ B(a) = B(b) /\ U(a) = U(b) /\ Q(a) > Q(b)
         \/ B(a) = B(b) /\ U(a) = U(b) /\ Q(a) = Q(b) /\ K(a) < K(b)
  BY <1>1, PrecedesIs
<1>3. \A a, b \in S : K(a) = K(b) => a = b
  BY DEF Sortable
<1> HIDE DEF B, U, Q, K
<1>4. \A a \in S : ~ Precedes(a, a, view)
  BY <1>1, <1>2 DEF Cheaper
<1>5. ASSUME NEW a \in S, NEW b \in S, NEW c \in S, Precedes(a, b, view), Precedes(b, c, view)
      PROVE  Precedes(a, c, view)
  BY <1>1, <1>2, <1>5 DEF Cheaper
<1>6. \A a, b \in S : a = b \/ Precedes(a, b, view) \/ Precedes(b, a, view)
  BY <1>1, <1>2, <1>3 DEF Cheaper
<1> QED
  BY <1>4, <1>5, <1>6

\* Sorting keeps every candidate, once, and puts in front what precedes all others.
LEMMA InOrderOf ==
  ASSUME NEW view, NEW S, Sortable(S, view)
  PROVE  /\ InOrder(S, view) \in Seq(S)
         /\ {InOrder(S, view)[i] : i \in DOMAIN InOrder(S, view)} = S
         /\ S # {} => /\ InOrder(S, view)[1] \in S
                      /\ \A c \in S : c = InOrder(S, view)[1] \/ Precedes(InOrder(S, view)[1], c, view)
<1> DEFINE R == {p \in S \X S : Precedes(p[1], p[2], view)}
           Before == BeforeIn(R, S)
           n == Cardinality(S)
           At_(i) == CHOOSE c \in S : Cardinality({d \in S : Precedes(d, c, view)}) = i - 1
<1>1. IsFiniteSet(S) /\ \A x, y \in S : <<x, y>> \in R <=> Precedes(x, y, view)
  BY DEF Sortable
<1>2. StrictTotalOrder(R, S)
  <2> HIDE DEF R
  <2>1. /\ \A a \in S : ~ Precedes(a, a, view)
        /\ \A a, b, c \in S : Precedes(a, b, view) /\ Precedes(b, c, view) => Precedes(a, c, view)
        /\ \A a, b \in S : a = b \/ Precedes(a, b, view) \/ Precedes(b, a, view)
    BY PrecedesOrder
  <2> QED
    BY <1>1, <2>1 DEF StrictTotalOrder
<1>3. \A c \in S : {d \in S : Precedes(d, c, view)} = Before[c]
  BY <1>1 DEF BeforeIn
<1> HIDE DEF R
<1>4. /\ n \in Nat
      /\ \A x \in S : Cardinality(Before[x]) + 1 \in 1..n
      /\ \A i \in 1..n : \E x \in S : Cardinality(Before[x]) = i - 1
      /\ \A x, y \in S : Cardinality(Before[x]) = Cardinality(Before[y]) => x = y
  BY <1>1, <1>2, Ranks
<1> HIDE DEF Before
<1>5. \A i \in 1..n : At_(i) \in S /\ Cardinality(Before[At_(i)]) = i - 1
  <2> SUFFICES ASSUME NEW i \in 1..n PROVE At_(i) \in S /\ Cardinality(Before[At_(i)]) = i - 1
    OBVIOUS
  <2>1. \E c \in S : Cardinality({d \in S : Precedes(d, c, view)}) = i - 1
    BY <1>3, <1>4
  <2>2. At_(i) \in S /\ Cardinality({d \in S : Precedes(d, At_(i), view)}) = i - 1
    BY <2>1
  <2> QED
    BY <1>3, <2>2
<1>6. InOrder(S, view) = [i \in 1..n |-> At_(i)]
  BY DEF InOrder
<1> HIDE DEF At_
<1>7. InOrder(S, view) \in Seq(S)
  BY <1>4, <1>5, <1>6
<1>8. ASSUME NEW c \in S PROVE \E i \in 1..n : At_(i) = c
  <2> DEFINE i == Cardinality(Before[c]) + 1
  <2>1. i \in 1..n
    BY <1>4
  <2>2. Cardinality(Before[c]) \in Nat
    <3>1. Before[c] \subseteq S
      BY DEF Before, BeforeIn
    <3> QED
      BY <1>1, <3>1, FiniteSubset
  <2>3. Cardinality(Before[At_(i)]) = i - 1 /\ i - 1 = Cardinality(Before[c]) /\ At_(i) \in S
    BY <1>5, <2>1, <2>2
  <2>4. At_(i) = c
    BY <1>4, <2>3
  <2> QED
    BY <2>1, <2>4
<1>9. {InOrder(S, view)[i] : i \in DOMAIN InOrder(S, view)} = S
  BY <1>5, <1>6, <1>8
<1>10. ASSUME S # {}
       PROVE  At_(1) \in S /\ 1 \in 1..n /\ \A c \in S : c = At_(1) \/ Precedes(At_(1), c, view)
  <2>1. 1 \in 1..n
    <3>1. n # 0
      BY <1>1, <1>10, FS_EmptySet
    <3> QED
      BY <1>4, <3>1
  <2>2. At_(1) \in S /\ Cardinality(Before[At_(1)]) = 0
    BY <1>5, <2>1
  <2>3. Before[At_(1)] = {}
    <3>1. Before[At_(1)] \subseteq S
      BY <2>2 DEF Before, BeforeIn
    <3>2. IsFiniteSet(Before[At_(1)])
      BY <1>1, <3>1, FiniteSubset
    <3> QED
      BY <2>2, <3>2, FS_EmptySet
  <2>4. \A c \in S : ~ Precedes(c, At_(1), view)
    BY <1>3, <2>2, <2>3
  <2> QED
    BY <2>1, <2>2, <2>4, PrecedesOrder
<1> QED
  BY <1>6, <1>7, <1>9, <1>10

(* The candidates of a registry. *)

LEMMA Quotients == ASSUME NEW x \in Nat, NEW w \in Nat \ {0} PROVE x \div w \in Nat
OBVIOUS

LEMMA RowsOK ==
  ASSUME NEW c \in Contexts, NEW rung PROVE RowOK(rowFor(c.snapshot, rung))
<1>1. RowOK(NoRow)
  BY FS_EmptySet DEF RowOK, NoRow, Row
<1> QED
  BY <1>1, EvaluationAssumption DEF rowFor, ContextOK

LEMMA Bands ==
  ASSUME NEW row, RowOK(row), NEW axis, NEW width \in Nat \ {0}
  PROVE  AtMostOne(bandForSnapshotEntry(row, axis, width))
<1> DEFINE M == measurementForSnapshotEntry(row, axis)
<1>1. M = {} \/ \E m \in row.measurements : M = {m}
  <2> DEFINE onAxis == {m \in row.measurements : m.axis = axis}
             authoritative == {m \in onAxis : m.source \in Benchmarks /\ BENCHMARK_AXIS_AUTHORITY[m.source] = axis}
             tier == IF authoritative # {} THEN authoritative ELSE onAxis
  <2>1. tier \subseteq row.measurements
    OBVIOUS
  <2>2. IsFiniteSet(tier)
    <3> HIDE DEF tier
    <3> QED
      BY <2>1, FiniteSubset DEF RowOK
  <2>3. M = IF Cardinality(tier) = 1 THEN tier ELSE {}
    BY DEF measurementForSnapshotEntry
  <2> HIDE DEF tier, M
  <2>4. Cardinality(tier) = 1 => \E m : tier = {m}
    BY <2>2, FS_Singleton
  <2> QED
    BY <2>1, <2>3, <2>4
<1>2. bandForSnapshotEntry(row, axis, width) = {clampBand(bandFor(m.score, width)) : m \in M}
  BY DEF bandForSnapshotEntry
<1> HIDE DEF M
<1>3. CASE M = {}
  BY <1>2, <1>3 DEF AtMostOne
<1>4. ASSUME NEW m \in row.measurements, M = {m} PROVE AtMostOne(bandForSnapshotEntry(row, axis, width))
  <2>1. m.score \div width \in Nat
    BY Quotients DEF RowOK
  <2>2. clampBand(bandFor(m.score, width)) \in Nat
    BY <2>1 DEF clampBand, bandFor, MAX_CAPABILITY_BAND
  <2>3. bandForSnapshotEntry(row, axis, width) = {clampBand(bandFor(m.score, width))}
    BY <1>2, <1>4
  <2> QED
    BY <2>2, <2>3 DEF AtMostOne
<1> QED
  BY <1>1, <1>3, <1>4

LEMMA QuotaOrder ==
  ASSUME NEW S, IsFiniteSet(S), S # {},
         \A o \in S : o.at \in Nat /\ o.left \subseteq Nat /\ \A x, y \in o.left : x = y
  PROVE  QuotaAuthority(S) \in S
<1> DEFINE R == {p \in S \X S : preferQuota(p[1], p[2])}
<1>1. \A a, b \in S : <<a, b>> \in R <=> preferQuota(a, b)
  OBVIOUS
<1>2. \A o \in S : AtMostOne(o.left)
  BY DEF AtMostOne
<1>3. \A a, b \in S : preferQuota(a, b) <=> (a.at > b.at \/ (a.at = b.at /\ Cheaper(Num(a.left), Num(b.left))))
  <2> SUFFICES ASSUME NEW a \in S, NEW b \in S
               PROVE preferQuota(a, b) <=> (a.at > b.at \/ (a.at = b.at /\ Cheaper(Num(a.left), Num(b.left))))
    OBVIOUS
  <2> DEFINE u == Num(a.left)
             v == Num(b.left)
  <2>1. /\ u \in Int /\ u >= -1 /\ (a.left = {} <=> u = -1) /\ (a.left # {} => a.left = {u})
        /\ v \in Int /\ v >= -1 /\ (b.left = {} <=> v = -1) /\ (b.left # {} => b.left = {v})
    BY <1>2, Numbers
  <2> SUFFICES preferQuota(a, b) <=> (a.at > b.at \/ (a.at = b.at /\ Cheaper(u, v)))
    OBVIOUS
  <2> HIDE DEF u, v
  <2>2. CASE a.at # b.at
    BY <2>2 DEF preferQuota
  <2>3. CASE a.at = b.at
    <3>1. preferQuota(a, b) <=> IF a.left = {} THEN FALSE ELSE IF b.left = {} THEN TRUE
                                ELSE \E x \in a.left, y \in b.left : x < y
      BY <2>3 DEF preferQuota
    <3>2. CASE a.left = {} \/ b.left = {}
      BY <2>1, <2>3, <3>1, <3>2 DEF Cheaper
    <3>3. CASE a.left # {} /\ b.left # {}
      <4>1. (\E x \in a.left, y \in b.left : x < y) <=> u < v
        BY <2>1, <3>3
      <4> QED
        BY <2>1, <2>3, <3>1, <3>3, <4>1 DEF Cheaper
    <3> QED
      BY <3>2, <3>3
  <2> QED
    BY <2>2, <2>3
<1>4. \A o \in S : o.at \in Nat /\ Num(o.left) \in Int
  BY <1>2, Numbers
<1> HIDE DEF R
<1>5. /\ \A x \in S : <<x, x>> \notin R
      /\ \A x, y, z \in S : <<x, y>> \in R /\ <<y, z>> \in R => <<x, z>> \in R
  BY <1>1, <1>3, <1>4 DEF Cheaper
<1>6. \E x \in S : \A y \in S : <<y, x>> \notin R
  BY <1>5, MinimalIn
<1>7. \E o \in S : \A p \in S : ~ preferQuota(p, o)
  BY <1>1, <1>6
<1> QED
  BY <1>7 DEF QuotaAuthority

LEMMA QuotaNumbers ==
  ASSUME NEW c \in Contexts, NEW pool PROVE quotaPreference(viewFor(c), pool) \in Nat
<1> DEFINE view == viewFor(c)
           usable == {o \in c.quotas :
                         /\ o.pool = pool /\ Fresh(o, c.nowMs, AvailabilityWindow)
                         /\ \A r \in o.resetsAt : c.nowMs < r}
<1>1. leftIn(view, pool) = {} \/ (leftIn(view, pool) = QuotaAuthority(usable).left /\ usable # {})
  <2> DEFINE pools == {o.pool : o \in c.quotas}
             shown(p) == LET seen == {o \in c.quotas :
                                        /\ o.pool = p /\ Fresh(o, c.nowMs, AvailabilityWindow)
                                        /\ \A r \in o.resetsAt : c.nowMs < r}
                         IN  IF seen = {} THEN {} ELSE QuotaAuthority(seen).left
  <2>1. view.quota = [p \in pools |-> shown(p)]
    BY DEF viewFor, buildAvailabilityView
  <2>2. shown(pool) = IF usable = {} THEN {} ELSE QuotaAuthority(usable).left
    OBVIOUS
  <2> HIDE DEF pools, shown, usable, view
  <2>3. CASE pool \in pools
    <3>1. leftIn(view, pool) = shown(pool)
      BY <2>1, <2>3 DEF leftIn
    <3> QED
      BY <2>2, <3>1
  <2>4. CASE pool \notin pools
    BY <2>1, <2>4 DEF leftIn
  <2> QED
    BY <2>3, <2>4
<1>2. /\ IsFiniteSet(c.quotas)
      /\ \A o \in c.quotas : o.at \in Nat /\ o.left \subseteq Nat /\ \A x, y \in o.left : x = y
  BY EvaluationAssumption DEF ContextOK
<1>3. usable \subseteq c.quotas
  OBVIOUS
<1> HIDE DEF usable, view
<1>4. leftIn(view, pool) \subseteq Nat
  <2>1. CASE usable # {}
    <3>1. QuotaAuthority(usable) \in usable
      BY <1>2, <1>3, <2>1, FiniteSubset, QuotaOrder
    <3> QED
      BY <1>1, <1>2, <1>3, <3>1
  <2> QED
    BY <1>1, <2>1
<1> QED
  BY <1>4 DEF quotaPreference, view, Whole

CandidateOf(k, snapshot, axis) ==
  [rung |-> <<registry[k[1]].stableId, Efforts6[k[2]]>>, key |-> 6 * k[1] + k[2],
   entry |-> registry[k[1]], backend |-> dispatchBackendFor(registry[k[1]]),
   row |-> rowFor(snapshot, <<registry[k[1]].stableId, Efforts6[k[2]]>>),
   band |-> bandForSnapshotEntry(rowFor(snapshot, <<registry[k[1]].stableId, Efforts6[k[2]]>>),
                                 axis, snapshot.bandWidth)]
Keys == {j \in (DOMAIN registry) \X (1..6) : Efforts6[j[2]] \in selectableEffortsFor(registry[j[1]])}

LEMMA CandidatesAre ==
  ASSUME NEW snapshot, NEW axis
  PROVE  Candidates(registry, snapshot, axis) = {CandidateOf(k, snapshot, axis) : k \in Keys}
BY DEF Candidates, CandidateOf, Keys

LEMMA CandidatesSortable ==
  ASSUME registry \in Seq(Elements(registry)), NEW c \in Contexts, NEW axis
  PROVE  Sortable(Candidates(registry, c.snapshot, axis), viewFor(c))
<1> DEFINE S == Candidates(registry, c.snapshot, axis)
           f == [k \in Keys |-> CandidateOf(k, c.snapshot, axis)]
<1>1. S = {f[k] : k \in Keys}
  BY CandidatesAre
<1>2. Len(registry) \in Nat /\ DOMAIN registry = 1..Len(registry)
  OBVIOUS
<1>3. IsFiniteSet(S)
  <2>1. IsFiniteSet((DOMAIN registry) \X (1..6))
    <3>1. IsFiniteSet(DOMAIN registry) /\ IsFiniteSet(1..6)
      <4>1. 1 \in Int /\ 6 \in Int /\ Len(registry) \in Int
        BY <1>2
      <4>2. IsFiniteSet(1..6) /\ IsFiniteSet(1..Len(registry))
        BY <4>1, FS_Interval
      <4> QED
        BY <1>2, <4>2
    <3> QED
      BY <3>1, FS_Product
  <2>2. IsFiniteSet(Keys)
    <3>1. Keys \subseteq (DOMAIN registry) \X (1..6)
      BY DEF Keys
    <3> QED
      BY <2>1, <3>1, FiniteSubset
  <2>3. f \in Surjection(Keys, S)
    <3>1. DOMAIN f = Keys /\ \A k \in Keys : f[k] \in S
      BY <1>1
    <3> HIDE DEF f, S
    <3>2. f \in [Keys -> S]
      <4>1. f = [k \in Keys |-> f[k]]
        BY DEF f
      <4> QED
        BY <3>1, <4>1
    <3>3. \A s \in S : \E k \in Keys : f[k] = s
      BY <1>1
    <3> QED
      BY <3>2, <3>3 DEF Surjection
  <2> HIDE DEF f, S
  <2> QED
    BY <2>2, <2>3, FS_Surjection
<1>4. ASSUME NEW k \in Keys PROVE Comparable(CandidateOf(k, c.snapshot, axis), viewFor(c))
  <2> DEFINE rung == <<registry[k[1]].stableId, Efforts6[k[2]]>>
             row == rowFor(c.snapshot, rung)
             cand == CandidateOf(k, c.snapshot, axis)
  <2>1. /\ cand.key = 6 * k[1] + k[2] /\ cand.row = row
        /\ cand.band = bandForSnapshotEntry(row, axis, c.snapshot.bandWidth)
    BY DEF CandidateOf
  <2> HIDE DEF row, cand
  <2>2. RowOK(row)
    BY RowsOK DEF row
  <2>3. c.snapshot.bandWidth \in Nat \ {0}
    BY EvaluationAssumption DEF ContextOK
  <2>4. AtMostOne(cand.band)
    BY <2>1, <2>2, <2>3, Bands
  <2>5. AtMostOne(cand.row.usd)
    BY <2>1, <2>2 DEF RowOK, AtMostOne
  <2>6. cand.key \in Nat
    <3>1. k[1] \in Nat /\ k[2] \in Nat
      BY <1>2 DEF Keys
    <3> QED
      BY <2>1, <3>1
  <2>7. quotaPreference(viewFor(c), cand.row.pool) \in Nat
    BY QuotaNumbers
  <2> QED
    BY <2>4, <2>5, <2>6, <2>7 DEF Comparable, cand
<1>5. ASSUME NEW j \in Keys, NEW k \in Keys,
             CandidateOf(j, c.snapshot, axis).key = CandidateOf(k, c.snapshot, axis).key
      PROVE  j = k
  <2>1. /\ j[1] \in Nat /\ k[1] \in Nat /\ j[2] \in 1..6 /\ k[2] \in 1..6
        /\ j = <<j[1], j[2]>> /\ k = <<k[1], k[2]>>
    BY <1>2 DEF Keys
  <2>2. 6 * j[1] + j[2] = 6 * k[1] + k[2]
    BY <1>5 DEF CandidateOf
  <2>3. j[1] = k[1] /\ j[2] = k[2]
    BY <2>1, <2>2
  <2> QED
    BY <2>1, <2>3
<1> QED
  BY <1>1, <1>3, <1>4, <1>5 DEF Sortable

(* Floors. *)

LEMMA Extremes ==
  ASSUME NEW S, S \subseteq Int, IsFiniteSet(S), S # {}
  PROVE  /\ LowestOf(S) \in S /\ \A x \in S : LowestOf(S) <= x
         /\ HighestOf(S) \in S /\ \A x \in S : x <= HighestOf(S)
<1> DEFINE Up == {p \in S \X S : p[1] < p[2]}
           Down_ == {p \in S \X S : p[1] > p[2]}
<1>1. \A x, y \in S : (<<x, y>> \in Up <=> x < y) /\ (<<x, y>> \in Down_ <=> x > y)
  OBVIOUS
<1> HIDE DEF Up, Down_
<1>2. /\ \A x \in S : <<x, x>> \notin Up
      /\ \A x, y, z \in S : <<x, y>> \in Up /\ <<y, z>> \in Up => <<x, z>> \in Up
  BY <1>1
<1>3. /\ \A x \in S : <<x, x>> \notin Down_
      /\ \A x, y, z \in S : <<x, y>> \in Down_ /\ <<y, z>> \in Down_ => <<x, z>> \in Down_
  BY <1>1
<1>4. PICK b \in S : \A y \in S : <<y, b>> \notin Up
  BY <1>2, MinimalIn
<1>5. PICK t \in S : \A y \in S : <<y, t>> \notin Down_
  BY <1>3, MinimalIn
<1>6. (\A y \in S : b <= y) /\ (\A y \in S : t >= y)
  <2>1. \A y \in S : ~ (y < b) /\ ~ (y > t)
    BY <1>1, <1>4, <1>5
  <2>2. b \in Int /\ t \in Int /\ \A y \in S : y \in Int
    OBVIOUS
  <2> QED
    BY <2>1, <2>2
<1>7. LowestOf(S) = b /\ HighestOf(S) = t
  BY <1>6, LowestIs, HighestIs
<1> QED
  BY <1>6, <1>7

LEMMA LevelOK ==
  ASSUME NEW eligible, NEW q, NEW a, a.floor.bandCeiling = q.floor.bandCeiling, NEW floor, NEW cost
  PROVE  evaluateAtFloor(eligible, a, floor, cost) = evaluateAtFloor(eligible, q, floor, cost)
<1>1. \A c : aboveCeiling(c, a) <=> aboveCeiling(c, q)
  BY DEF aboveCeiling
<1>2. withinBounds(eligible, a, floor) = withinBounds(eligible, q, floor)
  BY <1>1 DEF withinBounds
<1> QED
  BY <1>2 DEF evaluateAtFloor

Serves(eligible, q, floor, cost) ==
  satisfiesFloor(evaluateAtFloor(eligible, q, floor, cost).affordable, floor)
LEMMA SettledIs ==
  ASSUME NEW eligible, NEW q, NEW cost, q.floor.minimumFloor \in Nat, q.floor.capabilityFloor \in Nat
  PROVE  LET f == settledFloor(eligible, q, cost)
             bounds == q.floor.minimumFloor..q.floor.capabilityFloor
         IN  /\ f \in Nat
             /\ \/ f = q.floor.minimumFloor /\ \A g \in bounds : ~ Serves(eligible, q, g, cost)
                \/ /\ f \in bounds /\ Serves(eligible, q, f, cost)
                   /\ \A g \in bounds : Serves(eligible, q, g, cost) => g <= f
<1> DEFINE bounds == q.floor.minimumFloor..q.floor.capabilityFloor
           works == {g \in bounds : Serves(eligible, q, g, cost)}
           f == settledFloor(eligible, q, cost)
<1>1. f = IF works = {} THEN q.floor.minimumFloor ELSE HighestOf(works)
  BY DEF settledFloor, Serves
<1>2. works \subseteq bounds /\ bounds \subseteq Nat /\ IsFiniteSet(bounds)
  <2>1. q.floor.minimumFloor \in Int /\ q.floor.capabilityFloor \in Int
    OBVIOUS
  <2>2. IsFiniteSet(bounds)
    BY <2>1, FS_Interval
  <2> QED
    BY <2>2
<1> HIDE DEF bounds, f
<1>3. CASE works = {}
  BY <1>1, <1>3 DEF bounds, f
<1>4. CASE works # {}
  <2> DEFINE top == HighestOf(works)
  <2>1. IsFiniteSet(works) /\ works \subseteq Int
    <3> HIDE DEF works
    <3>1. IsFiniteSet(works)
      BY <1>2, FiniteSubset
    <3> QED
      BY <1>2, <3>1
  <2>2. top \in works /\ \A x \in works : x <= top
    <3> HIDE DEF works
    <3> QED
      BY <1>4, <2>1, Extremes
  <2>3. f = top
    BY <1>1, <1>4
  <2> HIDE DEF top
  <2> QED
    BY <1>2, <2>2, <2>3 DEF bounds, f
<1> QED
  BY <1>3, <1>4

\* A floor that was settled on and serves settles where it is when it is asked for.
LEMMA SettledAgain ==
  ASSUME NEW eligible, NEW q, NEW a, NEW cost,
         q.floor.minimumFloor \in Nat, q.floor.capabilityFloor \in Nat,
         a.floor.bandCeiling = q.floor.bandCeiling, a.floor.minimumFloor = q.floor.minimumFloor,
         a.floor.capabilityFloor = settledFloor(eligible, q, cost),
         Serves(eligible, q, settledFloor(eligible, q, cost), cost)
  PROVE  settledFloor(eligible, a, cost) = settledFloor(eligible, q, cost)
<1> DEFINE f == settledFloor(eligible, q, cost)
           g == settledFloor(eligible, a, cost)
           least == q.floor.minimumFloor
           most == q.floor.capabilityFloor
<1>1. /\ f \in Nat /\ Serves(eligible, q, f, cost)
      /\ \/ f = least
         \/ f \in least..most
  BY SettledIs
<1>2. f >= least
  BY <1>1
<1>3. /\ g \in Nat
      /\ \/ g = least /\ \A x \in least..f : ~ Serves(eligible, a, x, cost)
         \/ /\ g \in least..f /\ Serves(eligible, a, g, cost)
            /\ \A x \in least..f : Serves(eligible, a, x, cost) => x <= g
  BY <1>1, SettledIs
<1>4. Serves(eligible, a, f, cost)
  BY <1>1, LevelOK DEF Serves
<1>5. f \in least..f
  BY <1>1, <1>2
<1> HIDE DEF f, g
<1>6. f = g
  BY <1>1, <1>3, <1>4, <1>5
<1> QED
  BY <1>6 DEF f, g

LEMMA BandsBounded ==
  ASSUME NEW c \in Contexts, NEW rung, NEW axis
  PROVE  bandForSnapshotEntry(rowFor(c.snapshot, rung), axis, c.snapshot.bandWidth) \subseteq 0..MAX_CAPABILITY_BAND
<1> DEFINE B == bandForSnapshotEntry(rowFor(c.snapshot, rung), axis, c.snapshot.bandWidth)
<1>1. c.snapshot.bandWidth \in Nat \ {0} /\ RowOK(rowFor(c.snapshot, rung))
  BY RowsOK, EvaluationAssumption DEF ContextOK
<1>2. B \subseteq Nat
  BY <1>1, Bands DEF AtMostOne
<1>3. B = {clampBand(bandFor(m.score, c.snapshot.bandWidth)) : m \in measurementForSnapshotEntry(rowFor(c.snapshot, rung), axis)}
  BY DEF bandForSnapshotEntry
<1> HIDE DEF B
<1>4. \A x : clampBand(x) \in Nat => clampBand(x) <= MAX_CAPABILITY_BAND
  BY DEF clampBand, MAX_CAPABILITY_BAND
<1>5. \A b \in B : b \in 0..MAX_CAPABILITY_BAND
  BY <1>2, <1>3, <1>4 DEF MAX_CAPABILITY_BAND
<1> QED
  BY <1>5 DEF B

\* A derived floor is the lowest band of the lead, its ceiling the highest.
LEMMA DerivedFloors ==
  ASSUME NEW c \in Contexts, NEW source, NEW axis
  PROVE  LET F == deriveFloor(source, axis, c.snapshot, registry)
             bands == bandedRungsFor(source.rungs[1].stableId, axis, c.snapshot, registry)
         IN  /\ bands \subseteq Nat
             /\ F.capabilityFloor \in Nat /\ F.minimumFloor \in Nat /\ F.minimumFloor <= F.capabilityFloor
             /\ bands = {} => F.capabilityFloor = 0 /\ F.bandCeiling = {}
             /\ bands # {} => F.capabilityFloor \in bands /\ \A b \in bands : F.capabilityFloor <= b
             /\ \A b \in bands, top \in F.bandCeiling : top \in Nat /\ b <= top
<1> DEFINE F == deriveFloor(source, axis, c.snapshot, registry)
           id == source.rungs[1].stableId
           bands == bandedRungsFor(id, axis, c.snapshot, registry)
           lowest == IF bands = {} THEN 0 ELSE LowestOf(bands)
<1>1. bands \subseteq 0..MAX_CAPABILITY_BAND
  <2>1. \A r : bandForSnapshotEntry(rowFor(c.snapshot, r), axis, c.snapshot.bandWidth) \subseteq 0..MAX_CAPABILITY_BAND
    BY BandsBounded
  <2> QED
    BY <2>1 DEF bandedRungsFor
<1>2. F = Floor(lowest, IF source.automaticFallback THEN 0 ELSE lowest,
                IF source.automaticFallback \/ bands = {} THEN {} ELSE {HighestOf(bands)})
  BY DEF deriveFloor
<1> HIDE DEF F, bands
<1>3. F.capabilityFloor = lowest /\ F.minimumFloor \in {0, lowest}
      /\ F.bandCeiling \in {{}, {HighestOf(bands)}} /\ (bands = {} => F.bandCeiling = {})
  BY <1>2 DEF Floor
<1>4. IsFiniteSet(0..MAX_CAPABILITY_BAND)
  <2>1. 0 \in Int /\ MAX_CAPABILITY_BAND \in Int
    BY DEF MAX_CAPABILITY_BAND
  <2> QED
    BY <2>1, FS_Interval
<1>5. bands \subseteq Nat /\ IsFiniteSet(bands)
  <2>1. IsFiniteSet(bands)
    BY <1>1, <1>4, FiniteSubset
  <2> QED
    BY <1>1, <2>1
<1>6. bands # {} => /\ LowestOf(bands) \in bands /\ \A b \in bands : LowestOf(bands) <= b
                    /\ HighestOf(bands) \in bands /\ \A b \in bands : b <= HighestOf(bands)
  <2>1. bands \subseteq Int
    BY <1>5
  <2> QED
    BY <1>5, <2>1, Extremes
<1>7. bands \subseteq Nat /\ (bands = {} => lowest = 0) /\ (bands # {} => lowest = LowestOf(bands)) /\ lowest \in Nat
  BY <1>5, <1>6
<1> HIDE DEF lowest
<1> QED
  BY <1>3, <1>6, <1>7 DEF F, bands

(* A selection made freely. *)

LEMMA RankedWhenFree ==
  ASSUME NEW q, NEW known, NEW snapshot, NEW cost, NEW view, NEW nowMs,
         LET d == select(q, known, snapshot, cost, view, nowMs)
         IN  d.outcome = "selected" /\ ~ d.overrideApplied
  PROVE  /\ ~ anyMeasurementExpired(snapshot, nowMs) /\ q.override = {} /\ ~ (cost <= 0)
         /\ eligibleIn(q, known, snapshot, view) # {}
         /\ select(q, known, snapshot, cost, view, nowMs)
              = selectRanked(q, eligibleIn(q, known, snapshot, view), cost, view)
<1> DEFINE eligible == eligibleIn(q, known, snapshot, view)
           wanted == overrideMatches(q, eligible)
           d == select(q, known, snapshot, cost, view, nowMs)
           asked == q.floor.capabilityFloor
<1>1. d = IF anyMeasurementExpired(snapshot, nowMs) THEN Refused("snapshot-expired", asked, FALSE)
          ELSE IF eligible = {} THEN Refused("no-eligible-rung", asked, FALSE)
          ELSE IF q.override # {}
               THEN IF wanted = {} THEN Refused("override-ineligible", asked, TRUE)
                    ELSE Decision("selected", Null, InOrder(wanted, view), asked, TRUE, NoFindings)
          ELSE IF cost <= 0 THEN Refused("budget-exhausted", asked, FALSE)
          ELSE selectRanked(q, eligible, cost, view)
  BY DEF select
<1>2. \A r, f, o : Refused(r, f, o).outcome = "refused"
  BY DEF Refused, Decision
<1>3. \A r, s, f, n : Decision("selected", r, s, f, TRUE, n).overrideApplied = TRUE
  BY DEF Decision
<1>4. d.outcome = "selected" /\ ~ d.overrideApplied
  OBVIOUS
<1> HIDE DEF d, eligible, wanted, asked
<1>5. d = selectRanked(q, eligible, cost, view) /\ ~ anyMeasurementExpired(snapshot, nowMs)
      /\ q.override = {} /\ ~ (cost <= 0) /\ eligible # {}
  BY <1>1, <1>2, <1>3, <1>4
<1> QED
  BY <1>5 DEF d, eligible

\* The other way round.
LEMMA FreeWhenRanked ==
  ASSUME NEW q, NEW known, NEW snapshot, NEW cost, NEW view, NEW nowMs,
         ~ anyMeasurementExpired(snapshot, nowMs), q.override = {}, ~ (cost <= 0),
         eligibleIn(q, known, snapshot, view) # {}
  PROVE  select(q, known, snapshot, cost, view, nowMs)
           = selectRanked(q, eligibleIn(q, known, snapshot, view), cost, view)
BY DEF select

\* What a ranked selection consists of.
LEMMA RankedParts ==
  ASSUME NEW q, NEW eligible, NEW cost, NEW view
  PROVE  LET d == selectRanked(q, eligible, cost, view)
             f == settledFloor(eligible, q, cost)
             found == evaluateAtFloor(eligible, q, f, cost)
         IN  /\ d.effectiveFloor = f
             /\ ~ satisfiesFloor(found.affordable, f) => d.outcome = "refused"
             /\ satisfiesFloor(found.affordable, f) =>
                  /\ d.outcome = "selected" /\ ~ d.overrideApplied /\ d.found = found
                  /\ d.stack = enforceLeadCoherence(found, q.incumbent, view)
                  /\ d = Decision("selected", Null, enforceLeadCoherence(found, q.incumbent, view), f, FALSE, found)
<1> DEFINE f == settledFloor(eligible, q, cost)
           found == evaluateAtFloor(eligible, q, f, cost)
           stack == enforceLeadCoherence(found, q.incumbent, view)
           why == IF found.constrained # {} THEN "floor-unreachable-in-budget" ELSE "no-eligible-rung"
           d == selectRanked(q, eligible, cost, view)
<1>1. d = IF ~ satisfiesFloor(found.affordable, f) THEN Refused(why, f, FALSE)
          ELSE Decision("selected", Null, stack, f, FALSE, found)
  BY DEF selectRanked
<1> HIDE DEF d, f, found, stack, why
<1>2. /\ Refused(why, f, FALSE).effectiveFloor = f /\ Refused(why, f, FALSE).outcome = "refused"
      /\ Decision("selected", Null, stack, f, FALSE, found).effectiveFloor = f
      /\ Decision("selected", Null, stack, f, FALSE, found).outcome = "selected"
      /\ Decision("selected", Null, stack, f, FALSE, found).overrideApplied = FALSE
      /\ Decision("selected", Null, stack, f, FALSE, found).found = found
      /\ Decision("selected", Null, stack, f, FALSE, found).stack = stack
  BY DEF Refused, Decision
<1>3. /\ d.effectiveFloor = f
      /\ ~ satisfiesFloor(found.affordable, f) => d.outcome = "refused"
      /\ satisfiesFloor(found.affordable, f) =>
           /\ d.outcome = "selected" /\ ~ d.overrideApplied /\ d.found = found /\ d.stack = stack
           /\ d = Decision("selected", Null, stack, f, FALSE, found)
  BY <1>1, <1>2
<1> QED
  BY <1>3 DEF d, f, found, stack

\* What was asked of the selection, and of which context.
LEMMA AskedOf ==
  ASSUME FullInv, NEW q \in evaluation.asked
  PROVE  \E c \in Contexts, s \in AllStacks :
           /\ Asked = c /\ s \in stackFor(c) /\ floorStacksFor(c, s) # {}
           /\ evaluation.stack = {s} /\ evaluation.asked = {q} /\ evaluation.selection = {Selection}
           /\ q = selectionRequestFor(registry, c, s)
           /\ Selection = select(q, registry, c.snapshot, c.cost, viewFor(c), c.nowMs)
<1>1. context # {}
  <2>1. evaluation # NoEvaluation
    BY DEF NoEvaluation, Evaluation
  <2> QED
    BY <2>1 DEF FullInv, EvaluationInv
<1>2. PICK c \in Contexts : Evaluated(c)
  BY <1>1 DEF FullInv, EvaluationInv
<1>3. errorFor(c) = Null
  BY <1>2, Parts DEF Evaluated
<1> DEFINE d(p) == select(p, registry, c.snapshot, c.cost, viewFor(c), c.nowMs)
<1>4. PICK s \in stackFor(c) :
        /\ evaluation.stack = {s}
        /\ \/ evaluation.asked = {} /\ evaluation.selection = {}
           \/ LET p == selectionRequestFor(registry, c, s)
              IN  evaluation.asked = {p} /\ evaluation.selection = {d(p)}
  BY <1>2, <1>3, Parts DEF Evaluated
<1> HIDE DEF d
<1>5. /\ q = selectionRequestFor(registry, c, s) /\ evaluation.asked = {q}
      /\ evaluation.selection = {d(q)}
  BY <1>4
<1>6. Selection = d(q) /\ evaluation.selection = {Selection}
  BY <1>5 DEF Selection
<1>7. Asked = c
  BY <1>2 DEF Evaluated, Asked
<1>8. s \in AllStacks /\ floorStacksFor(c, s) # {}
  BY <1>2, <1>3, StackOf DEF Evaluated
<1> QED
  BY <1>4, <1>5, <1>6, <1>7, <1>8 DEF d

LEMMA RequestParts ==
  ASSUME NEW c \in Contexts, NEW s, NEW q, q = selectionRequestFor(registry, c, s)
  PROVE  /\ q.route = s.route /\ q.axis = axisForCapabilityRoute(s.route)
         /\ q.floor = deriveFloor(floorStackFor(c, s), axisForCapabilityRoute(s.route), c.snapshot, registry)
         /\ q.override = c.override /\ q.excludedRung = c.excludedRung
         /\ q.excludedStableId = c.excludedStableId
         /\ q.incumbent = deriveLeadPolicy(s, registry)
         /\ q.floor.minimumFloor \in Nat /\ q.floor.capabilityFloor \in Nat
<1>1. /\ q.route = s.route /\ q.axis = axisForCapabilityRoute(s.route)
      /\ q.floor = deriveFloor(floorStackFor(c, s), axisForCapabilityRoute(s.route), c.snapshot, registry)
      /\ q.override = c.override /\ q.excludedRung = c.excludedRung
      /\ q.excludedStableId = c.excludedStableId
      /\ q.incumbent = deriveLeadPolicy(s, registry)
  BY DEF selectionRequestFor, SelectionRequest, floorFor
<1> QED
  BY <1>1, DerivedFloors

\* The same request at another floor.
AtFloor(q, f) == [q EXCEPT !.floor = [@ EXCEPT !.capabilityFloor = f]]
LEMMA AtFloorParts ==
  ASSUME NEW c \in Contexts, NEW s, NEW q, q = selectionRequestFor(registry, c, s), NEW f
  PROVE  LET a == AtFloor(q, f)
         IN  /\ a.route = q.route /\ a.axis = q.axis /\ a.override = q.override
             /\ a.excludedRung = q.excludedRung /\ a.excludedStableId = q.excludedStableId
             /\ a.incumbent = q.incumbent
             /\ a.floor.minimumFloor = q.floor.minimumFloor /\ a.floor.bandCeiling = q.floor.bandCeiling
             /\ a.floor.capabilityFloor = f
<1> DEFINE F == floorFor(registry, c, s)
           I == deriveLeadPolicy(s, registry)
           X == axisForCapabilityRoute(s.route)
<1>1. q = [route |-> s.route, axis |-> X, floor |-> F, override |-> c.override,
           excludedRung |-> c.excludedRung, excludedStableId |-> c.excludedStableId, incumbent |-> I]
  BY DEF selectionRequestFor, SelectionRequest
<1>2. \E x, y, z : F = [capabilityFloor |-> x, minimumFloor |-> y, bandCeiling |-> z]
  BY DEF floorFor, deriveFloor, Floor
<1> HIDE DEF F, I, X
<1>3. PICK x, y, z : F = [capabilityFloor |-> x, minimumFloor |-> y, bandCeiling |-> z]
  BY <1>2
<1> QED
  BY <1>1, <1>3 DEF AtFloor

LEMMA SameEligible ==
  ASSUME NEW q, NEW a, a.route = q.route, a.axis = q.axis,
         a.excludedRung = q.excludedRung, a.excludedStableId = q.excludedStableId,
         NEW snapshot, NEW view
  PROVE  eligibleIn(a, registry, snapshot, view) = eligibleIn(q, registry, snapshot, view)
<1>1. \A c : rejectionOf(c, a, view) = rejectionOf(c, q, view)
  BY DEF rejectionOf
<1> QED
  BY <1>1 DEF eligibleIn

LEMMA DegradedSame == FullInv => DegradedAsIfRequested
<1> SUFFICES ASSUME FullInv, SelectedFreely, NEW q \in evaluation.asked
             PROVE  select(AtFloor(q, Selection.effectiveFloor), registry, Asked.snapshot, Asked.cost,
                           viewFor(Asked), Asked.nowMs) = Selection
  BY DEF DegradedAsIfRequested, AtFloor
<1>1. PICK c \in Contexts, s \in AllStacks :
        /\ Asked = c /\ evaluation.selection = {Selection}
        /\ q = selectionRequestFor(registry, c, s)
        /\ Selection = select(q, registry, c.snapshot, c.cost, viewFor(c), c.nowMs)
  BY AskedOf
<1> DEFINE view == viewFor(c)
           E == eligibleIn(q, registry, c.snapshot, view)
           f == settledFloor(E, q, c.cost)
           a == AtFloor(q, f)
           found == evaluateAtFloor(E, q, f, c.cost)
<1>2. Selection.outcome = "selected" /\ ~ Selection.overrideApplied
  BY <1>1 DEF SelectedFreely
<1>3. /\ ~ anyMeasurementExpired(c.snapshot, c.nowMs) /\ q.override = {} /\ ~ (c.cost <= 0) /\ E # {}
      /\ Selection = selectRanked(q, E, c.cost, view)
  BY <1>1, <1>2, RankedWhenFree
<1>4. /\ Selection.effectiveFloor = f /\ Serves(E, q, f, c.cost)
      /\ Selection = Decision("selected", Null, enforceLeadCoherence(found, q.incumbent, view), f, FALSE, found)
  BY <1>2, <1>3, RankedParts DEF Serves
<1>5. /\ a.route = q.route /\ a.axis = q.axis /\ a.override = q.override
      /\ a.excludedRung = q.excludedRung /\ a.excludedStableId = q.excludedStableId
      /\ a.incumbent = q.incumbent
      /\ a.floor.minimumFloor = q.floor.minimumFloor /\ a.floor.bandCeiling = q.floor.bandCeiling
      /\ a.floor.capabilityFloor = f
  BY <1>1, AtFloorParts
<1>6. q.floor.minimumFloor \in Nat /\ q.floor.capabilityFloor \in Nat
  BY <1>1, RequestParts
<1> HIDE DEF a
<1>7. eligibleIn(a, registry, c.snapshot, view) = E
  BY <1>5, SameEligible
<1> HIDE DEF E, view
<1>8. settledFloor(E, a, c.cost) = f
  BY <1>4, <1>5, <1>6, SettledAgain
<1> HIDE DEF f
<1>9. evaluateAtFloor(E, a, f, c.cost) = found
  BY <1>5, LevelOK
<1>10. select(a, registry, c.snapshot, c.cost, view, c.nowMs) = selectRanked(a, E, c.cost, view)
  BY <1>3, <1>5, <1>7, FreeWhenRanked
<1>11. selectRanked(a, E, c.cost, view)
         = Decision("selected", Null, enforceLeadCoherence(found, a.incumbent, view), f, FALSE, found)
  <2>1. satisfiesFloor(found.affordable, f)
    BY <1>4 DEF Serves
  <2> HIDE DEF found
  <2> QED
    BY <1>8, <1>9, <2>1, RankedParts
<1> QED
  BY <1>1, <1>4, <1>5, <1>10, <1>11 DEF a, view

\* Lowering a floor leaves no trace: asking for the floor that was settled on gives the same
\* decision, order, prunings and all (select: "a degraded selection is indistinguishable
\* from one requested at that floor to begin with"), for every registry and snapshot.
THEOREM DegradedAsIfRequestedHolds == EvaluationSpec => []DegradedAsIfRequested
BY DegradedSame, EvaluationInvariance, PTL

(* The stack of a free selection. *)

MembersOf(s) == {s[i] : i \in DOMAIN s}
LEMMA Fronted ==
  ASSUME NEW S, NEW s \in Seq(S), NEW b
  PROVE  (<<b>> \o s)[1] = b /\ MembersOf(<<b>> \o s) = {b} \cup MembersOf(s)
<1> DEFINE t == <<b>> \o s
           n == Len(s)
<1>1. n \in Nat /\ DOMAIN s = 1..n
  OBVIOUS
<1>2. DOMAIN t = 1..(n + 1) /\ t[1] = b /\ \A i \in 1..n : t[i + 1] = s[i]
  <2>1. Len(t) = n + 1 /\ DOMAIN t = 1..(n + 1)
    OBVIOUS
  <2>2. t[1] = b /\ \A i \in 1..n : t[i + 1] = s[i]
    OBVIOUS
  <2> QED
    BY <2>1, <2>2
<1> HIDE DEF t, n
<1>3. \A i \in 1..(n + 1) : i = 1 \/ (i - 1 \in 1..n /\ t[i] = s[i - 1])
  <2> SUFFICES ASSUME NEW i \in 1..(n + 1), i # 1 PROVE i - 1 \in 1..n /\ t[i] = s[i - 1]
    OBVIOUS
  <2>1. i - 1 \in 1..n /\ (i - 1) + 1 = i
    BY <1>1
  <2> QED
    BY <1>2, <2>1
<1>4. 1 \in 1..(n + 1) /\ \A i \in 1..n : i + 1 \in 1..(n + 1)
  BY <1>1
<1>5. MembersOf(t) = {b} \cup MembersOf(s)
  <2>1. ASSUME NEW x \in MembersOf(t) PROVE x \in {b} \cup MembersOf(s)
    <3>1. PICK i \in 1..(n + 1) : x = t[i]
      BY <1>2, <2>1 DEF MembersOf
    <3>2. CASE i = 1
      BY <1>2, <3>1, <3>2
    <3>3. CASE i # 1
      BY <1>1, <1>3, <3>1, <3>3 DEF MembersOf
    <3> QED
      BY <3>2, <3>3
  <2>2. ASSUME NEW x \in MembersOf(s) PROVE x \in MembersOf(t)
    <3>1. PICK i \in 1..n : x = s[i]
      BY <1>1, <2>2 DEF MembersOf
    <3>2. i + 1 \in 1..(n + 1) /\ t[i + 1] = x
      BY <1>2, <1>4, <3>1
    <3> QED
      BY <1>2, <3>2 DEF MembersOf
  <2>3. b \in MembersOf(t)
    BY <1>2, <1>4 DEF MembersOf
  <2> QED
    BY <2>1, <2>2, <2>3
<1> QED
  BY <1>2, <1>5 DEF t

OnIncumbent(found, incumbent) == {c \in found.affordable \cup found.reinstatable : c.backend \in incumbent}

\* A stack is in order, or its order but for the best of the incumbent in front.
Coherent(found, incumbent, view) ==
  LET stack == enforceLeadCoherence(found, incumbent, view)
      ordered == InOrder(found.affordable, view)
      able == OnIncumbent(found, incumbent)
      best == InOrder(able, view)[1]
  IN  \/ /\ stack = ordered /\ MembersOf(stack) = found.affordable /\ stack[1] \in found.affordable
         /\ \/ incumbent \subseteq {stack[1].backend}
            \/ able = {}
            \/ able # {} /\ best \in able /\ improvesBand(stack[1], best)
      \/ /\ able # {} /\ best \in able /\ stack[1] = best
         /\ MembersOf(stack) = {best} \cup {c \in found.affordable : c.rung # best.rung}
LEMMA Coherence ==
  ASSUME NEW found, NEW incumbent, NEW view,
         Sortable(found.affordable \cup found.reinstatable, view), found.affordable # {}
  PROVE  Coherent(found, incumbent, view)
<1> DEFINE stack == enforceLeadCoherence(found, incumbent, view)
           ordered == InOrder(found.affordable, view)
           able == OnIncumbent(found, incumbent)
           best == InOrder(able, view)[1]
           rest == {c \in found.affordable : c.rung # best.rung}
           choice == bestOnIncumbent(found, incumbent, view)
<1>1. Sortable(found.affordable, view) /\ Sortable(able, view) /\ Sortable(rest, view)
  <2>1. /\ found.affordable \subseteq found.affordable \cup found.reinstatable
        /\ able \subseteq found.affordable \cup found.reinstatable
        /\ rest \subseteq found.affordable \cup found.reinstatable
    BY DEF OnIncumbent
  <2> HIDE DEF able, rest
  <2> QED
    BY <2>1, SubsetSortable
<1>2. /\ MembersOf(ordered) = found.affordable /\ ordered[1] \in found.affordable
      /\ able # {} => best \in able
      /\ InOrder(rest, view) \in Seq(rest) /\ MembersOf(InOrder(rest, view)) = rest
  <2> HIDE DEF able, rest
  <2> QED
    BY <1>1, InOrderOf DEF MembersOf
<1>3. choice = IF able = {} THEN {} ELSE {best}
  BY DEF bestOnIncumbent, OnIncumbent
<1>4. stack = IF incumbent \subseteq {ordered[1].backend} \/ choice = {} THEN ordered
              ELSE LET b == CHOOSE c \in choice : TRUE
                   IN  IF improvesBand(ordered[1], b) THEN ordered
                       ELSE <<b>> \o InOrder({c \in found.affordable : c.rung # b.rung}, view)
  BY DEF enforceLeadCoherence
<1> SUFFICES \/ /\ stack = ordered /\ MembersOf(stack) = found.affordable /\ stack[1] \in found.affordable
                /\ \/ incumbent \subseteq {stack[1].backend}
                   \/ able = {}
                   \/ able # {} /\ best \in able /\ improvesBand(stack[1], best)
             \/ /\ able # {} /\ best \in able /\ stack[1] = best
                /\ MembersOf(stack) = {best} \cup {c \in found.affordable : c.rung # best.rung}
  BY DEF Coherent
<1>5. CASE incumbent \subseteq {ordered[1].backend} \/ able = {}
  <2>1. stack = ordered
    BY <1>3, <1>4, <1>5
  <2> HIDE DEF stack, ordered
  <2> QED
    BY <1>2, <1>5, <2>1 DEF stack, ordered
<1>6. CASE ~ (incumbent \subseteq {ordered[1].backend}) /\ able # {}
  <2>1. stack = IF improvesBand(ordered[1], best) THEN ordered ELSE <<best>> \o InOrder(rest, view)
    <3>1. choice = {best} /\ choice # {}
      BY <1>3, <1>6
    <3> DEFINE b == CHOOSE c \in choice : TRUE
               others == {c \in found.affordable : c.rung # b.rung}
    <3>2. b = best
      <4> HIDE DEF choice, best
      <4> QED
        BY <3>1
    <3>3. stack = IF improvesBand(ordered[1], b) THEN ordered ELSE <<b>> \o InOrder(others, view)
      <4> HIDE DEF choice
      <4> QED
        BY <1>4, <1>6, <3>1
    <3>4. others = rest
      <4> HIDE DEF b, best
      <4> QED
        BY <3>2
    <3> HIDE DEF choice, best, ordered, stack, b, others, rest
    <3> QED
      BY <3>2, <3>3, <3>4
  <2> HIDE DEF stack
  <2>2. CASE improvesBand(ordered[1], best)
    <3>1. stack = ordered
      BY <2>1, <2>2
    <3> HIDE DEF ordered, able, best
    <3> QED
      BY <1>2, <1>6, <2>2, <3>1 DEF stack, ordered, able, best
  <2>3. CASE ~ improvesBand(ordered[1], best)
    <3>1. stack = <<best>> \o InOrder(rest, view)
      BY <2>1, <2>3
    <3>2. stack[1] = best /\ MembersOf(stack) = {best} \cup rest
      <4> HIDE DEF rest, best
      <4> QED
        BY <1>2, <3>1, Fronted
    <3> HIDE DEF able, best
    <3> QED
      BY <1>2, <1>6, <3>2 DEF stack, able, best
  <2> QED
    BY <2>2, <2>3
<1> QED
  BY <1>5, <1>6

\* What a level leaves, by what it takes away.
LevelSplit(eligible, q, floor, cost) ==
  LET found == evaluateAtFloor(eligible, q, floor, cost)
      bounded == withinBounds(eligible, q, floor)
  IN  /\ bounded \subseteq eligible
      /\ found.pruned = dominatedIn(bounded) /\ found.pruned \subseteq bounded
      /\ found.affordable = affordableIn(bounded \ dominatedIn(bounded), cost)
      /\ found.reinstatable = affordableIn(dominatedIn(bounded), cost)
      /\ found.affordable \cup found.reinstatable = affordableIn(bounded, cost)
      /\ found.constrained = (bounded \ dominatedIn(bounded)) \ found.affordable
LEMMA LevelParts ==
  ASSUME NEW eligible, NEW q, NEW floor, NEW cost PROVE LevelSplit(eligible, q, floor, cost)
<1> DEFINE found == evaluateAtFloor(eligible, q, floor, cost)
           bounded == withinBounds(eligible, q, floor)
<1>1. bounded \subseteq eligible
  BY DEF withinBounds
<1> HIDE DEF bounded
<1>2. dominatedIn(bounded) \subseteq bounded
  BY DEF dominatedIn
<1>3. found = [pruned |-> dominatedIn(bounded),
               constrained |-> (bounded \ dominatedIn(bounded)) \ affordableIn(bounded, cost),
               affordable |-> affordableIn(bounded \ dominatedIn(bounded), cost),
               reinstatable |-> affordableIn(dominatedIn(bounded), cost)]
  BY DEF evaluateAtFloor, bounded
<1> HIDE DEF found
<1>4. affordableIn(bounded \ dominatedIn(bounded), cost) \cup affordableIn(dominatedIn(bounded), cost)
        = affordableIn(bounded, cost)
  BY <1>2 DEF affordableIn
<1>5. (bounded \ dominatedIn(bounded)) \ affordableIn(bounded, cost)
        = (bounded \ dominatedIn(bounded)) \ affordableIn(bounded \ dominatedIn(bounded), cost)
  BY DEF affordableIn
<1> QED
  BY <1>1, <1>2, <1>3, <1>4, <1>5 DEF LevelSplit, found, bounded

LEMMA AffordableWithin ==
  ASSUME NEW eligible, NEW q, NEW floor, NEW cost
  PROVE  evaluateAtFloor(eligible, q, floor, cost).affordable
           \cup evaluateAtFloor(eligible, q, floor, cost).reinstatable \subseteq eligible
<1> DEFINE bounded == withinBounds(eligible, q, floor)
           found == evaluateAtFloor(eligible, q, floor, cost)
<1>1. bounded \subseteq eligible /\ found.affordable \cup found.reinstatable = affordableIn(bounded, cost)
  <2>1. LevelSplit(eligible, q, floor, cost)
    BY LevelParts
  <2> QED
    BY <2>1 DEF LevelSplit
<1> HIDE DEF bounded, found
<1>2. found.affordable \cup found.reinstatable \subseteq eligible
  BY <1>1 DEF affordableIn
<1> QED
  BY <1>2 DEF found

\* All of it together for the selection in hand.
LEMMA FreeSelection ==
  ASSUME FullInv, SelectedFreely, NEW q \in evaluation.asked
  PROVE  LET view == viewFor(Asked)
             all == Candidates(registry, Asked.snapshot, q.axis)
             E == eligibleIn(q, registry, Asked.snapshot, view)
             found == evaluateAtFloor(E, q, Selection.effectiveFloor, Asked.cost)
         IN  /\ Asked \in Contexts /\ E \subseteq all /\ Sortable(all, view)
             /\ Selection.found = found /\ found.affordable # {}
             /\ Selection.stack = enforceLeadCoherence(found, q.incumbent, view)
             /\ \E s \in AllStacks : q.incumbent = deriveLeadPolicy(s, registry)
             /\ Sortable(found.affordable \cup found.reinstatable, view)
<1>1. PICK c \in Contexts, s \in AllStacks :
        /\ Asked = c /\ evaluation.selection = {Selection}
        /\ q = selectionRequestFor(registry, c, s)
        /\ Selection = select(q, registry, c.snapshot, c.cost, viewFor(c), c.nowMs)
  BY AskedOf
<1> DEFINE view == viewFor(c)
           all == Candidates(registry, c.snapshot, q.axis)
           E == eligibleIn(q, registry, c.snapshot, view)
           f == settledFloor(E, q, c.cost)
           found == evaluateAtFloor(E, q, f, c.cost)
<1>2. Selection.outcome = "selected" /\ ~ Selection.overrideApplied
  BY <1>1 DEF SelectedFreely
<1>3. Selection = selectRanked(q, E, c.cost, view)
  BY <1>1, <1>2, RankedWhenFree
<1>4. /\ Selection.effectiveFloor = f /\ satisfiesFloor(found.affordable, f) /\ Selection.found = found
      /\ Selection.stack = enforceLeadCoherence(found, q.incumbent, view)
  BY <1>2, <1>3, RankedParts
<1>5. found.affordable # {}
  <2> HIDE DEF found
  <2> QED
    BY <1>4 DEF satisfiesFloor
<1>6. Sortable(all, view)
  BY CandidatesSortable DEF FullInv, ValidInv
<1>7. E \subseteq all
  BY DEF eligibleIn
<1>8. q.incumbent = deriveLeadPolicy(s, registry)
  BY <1>1, RequestParts
<1>9. found.affordable \cup found.reinstatable \subseteq all
  <2>1. found.affordable \cup found.reinstatable \subseteq E
    <3> HIDE DEF E, f
    <3> QED
      BY AffordableWithin
  <2> HIDE DEF E, found
  <2> QED
    BY <1>7, <2>1
<1>10. Sortable(found.affordable \cup found.reinstatable, view)
  <2> HIDE DEF all, found
  <2> QED
    BY <1>6, <1>9, SubsetSortable
<1> HIDE DEF view, all, f
<1> QED
  BY <1>1, <1>4, <1>5, <1>6, <1>7, <1>8, <1>10 DEF view, all

LEMMA BandOrder ==
  ASSUME NEW view, NEW S, Sortable(S, view), NEW a \in S, NEW c \in S, c = a \/ Precedes(a, c, view)
  PROVE  Num(a.band) >= Num(c.band)
<1>1. Comparable(a, view) /\ Comparable(c, view)
  BY DEF Sortable
<1>2. Num(a.band) \in Int /\ Num(c.band) \in Int
  BY <1>1, Numbers DEF Comparable
<1>3. CASE c = a
  BY <1>2, <1>3
<1>4. CASE Precedes(a, c, view)
  <2>1. Num(a.band) > Num(c.band) \/ Num(a.band) = Num(c.band)
    BY <1>1, <1>4, PrecedesIs
  <2> QED
    BY <1>2, <2>1
<1> QED
  BY <1>3, <1>4

\* What takes the lead from the best of the incumbent takes it from all of it.
LEMMA ImprovesOnAll ==
  ASSUME NEW view, NEW S, Sortable(S, view), NEW lead, AtMostOne(lead.band),
         NEW best \in S, \A c \in S : c = best \/ Precedes(best, c, view), improvesBand(lead, best)
  PROVE  /\ best.band # {}
         /\ \A c \in S : c.band # {} => improvesBand(lead, c)
<1>1. PICK x \in lead.band, y \in best.band : x > y
  BY DEF improvesBand
<1>2. AtMostOne(best.band) /\ \A c \in S : AtMostOne(c.band)
  BY DEF Sortable, Comparable
<1>3. y = Num(best.band) /\ y \in Nat /\ x \in Nat
  BY <1>1, <1>2, Numbers DEF AtMostOne
<1>4. ASSUME NEW c \in S, c.band # {} PROVE improvesBand(lead, c)
  <2>1. c.band = {Num(c.band)} /\ Num(c.band) \in Int
    BY <1>2, <1>4, Numbers
  <2>2. y >= Num(c.band)
    BY <1>3, BandOrder
  <2>3. x > Num(c.band)
    BY <1>1, <1>3, <2>1, <2>2
  <2> QED
    BY <1>1, <2>1, <2>3 DEF improvesBand
<1> QED
  BY <1>1, <1>4

LEMMA LeadKept == FullInv => LeadKeepsBackend
<1> SUFFICES ASSUME FullInv, SelectedFreely, NEW q \in evaluation.asked, NEW b \in q.incumbent
             PROVE  LET able == {c \in withinBounds(eligibleIn(q, registry, Asked.snapshot, viewFor(Asked)), q,
                                                    Selection.effectiveFloor) :
                                   c.backend = b /\ \A p \in c.row.usd : p <= Asked.cost}
                    IN  \/ Selection.stack[1].backend = b
                        \/ able = {}
                        \/ LET ranked == {c \in able : c.band # {}}
                           IN  ranked # {} /\ \A c \in ranked : improvesBand(Selection.stack[1], c)
  BY DEF LeadKeepsBackend
<1> DEFINE view == viewFor(Asked)
           E == eligibleIn(q, registry, Asked.snapshot, view)
           f == Selection.effectiveFloor
           cost == Asked.cost
           found == evaluateAtFloor(E, q, f, cost)
           bounded == withinBounds(E, q, f)
           able == {c \in bounded : c.backend = b /\ \A p \in c.row.usd : p <= cost}
           S == found.affordable \cup found.reinstatable
           stack == Selection.stack
<1>1. /\ Sortable(S, view) /\ found.affordable # {}
      /\ stack = enforceLeadCoherence(found, q.incumbent, view)
  BY FreeSelection
<1>2. q.incumbent = {b}
  <2>1. PICK s \in AllStacks : q.incumbent = deriveLeadPolicy(s, registry)
    BY FreeSelection
  <2> QED
    BY <2>1 DEF deriveLeadPolicy
<1>3. OnIncumbent(found, q.incumbent) = able /\ able \subseteq S
  <2> HIDE DEF E, f, cost
  <2>1. S = affordableIn(bounded, cost)
    <3>1. LevelSplit(E, q, f, cost)
      BY LevelParts
    <3> QED
      BY <3>1 DEF LevelSplit
  <2> HIDE DEF found, bounded
  <2> QED
    BY <1>2, <2>1 DEF OnIncumbent, affordableIn
<1> DEFINE best == InOrder(able, view)[1]
<1>4. \/ /\ stack[1] \in found.affordable
         /\ \/ q.incumbent \subseteq {stack[1].backend}
            \/ able = {}
            \/ able # {} /\ best \in able /\ improvesBand(stack[1], best)
      \/ able # {} /\ best \in able /\ stack[1] = best
  <2> HIDE DEF E, f, cost, found, view, stack
  <2>1. Sortable(found.affordable \cup found.reinstatable, view)
    BY <1>1
  <2>2. Coherent(found, q.incumbent, view)
    BY <1>1, <2>1, Coherence
  <2> HIDE DEF S, able
  <2> QED
    BY <1>1, <1>3, <2>2 DEF Coherent
<1>5. CASE q.incumbent \subseteq {stack[1].backend}
  BY <1>2, <1>5
<1>6. CASE able = {}
  BY <1>6
<1>7. CASE best \in able /\ stack[1] = best
  BY <1>7
<1>8. CASE stack[1] \in found.affordable /\ able # {} /\ best \in able /\ improvesBand(stack[1], best)
  <2>1. Sortable(able, view) /\ AtMostOne(stack[1].band)
    <3> HIDE DEF able, found, view, stack
    <3>1. Sortable(able, view)
      BY <1>1, <1>3, SubsetSortable
    <3> QED
      BY <1>1, <1>8, <3>1 DEF Sortable, Comparable
  <2> HIDE DEF able, view, stack
  <2>2. \A c \in able : c = best \/ Precedes(best, c, view)
    BY <1>8, <2>1, InOrderOf
  <2> HIDE DEF best
  <2>3. best.band # {} /\ \A c \in able : c.band # {} => improvesBand(stack[1], c)
    BY <1>8, <2>1, <2>2, ImprovesOnAll
  <2> HIDE DEF found
  <2>4. \E c \in able : c.band # {}
    BY <1>8, <2>3
  <2> QED
    BY <2>3, <2>4 DEF able, stack, view
<1> QED
  BY <1>4, <1>5, <1>6, <1>7, <1>8

\* Ids are unique: a rung names one candidate.
LEMMA DistinctRungs ==
  ASSUME ~ DuplicateIds, NEW snapshot, NEW axis,
         NEW a \in Candidates(registry, snapshot, axis), NEW b \in Candidates(registry, snapshot, axis),
         a.rung = b.rung
  PROVE  a = b
<1>1. PICK j \in Keys : a = CandidateOf(j, snapshot, axis)
  BY CandidatesAre
<1>2. PICK k \in Keys : b = CandidateOf(k, snapshot, axis)
  BY CandidatesAre
<1>3. /\ j[1] \in DOMAIN registry /\ k[1] \in DOMAIN registry /\ j[2] \in 1..6 /\ k[2] \in 1..6
      /\ j = <<j[1], j[2]>> /\ k = <<k[1], k[2]>>
  BY DEF Keys
<1>4. registry[j[1]].stableId = registry[k[1]].stableId /\ Efforts6[j[2]] = Efforts6[k[2]]
  BY <1>1, <1>2 DEF CandidateOf
<1>5. j[1] = k[1]
  BY <1>3, <1>4 DEF DuplicateIds
<1>6. j[2] = k[2]
  BY <1>3, <1>4 DEF Efforts6
<1> QED
  BY <1>1, <1>2, <1>3, <1>5, <1>6

\* The stack holds all that is affordable, and what it holds besides is the pruned
\* rung that was brought back to lead.
LEMMA Offered ==
  ASSUME FullInv, SelectedFreely, ~ DuplicateIds, NEW q \in evaluation.asked
  PROVE  LET found == Selection.found
             offered == MembersOf(Selection.stack)
         IN  /\ found.affordable \subseteq offered
             /\ \A c \in offered : c \in found.affordable \/ (c \in found.reinstatable /\ c = Selection.stack[1])
<1> DEFINE view == viewFor(Asked)
           all == Candidates(registry, Asked.snapshot, q.axis)
           E == eligibleIn(q, registry, Asked.snapshot, view)
           found == evaluateAtFloor(E, q, Selection.effectiveFloor, Asked.cost)
           stack == Selection.stack
           able == OnIncumbent(found, q.incumbent)
           best == InOrder(able, view)[1]
<1>1. /\ E \subseteq all /\ Selection.found = found /\ found.affordable # {}
      /\ stack = enforceLeadCoherence(found, q.incumbent, view)
      /\ Sortable(found.affordable \cup found.reinstatable, view)
  BY FreeSelection
<1>2. found.affordable \cup found.reinstatable \subseteq E
  <2> HIDE DEF E
  <2> QED
    BY AffordableWithin
<1>3. \A c, d \in found.affordable \cup found.reinstatable : c.rung = d.rung => c = d
  <2> HIDE DEF E, found
  <2>1. found.affordable \cup found.reinstatable \subseteq all
    BY <1>1, <1>2
  <2> QED
    BY <2>1, DistinctRungs
<1>4. \/ MembersOf(stack) = found.affordable
      \/ /\ best \in able /\ stack[1] = best
         /\ MembersOf(stack) = {best} \cup {c \in found.affordable : c.rung # best.rung}
  <2> HIDE DEF E, found, view, stack
  <2>1. Coherent(found, q.incumbent, view)
    BY <1>1, Coherence
  <2> QED
    BY <1>1, <2>1 DEF Coherent
<1>5. able \subseteq found.affordable \cup found.reinstatable
  BY DEF OnIncumbent
<1> HIDE DEF able, found, best, stack
<1>6. CASE MembersOf(stack) = found.affordable
  BY <1>1, <1>6 DEF stack
<1>7. CASE /\ best \in able /\ stack[1] = best
           /\ MembersOf(stack) = {best} \cup {c \in found.affordable : c.rung # best.rung}
  <2>1. best \in found.affordable \cup found.reinstatable
    BY <1>5, <1>7
  <2>2. found.affordable \subseteq MembersOf(stack)
    BY <1>3, <1>7, <2>1
  <2>3. \A c \in MembersOf(stack) : c \in found.affordable \/ (c \in found.reinstatable /\ c = stack[1])
    BY <1>7, <2>1
  <2> QED
    BY <1>1, <2>2, <2>3 DEF stack
<1> QED
  BY <1>4, <1>6, <1>7

Placed(A, B, C, D, F) ==
  {x \in 1..5 : CASE x = 1 -> A [] x = 2 -> B [] x = 3 -> C [] x = 4 -> D [] x = 5 -> F}
LEMMA FiveWays ==
  ASSUME NEW A \in BOOLEAN, NEW B \in BOOLEAN, NEW C \in BOOLEAN, NEW D \in BOOLEAN, NEW F \in BOOLEAN
  PROVE  LET S == Placed(A, B, C, D, F)
         IN  /\ S \subseteq {1, 2, 3, 4, 5}
             /\ (1 \in S <=> A) /\ (2 \in S <=> B) /\ (3 \in S <=> C) /\ (4 \in S <=> D) /\ (5 \in S <=> F)
<1> DEFINE way(x) == CASE x = 1 -> A [] x = 2 -> B [] x = 3 -> C [] x = 4 -> D [] x = 5 -> F
<1>1. way(1) = A /\ way(2) = B /\ way(3) = C /\ way(4) = D /\ way(5) = F
  OBVIOUS
<1>2. \A x \in 1..5 : x \in {1, 2, 3, 4, 5}
  OBVIOUS
<1>3. 1 \in 1..5 /\ 2 \in 1..5 /\ 3 \in 1..5 /\ 4 \in 1..5 /\ 5 \in 1..5
  OBVIOUS
<1> HIDE DEF way
<1> DEFINE S == {x \in 1..5 : way(x)}
<1>4. /\ S \subseteq {1, 2, 3, 4, 5}
      /\ (1 \in S <=> A) /\ (2 \in S <=> B) /\ (3 \in S <=> C) /\ (4 \in S <=> D) /\ (5 \in S <=> F)
  BY <1>1, <1>2, <1>3
<1> QED
  BY <1>4 DEF Placed, way

LEMMA RungsExplained == FullInv => EveryRungExplained
<1> SUFFICES ASSUME FullInv, SelectedFreely, ~ DuplicateIds, NEW q \in evaluation.asked,
                    NEW c \in Candidates(registry, Asked.snapshot, q.axis)
             PROVE  LET offered == MembersOf(Selection.stack)
                        view == viewFor(Asked)
                        placed == {x \in 1..5 :
                          CASE x = 1 -> c \in offered
                            [] x = 2 -> rejectionOf(c, q, view) # "eligible"
                            [] x = 3 -> rejectionOf(c, q, view) = "eligible"
                                        /\ (aboveCeiling(c, q) \/ belowFloor(c, Selection.effectiveFloor))
                            [] x = 4 -> c \in Selection.found.pruned
                            [] x = 5 -> c \in Selection.found.constrained}
                    IN  Cardinality(placed) = 1 \/ (placed = {1, 4} /\ c = Selection.stack[1])
  BY DEF EveryRungExplained, MembersOf
<1> DEFINE view == viewFor(Asked)
           E == eligibleIn(q, registry, Asked.snapshot, view)
           f == Selection.effectiveFloor
           cost == Asked.cost
           found == Selection.found
           bounded == withinBounds(E, q, f)
           offered == MembersOf(Selection.stack)
           rejected == rejectionOf(c, q, view) # "eligible"
           outside == aboveCeiling(c, q) \/ belowFloor(c, f)
           placed == {x \in 1..5 :
                        CASE x = 1 -> c \in offered
                          [] x = 2 -> rejected
                          [] x = 3 -> rejectionOf(c, q, view) = "eligible" /\ outside
                          [] x = 4 -> c \in found.pruned
                          [] x = 5 -> c \in found.constrained}
<1>1. c \in E <=> ~ rejected
  BY DEF eligibleIn
<1>2. c \in bounded <=> c \in E /\ ~ outside
  BY DEF withinBounds
<1>3. found = evaluateAtFloor(E, q, f, cost)
  BY FreeSelection
<1>4. LevelSplit(E, q, f, cost)
  BY LevelParts
<1>5. /\ found.pruned = dominatedIn(bounded) /\ found.pruned \subseteq bounded
      /\ found.affordable = affordableIn(bounded \ found.pruned, cost)
      /\ found.reinstatable = affordableIn(found.pruned, cost)
      /\ found.constrained = (bounded \ found.pruned) \ found.affordable
  <2> HIDE DEF E, f, cost, found
  <2> QED
    BY <1>3, <1>4 DEF LevelSplit
<1>6. /\ found.affordable \subseteq bounded \ found.pruned
      /\ found.reinstatable \subseteq found.pruned
  <2> HIDE DEF found, bounded, cost
  <2> QED
    BY <1>5 DEF affordableIn
<1>7. /\ found.affordable \subseteq offered
      /\ c \in offered => c \in found.affordable \/ (c \in found.reinstatable /\ c = Selection.stack[1])
  BY Offered
<1>8. /\ placed \subseteq {1, 2, 3, 4, 5}
      /\ 1 \in placed <=> c \in offered
      /\ 2 \in placed <=> rejected
      /\ 3 \in placed <=> ~ rejected /\ outside
      /\ 4 \in placed <=> c \in found.pruned
      /\ 5 \in placed <=> c \in found.constrained
  <2> DEFINE A == c \in offered
             B == rejected
             C == ~ rejected /\ outside
             D == c \in found.pruned
             F == c \in found.constrained
             S == Placed(A, B, C, D, F)
  <2>1. S = placed
    BY DEF Placed
  <2>2. A \in BOOLEAN /\ B \in BOOLEAN /\ C \in BOOLEAN /\ D \in BOOLEAN /\ F \in BOOLEAN
    OBVIOUS
  <2>3. /\ S \subseteq {1, 2, 3, 4, 5}
        /\ (1 \in S <=> A) /\ (2 \in S <=> B) /\ (3 \in S <=> C) /\ (4 \in S <=> D) /\ (5 \in S <=> F)
    <3> HIDE DEF A, B, C, D, F
    <3> QED
      BY <2>2, FiveWays
  <2> HIDE DEF S
  <2>4. /\ S \subseteq {1, 2, 3, 4, 5}
        /\ (1 \in S <=> c \in offered) /\ (2 \in S <=> rejected) /\ (3 \in S <=> ~ rejected /\ outside)
        /\ (4 \in S <=> c \in found.pruned) /\ (5 \in S <=> c \in found.constrained)
    BY <2>3
  <2> HIDE DEF placed, offered, outside, found, rejected
  <2> QED
    BY <2>1, <2>4
<1> HIDE DEF placed, offered, outside, rejected, bounded, found, E
<1>9. CASE placed = {1} \/ placed = {2} \/ placed = {3} \/ placed = {4} \/ placed = {5}
  <2>1. Cardinality(placed) = 1
    BY <1>9, FS_Singleton
  <2> QED
    BY <2>1 DEF placed, offered, rejected, outside, found
<1>10. CASE placed = {1, 4} /\ c = Selection.stack[1]
  BY <1>10 DEF placed, offered, rejected, outside, found
<1>11. CASE rejected
  <2>1. placed = {2}
    BY <1>1, <1>2, <1>5, <1>6, <1>7, <1>8, <1>11
  <2> QED
    BY <1>9, <2>1
<1>12. CASE ~ rejected /\ outside
  <2>1. placed = {3}
    BY <1>1, <1>2, <1>5, <1>6, <1>7, <1>8, <1>12
  <2> QED
    BY <1>9, <2>1
<1>13. CASE ~ rejected /\ ~ outside
  <2>1. c \in bounded
    BY <1>1, <1>2, <1>13
  <2>2. CASE c \in found.pruned
    <3>1. placed = {4} \/ (placed = {1, 4} /\ c = Selection.stack[1])
      BY <1>5, <1>6, <1>7, <1>8, <1>13, <2>2
    <3> QED
      BY <1>9, <1>10, <3>1
  <2>3. CASE c \in found.affordable
    <3>1. placed = {1}
      BY <1>5, <1>6, <1>7, <1>8, <1>13, <2>3
    <3> QED
      BY <1>9, <3>1
  <2>4. CASE c \notin found.pruned /\ c \notin found.affordable
    <3>1. placed = {5}
      BY <1>5, <1>6, <1>7, <1>8, <1>13, <2>1, <2>4
    <3> QED
      BY <1>9, <3>1
  <2> QED
    BY <2>2, <2>3, <2>4
<1> QED
  BY <1>11, <1>12, <1>13

(* A derived floor can be met. *)

LEMMA FloorSource ==
  ASSUME NEW c \in Contexts, NEW s \in AllStacks, floorStacksFor(c, s) # {}
  PROVE  LET source == floorStackFor(c, s)
         IN  source \in AllStacks /\ source.route = s.route /\ 1 \in DOMAIN source.rungs
<1> DEFINE source == floorStackFor(c, s)
<1>1. source \in floorStacksFor(c, s)
  BY DEF floorStackFor
<1> HIDE DEF source
<1>2. source \in AllStacks /\ source.route = s.route
  BY <1>1 DEF floorStacksFor, candidateStackFor, AllStacks
<1>3. source.rungs \in Seq([stableId : STRING, effort : STRING]) \ {<<>>}
  BY <1>2, EvaluationAssumption DEF AllStacks
<1>4. 1 \in DOMAIN source.rungs
  <2>1. Len(source.rungs) \in Nat /\ DOMAIN source.rungs = 1..Len(source.rungs) /\ Len(source.rungs) # 0
    BY <1>3
  <2> QED
    BY <2>1
<1> QED
  BY <1>2, <1>4 DEF source

\* A valid entry with a dispatchable backend has an effort to be run at.
LEMMA SomeEffort ==
  ASSUME NEW e, EntryOK(e), EffortErrors(e) = {}, e.transportBackend \in Backends
  PROVE  selectableEffortsFor(e) # {} /\ \A x \in selectableEffortsFor(e) : \E i \in 1..6 : Efforts6[i] = x
<1>1. \A x \in Efforts : \E i \in 1..6 : Efforts6[i] = x
  <2>1. /\ Efforts6[1] = "high" /\ Efforts6[2] = "low" /\ Efforts6[3] = "max"
        /\ Efforts6[4] = "medium" /\ Efforts6[5] = "none" /\ Efforts6[6] = "xhigh"
    BY DEF Efforts6
  <2>2. 1 \in 1..6 /\ 2 \in 1..6 /\ 3 \in 1..6 /\ 4 \in 1..6 /\ 5 \in 1..6 /\ 6 \in 1..6
    OBVIOUS
  <2> QED
    BY <2>1, <2>2 DEF Efforts
<1>2. supportedEffortsFor(e) \subseteq Efforts
  <2>1. CASE e.supportedEfforts # <<Null>>
    <3>1. Elements(e.supportedEfforts) \subseteq Efforts
      BY <2>1 DEF EffortErrors
    <3> QED
      BY <2>1, <3>1 DEF supportedEffortsFor
  <2>2. CASE e.supportedEfforts = <<Null>>
    <3>1. BACKEND_SUPPORTED_EFFORTS[e.transportBackend] \subseteq Efforts
      BY DEF BACKEND_SUPPORTED_EFFORTS
    <3> QED
      BY <2>2, <3>1 DEF supportedEffortsFor
  <2> QED
    BY <2>1, <2>2
<1>3. selectableEffortsFor(e) # {} /\ selectableEffortsFor(e) \subseteq Efforts
  BY <1>2 DEF selectableEffortsFor, EntryOK, Efforts
<1> QED
  BY <1>1, <1>3

\* Nothing is known to be unavailable where nothing was observed.
LEMMA NothingSeen ==
  ASSUME NEW c \in Contexts, c.observations = {}, c.quotas = {}
  PROVE  /\ \A b \in Backends : viewFor(c).backends[b] = "unknown"
         /\ \A pool : leftIn(viewFor(c), pool) = {}
BY DEF viewFor, buildAvailabilityView, leftIn

OfRung(E, rung, band) == \E d \in E : d.rung = rung /\ d.band = band

\* Its rungs are eligible, those of any effort.
LEMMA LeadEligible ==
  ASSUME NEW c \in Contexts, c.observations = {}, c.quotas = {},
         NEW q, q.excludedRung = {}, q.excludedStableId = {},
         registry \in Seq(Elements(registry)),
         NEW source, validateModelRegistry(registry, {source}) = {}, 1 \in DOMAIN source.rungs,
         q.route = source.route, q.axis = axisForCapabilityRoute(source.route),
         NEW e, e = registryIndex(registry, source.rungs[1].stableId),
         EntryOK(e), e.transportBackend \in Backends, e.roleRestriction = Null,
         NEW x \in selectableEffortsFor(e)
  PROVE  OfRung(eligibleIn(q, registry, c.snapshot, viewFor(c)), <<e.stableId, x>>,
                bandForSnapshotEntry(rowFor(c.snapshot, <<e.stableId, x>>), q.axis, c.snapshot.bandWidth))
<1> DEFINE view == viewFor(c)
           contract == CAPABILITY_ROUTES[q.route]
<1>1. /\ e \in Elements(registry) /\ q.route \in e.routeEligibility /\ e.maturity \in RunnableMaturities
      /\ contract.sandbox \in e.sandboxPermissionSupport
      /\ contract.outputContract \in e.outputContracts
      /\ EffortErrors(e) = {}
  BY ValidRung
<1>2. PICK i \in DOMAIN registry : registry[i] = e
  BY <1>1 DEF Elements
<1>3. PICK n \in 1..6 : Efforts6[n] = x
  BY <1>1, SomeEffort
<1>4. <<i, n>> \in Keys
  BY <1>2, <1>3 DEF Keys
<1> DEFINE d == CandidateOf(<<i, n>>, c.snapshot, q.axis)
<1>5. d \in Candidates(registry, c.snapshot, q.axis)
  BY <1>4, CandidatesAre
<1>6. /\ d.rung = <<e.stableId, x>> /\ d.entry = e /\ d.backend = dispatchBackendFor(e)
      /\ d.row = rowFor(c.snapshot, <<e.stableId, x>>)
      /\ d.band = bandForSnapshotEntry(rowFor(c.snapshot, <<e.stableId, x>>), q.axis, c.snapshot.bandWidth)
  BY <1>2, <1>3 DEF CandidateOf
<1>7. d.backend \in Backends /\ d.backend # Null
  BY <1>6 DEF dispatchBackendFor, Backends, NoBackend, Null
<1> HIDE DEF d, view, contract
<1>8. rejectionOf(d, q, view) = "eligible"
  <2>1. view.backends[d.backend] = "unknown" /\ leftIn(view, d.row.pool) = {}
    BY <1>7, NothingSeen DEF view
  <2>2. /\ ~ (d.rung \in q.excludedRung \/ d.rung[1] \in q.excludedStableId)
        /\ ~ (d.entry.maturity \notin RunnableMaturities)
        /\ ~ (d.entry.roleRestriction # Null)
        /\ ~ (q.route \notin d.entry.routeEligibility)
        /\ ~ (contract.sandbox \notin d.entry.sandboxPermissionSupport)
        /\ ~ (contract.outputContract \notin d.entry.outputContracts)
        /\ ~ (d.backend = Null)
        /\ ~ (d.backend # Null /\ view.backends[d.backend] = "unavailable")
        /\ ~ (d.row.pool # Null /\ leftIn(view, d.row.pool) = {0})
    BY <1>1, <1>6, <1>7, <2>1
  <2> QED
    BY <2>2 DEF rejectionOf, contract
<1>9. d \in eligibleIn(q, registry, c.snapshot, view)
  BY <1>5, <1>8 DEF eligibleIn
<1> QED
  BY <1>6, <1>9 DEF view, OfRung

\* Where a candidate is measured, one that is measured is not dominated.
LEMMA Undominated ==
  ASSUME NEW S, IsFiniteSet(S), \A x \in S : AtMostOne(x.band) /\ AtMostOne(x.row.usd),
         \E x \in S : x.band # {}
  PROVE  \E x \in S \ dominatedIn(S) : x.band # {}
<1> DEFINE T == {x \in S : x.band # {}}
           Above(x, y) == \E b \in x.band, d \in y.band, u \in x.row.usd, v \in y.row.usd :
                            b >= d /\ u <= v /\ (b > d \/ u < v)
           R == {p \in T \X T : Above(p[1], p[2])}
<1>1. T \subseteq S /\ T # {} /\ IsFiniteSet(T)
  <2> HIDE DEF T
  <2>1. T \subseteq S /\ T # {}
    BY DEF T
  <2> QED
    BY <2>1, FiniteSubset
<1>2. \A x, y \in T : <<x, y>> \in R <=> Above(x, y)
  OBVIOUS
<1>3. \A x \in T : AtMostOne(x.band) /\ AtMostOne(x.row.usd)
  BY <1>1
<1>4. \A x \in T : ~ Above(x, x)
  <2> SUFFICES ASSUME NEW x \in T PROVE ~ Above(x, x)
    OBVIOUS
  <2>1. /\ x.band \subseteq Nat /\ \A a, b \in x.band : a = b
        /\ x.row.usd \subseteq Nat /\ \A a, b \in x.row.usd : a = b
    BY <1>3 DEF AtMostOne
  <2> HIDE DEF T
  <2> QED
    BY <2>1
<1>5. \A x, y, z \in T : Above(x, y) /\ Above(y, z) => Above(x, z)
  <2> SUFFICES ASSUME NEW x \in T, NEW y \in T, NEW z \in T, Above(x, y), Above(y, z) PROVE Above(x, z)
    OBVIOUS
  <2>1. PICK b \in x.band, d \in y.band, u \in x.row.usd, v \in y.row.usd :
          b >= d /\ u <= v /\ (b > d \/ u < v)
    OBVIOUS
  <2>2. PICK g \in y.band, h \in z.band, w \in y.row.usd, m \in z.row.usd :
          g >= h /\ w <= m /\ (g > h \/ w < m)
    OBVIOUS
  <2>3. /\ x.band \subseteq Nat /\ x.row.usd \subseteq Nat
        /\ y.band \subseteq Nat /\ y.row.usd \subseteq Nat
        /\ z.band \subseteq Nat /\ z.row.usd \subseteq Nat
        /\ \A a, o \in y.band : a = o
        /\ \A a, o \in y.row.usd : a = o
    BY <1>3 DEF AtMostOne
  <2>4. d = g /\ v = w
    BY <2>1, <2>2, <2>3
  <2>5. b \in Nat /\ d \in Nat /\ u \in Nat /\ v \in Nat /\ h \in Nat /\ m \in Nat
    BY <2>1, <2>2, <2>3
  <2>6. b >= h /\ u <= m /\ (b > h \/ u < m)
    BY <2>1, <2>2, <2>4, <2>5
  <2> QED
    BY <2>1, <2>2, <2>6
<1>6. PICK x \in T : \A y \in T : <<y, x>> \notin R
  <2> HIDE DEF T, R, Above
  <2>1. /\ \A y \in T : <<y, y>> \notin R
        /\ \A u, v, w \in T : <<u, v>> \in R /\ <<v, w>> \in R => <<u, w>> \in R
    BY <1>2, <1>4, <1>5
  <2> QED
    BY <1>1, <2>1, MinimalIn
<1>7. \A y \in S : ~ dominates(y, x)
  <2> SUFFICES ASSUME NEW y \in S, dominates(y, x) PROVE FALSE
    OBVIOUS
  <2>1. Above(y, x) /\ y.band # {}
    BY DEF dominates
  <2>2. y \in T
    BY <2>1
  <2> HIDE DEF Above, R, T
  <2> QED
    BY <1>2, <1>6, <2>1, <2>2
<1> QED
  BY <1>6, <1>7 DEF dominatedIn

\* A floor is met by an eligible candidate measured at it, and a floor of nothing by one
\* that was not measured, if all can be paid for.
LEMMA FloorServes ==
  ASSUME NEW E, IsFiniteSet(E), \A x \in E : AtMostOne(x.band) /\ AtMostOne(x.row.usd),
         NEW cost, \A x \in E : \A p \in x.row.usd : p <= cost,
         NEW q, NEW cap,
         \/ cap = 0 /\ \E x \in E : x.band = {}
         \/ \E x \in withinBounds(E, q, cap) : x.band # {}
  PROVE  Serves(E, q, cap, cost)
<1> DEFINE bounded == withinBounds(E, q, cap)
           able == evaluateAtFloor(E, q, cap, cost).affordable
<1>1. bounded \subseteq E /\ IsFiniteSet(bounded)
  <2>1. bounded \subseteq E
    BY DEF withinBounds
  <2> HIDE DEF bounded
  <2> QED
    BY <2>1, FiniteSubset
<1>2. able = bounded \ dominatedIn(bounded)
  <2>1. able = affordableIn(bounded \ dominatedIn(bounded), cost)
    BY DEF evaluateAtFloor
  <2> HIDE DEF bounded, able
  <2> QED
    BY <1>1, <2>1 DEF affordableIn
<1>3. CASE \E x \in bounded : x.band # {}
  <2> HIDE DEF bounded, able
  <2>1. \E x \in bounded \ dominatedIn(bounded) : x.band # {}
    BY <1>1, <1>3, Undominated
  <2>2. satisfiesFloor(able, cap)
    BY <1>2, <2>1 DEF satisfiesFloor
  <2> QED
    BY <2>2 DEF Serves, able
<1>4. CASE cap = 0 /\ \E x \in E : x.band = {}
  <2>1. PICK x \in E : x.band = {}
    BY <1>4
  <2>2. x \in bounded /\ x \notin dominatedIn(bounded)
    BY <2>1 DEF withinBounds, aboveCeiling, belowFloor, dominatedIn, dominates
  <2> HIDE DEF bounded, able
  <2>3. satisfiesFloor(able, cap)
    BY <1>2, <1>4, <2>2 DEF satisfiesFloor
  <2> QED
    BY <2>3 DEF Serves, able
<1> QED
  BY <1>3, <1>4

\* A floor that can be met is not lowered.
LEMMA NotLowered ==
  ASSUME NEW E, NEW q, NEW cost, q.floor.minimumFloor \in Nat, q.floor.capabilityFloor \in Nat,
         q.floor.minimumFloor <= q.floor.capabilityFloor, Serves(E, q, q.floor.capabilityFloor, cost)
  PROVE  settledFloor(E, q, cost) = q.floor.capabilityFloor
<1> DEFINE least == q.floor.minimumFloor
           most == q.floor.capabilityFloor
           f == settledFloor(E, q, cost)
<1>1. /\ f \in Nat
      /\ \/ f = least /\ \A g \in least..most : ~ Serves(E, q, g, cost)
         \/ f \in least..most /\ \A g \in least..most : Serves(E, q, g, cost) => g <= f
  BY SettledIs
<1>2. most \in least..most
  OBVIOUS
<1>3. f \in least..most /\ most <= f
  BY <1>1, <1>2
<1> HIDE DEF f
<1>4. f = most
  BY <1>3
<1> QED
  BY <1>4 DEF f

LEMMA LeadEntry ==
  ASSUME registry \in Seq(Elements(registry)), NEW source, validateModelRegistry(registry, {source}) = {},
         1 \in DOMAIN source.rungs, NEW e, e = registryIndex(registry, source.rungs[1].stableId)
  PROVE  /\ Known(registry, source.rungs[1].stableId) /\ e \in Elements(registry)
         /\ e.stableId = source.rungs[1].stableId /\ EffortErrors(e) = {}
BY ValidRung

LEMMA FloorsReachable == FullInv => DerivedFloorReachable
<1> SUFFICES ASSUME FullInv, NEW q \in evaluation.asked, NEW s \in evaluation.stack,
                    Asked.observations = {}, Asked.quotas = {}, Asked.override = {},
                    Asked.excludedRung = {}, Asked.excludedStableId = {},
                    Asked.cost > 0,
                    \A r \in DOMAIN Asked.snapshot.rows : \A p \in Asked.snapshot.rows[r].usd : p <= Asked.cost,
                    validateCapabilitySnapshot(Asked.snapshot, registry, Asked.nowMs) = {},
                    validateModelRegistry(registry, {floorStackFor(Asked, s)}) = {},
                    deriveLeadPolicy(floorStackFor(Asked, s), registry) # {},
                    registryIndex(registry, floorStackFor(Asked, s).rungs[1].stableId).roleRestriction = Null
             PROVE  Selection.outcome = "selected" /\ Selection.effectiveFloor = q.floor.capabilityFloor
  BY DEF DerivedFloorReachable
<1>1. PICK c \in Contexts, t \in AllStacks :
        /\ Asked = c /\ floorStacksFor(c, t) # {} /\ evaluation.stack = {t}
        /\ q = selectionRequestFor(registry, c, t)
        /\ Selection = select(q, registry, c.snapshot, c.cost, viewFor(c), c.nowMs)
  BY AskedOf
<1>2. s = t
  BY <1>1
<1> DEFINE source == floorStackFor(c, s)
           id == source.rungs[1].stableId
           e == registryIndex(registry, id)
           view == viewFor(c)
           E == eligibleIn(q, registry, c.snapshot, view)
           cap == q.floor.capabilityFloor
           bands == bandedRungsFor(id, q.axis, c.snapshot, registry)
           bandOf(r) == bandForSnapshotEntry(rowFor(c.snapshot, r), q.axis, c.snapshot.bandWidth)
<1>3. /\ q.route = s.route /\ q.axis = axisForCapabilityRoute(s.route)
      /\ q.floor = deriveFloor(source, q.axis, c.snapshot, registry)
      /\ q.override = {} /\ q.excludedRung = {} /\ q.excludedStableId = {}
      /\ q.floor.minimumFloor \in Nat /\ cap \in Nat
  BY <1>1, <1>2, RequestParts
<1>4. source.route = s.route /\ 1 \in DOMAIN source.rungs
  BY <1>1, <1>2, FloorSource
<1>5. registry \in Seq(Elements(registry)) /\ registry \in Registries
  BY DEF FullInv, ValidInv, EvaluationInv
<1>6. /\ validateModelRegistry(registry, {source}) = {} /\ e.roleRestriction = Null
      /\ deriveLeadPolicy(source, registry) # {}
  BY <1>1
<1>7. Known(registry, id) /\ e \in Elements(registry) /\ e.stableId = id /\ EffortErrors(e) = {}
  <2> HIDE DEF source, e
  <2>1. e = registryIndex(registry, source.rungs[1].stableId)
    BY DEF e
  <2> QED
    BY <1>4, <1>5, <1>6, <2>1, LeadEntry
<1>8. EntryOK(e) /\ e.transportBackend \in Backends
  <2>1. EntryOK(e)
    BY <1>5, <1>7, EvaluationAssumption
  <2>2. dispatchBackendFor(e) # Null
    BY <1>6 DEF deriveLeadPolicy
  <2>3. e.transportBackend \notin NoBackend
    BY <2>2 DEF dispatchBackendFor
  <2> QED
    BY <2>1, <2>3 DEF EntryOK
<1> HIDE DEF source, e
<1>9. \A x \in selectableEffortsFor(e) : \E d \in E : d.band = bandOf(<<id, x>>)
  <2> SUFFICES ASSUME NEW x \in selectableEffortsFor(e) PROVE \E d \in E : d.band = bandOf(<<id, x>>)
    OBVIOUS
  <2>1. c.observations = {} /\ c.quotas = {} /\ e = registryIndex(registry, source.rungs[1].stableId)
    BY <1>1 DEF e
  <2>2. q.route = source.route /\ q.axis = axisForCapabilityRoute(source.route)
    BY <1>3, <1>4
  <2>3. OfRung(eligibleIn(q, registry, c.snapshot, viewFor(c)), <<e.stableId, x>>,
               bandForSnapshotEntry(rowFor(c.snapshot, <<e.stableId, x>>), q.axis, c.snapshot.bandWidth))
    BY <1>3, <1>4, <1>5, <1>6, <1>8, <2>1, <2>2, LeadEligible
  <2> QED
    BY <1>7, <2>3 DEF OfRung
<1>10. PICK x \in selectableEffortsFor(e) : TRUE
  BY <1>7, <1>8, SomeEffort
<1>11. bands = UNION {bandOf(<<id, y>>) : y \in selectableEffortsFor(e)}
  BY <1>7 DEF bandedRungsFor, rungsFor, e
<1>12. Sortable(E, view)
  <2>1. E \subseteq Candidates(registry, c.snapshot, q.axis)
    BY DEF eligibleIn
  <2>2. Sortable(Candidates(registry, c.snapshot, q.axis), view)
    BY <1>5, CandidatesSortable
  <2> HIDE DEF E, view
  <2> QED
    BY <2>1, <2>2, SubsetSortable
<1>13. \A d \in E : \A p \in d.row.usd : p <= c.cost
  <2> SUFFICES ASSUME NEW d \in E, NEW p \in d.row.usd PROVE p <= c.cost
    OBVIOUS
  <2>1. d \in Candidates(registry, c.snapshot, q.axis)
    BY DEF eligibleIn
  <2>2. PICK k \in Keys : d = CandidateOf(k, c.snapshot, q.axis)
    BY <2>1, CandidatesAre
  <2>3. \E r : d.row = rowFor(c.snapshot, r)
    BY <2>2 DEF CandidateOf
  <2>4. PICK r : d.row = rowFor(c.snapshot, r)
    BY <2>3
  <2>5. r \in DOMAIN c.snapshot.rows
    BY <2>4 DEF rowFor, NoRow, Row
  <2> QED
    BY <1>1, <2>4, <2>5 DEF rowFor
<1>14. /\ q.floor.minimumFloor <= cap /\ bands \subseteq Nat
       /\ bands = {} => cap = 0
       /\ bands # {} => cap \in bands
       /\ \A b \in bands, top \in q.floor.bandCeiling : top \in Nat /\ b <= top
  BY <1>3, DerivedFloors
<1>15. Serves(E, q, cap, c.cost)
  <2>1. IsFiniteSet(E) /\ \A d \in E : AtMostOne(d.band) /\ AtMostOne(d.row.usd)
    BY <1>12 DEF Sortable, Comparable
  <2>2. CASE bands = {}
    <3>1. bandOf(<<id, x>>) = {}
      BY <1>10, <1>11, <2>2
    <3>2. \E d \in E : d.band = {}
      BY <1>9, <1>10, <3>1
    <3> HIDE DEF E, cap
    <3> QED
      BY <1>13, <1>14, <2>1, <2>2, <3>2, FloorServes
  <2>3. CASE bands # {}
    <3>1. PICK y \in selectableEffortsFor(e) : cap \in bandOf(<<id, y>>)
      BY <1>11, <1>14, <2>3
    <3>2. PICK d \in E : d.band = bandOf(<<id, y>>)
      BY <1>9
    <3> HIDE DEF bandOf, E, cap, bands
    <3>3. \A b \in d.band : b = cap
      BY <2>1, <3>1, <3>2 DEF AtMostOne
    <3>4. ~ aboveCeiling(d, q) /\ ~ belowFloor(d, cap)
      <4>1. cap \in bands /\ \A top \in q.floor.bandCeiling : top \in Nat /\ cap <= top
        BY <1>14, <2>3
      <4> QED
        BY <1>3, <3>3, <4>1 DEF aboveCeiling, belowFloor
    <3>5. d \in withinBounds(E, q, cap) /\ d.band # {}
      BY <3>1, <3>2, <3>4 DEF withinBounds
    <3> QED
      BY <1>13, <2>1, <3>5, FloorServes
  <2> QED
    BY <2>2, <2>3
<1>16. settledFloor(E, q, c.cost) = cap
  <2> HIDE DEF E
  <2> QED
    BY <1>3, <1>14, <1>15, NotLowered
<1>17. Selection = selectRanked(q, E, c.cost, view)
  <2>1. E # {}
    BY <1>9, <1>10
  <2>2. ~ anyMeasurementExpired(c.snapshot, c.nowMs)
    <3> SUFFICES ASSUME NEW r \in DOMAIN c.snapshot.rows, NEW m \in c.snapshot.rows[r].measurements,
                        m.expiresAt < c.nowMs
                 PROVE  FALSE
      BY DEF anyMeasurementExpired
    <3>1. "MEASUREMENT_EXPIRED" \in MeasurementErrors(m, c.nowMs)
      BY DEF MeasurementErrors
    <3>2. m \in UNION {c.snapshot.rows[o].measurements : o \in DOMAIN c.snapshot.rows}
      OBVIOUS
    <3>3. "MEASUREMENT_EXPIRED" \in validateCapabilitySnapshot(c.snapshot, registry, c.nowMs)
      BY <3>1, <3>2 DEF validateCapabilitySnapshot
    <3> QED
      BY <1>1, <3>3
  <2>3. ~ (c.cost <= 0)
    BY <1>1, EvaluationAssumption DEF ContextOK
  <2> QED
    BY <1>1, <1>3, <2>1, <2>2, <2>3, FreeWhenRanked
<1>18. /\ Selection.effectiveFloor = cap
       /\ Selection.outcome = "selected"
  <2> DEFINE found == evaluateAtFloor(E, q, cap, c.cost)
  <2>1. satisfiesFloor(found.affordable, cap)
    BY <1>15 DEF Serves
  <2> HIDE DEF E, cap, found
  <2> QED
    BY <1>16, <1>17, <2>1, RankedParts DEF found
<1> QED
  BY <1>18

\* A free selection places every rung it was offered exactly once, keeps the incumbent's
\* backend in the lead where no higher band takes it, and meets a derived floor without
\* lowering it (select, enforceLeadCoherence and deriveFloor), for every registry, snapshot,
\* stack and context.
THEOREM SelectionSoundHolds == EvaluationSpec => []SelectionSound
<1>1. FullInv => SelectionSound
  BY RungsExplained, LeadKept, FloorsReachable DEF SelectionSound
<1> QED
  BY <1>1, EvaluationInvariance, PTL
=============================================================================
