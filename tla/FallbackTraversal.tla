-------------------------- MODULE FallbackTraversal --------------------------
(***************************************************************************)
(* runFallbackTraversal of fallback-engine.ts with the label retry budget  *)
(* of retry-budget.ts: one walk down the rungs of a candidate stack under  *)
(* a fixed contract.  The walk awaits each attempt, so starting one and    *)
(* hearing its outcome are two steps, and time passes between them.        *)
(***************************************************************************)
EXTENDS ModelRegistry

CONSTANTS
  Registries,     \* registries the program may be built with
  Requests,       \* traversals that may be asked for
  Answers,        \* dispositions a failed attempt may have
  Window,         \* windowMs of the retry budget
  Cap,            \* maxAttemptsPerWindow
  MaxClock        \* bound: the clock stops here

Policies == {"off", "shadow", "active"}

ASSUME TraversalAssumption ==
  /\ Window \in Nat /\ Cap \in Nat /\ MaxClock \in Nat
  /\ Answers \subseteq Dispositions
  /\ \A r \in Registries : r \in Seq(Elements(r))
  /\ \A q \in Requests :
       /\ q.route \in RouteIds
       /\ q.rungs \in Seq([stableId : STRING, effort : STRING])
       /\ q.maxAttempts \in SUBSET Nat
       /\ q.policy \in Policies

VARIABLES
  registry,      \* the registry in use
  request,       \* the traversal under way
  cursor,        \* candidateIndex + 1: the rung to examine next, or under attempt
  attempts,      \* the attempted steps, oldest first
  charged,       \* LabelState.attempts: when each charge was made
  crossPending,  \* LabelState.priceBandCrossPending
  status,        \* "idle", "walking", "attempting", or TraversalResult.status
  ended,         \* terminalDisposition, and whether an incompatible rung was the end
  now

walkVars == <<registry, request, cursor, attempts, charged, crossPending, status, ended, now>>

\* maxAttempts is empty when the input leaves it undefined.
Request(route, rungs, maxAttempts, policy) ==
  [route |-> route, rungs |-> rungs, maxAttempts |-> maxAttempts, policy |-> policy]
NoRequest == Request(EXPLORE, <<>>, {}, "off")
Attempt(index, effort, crosses, downgrade) ==
  [index |-> index, effort |-> effort, crosses |-> crosses, downgrade |-> downgrade,
   disposition |-> NoDisposition]
End(disposition, incompatible) == [disposition |-> disposition, incompatible |-> incompatible]
Running == End(NoDisposition, FALSE)
InvalidConfiguration == dispositionFor("invalid_configuration")
FinalStatuses == {"selected", "terminal", "stack-exhausted", "budget-exhausted"}

Init ==
  /\ registry \in Registries
  /\ request = NoRequest
  /\ cursor = 0
  /\ attempts = <<>>
  /\ charged = <<>>
  /\ crossPending = FALSE
  /\ status = "idle"
  /\ ended = Running
  /\ now = 0

(* Examining a rung. *)

rungOf(i) == request.rungs[i]
entryOf(i) == registryIndex(registry, rungOf(i).stableId)
Contract == CAPABILITY_ROUTES[request.route]

isSandboxCompatible(sandbox, support) ==
  IF sandbox = "read-only" THEN "read-only" \in support ELSE support # {}

NonRunnable(i) ==
  /\ Known(registry, rungOf(i).stableId)
  /\ entryOf(i).maturity \in {"planned", "disabled"}

\* Slip: only a model out of experiment counts as compatible.
IncompatibleOrExperimental(i) ==
  Known(registry, rungOf(i).stableId) =>
    ~ NonRunnable(i) /\ entryOf(i).maturity # "available"
Incompatible(i) ==
  Known(registry, rungOf(i).stableId) =>
    /\ ~ NonRunnable(i)
    /\ \/ ~ isSandboxCompatible(Contract.sandbox, entryOf(i).sandboxPermissionSupport)
       \/ Contract.outputContract \notin entryOf(i).outputContracts

Runnable(i) == ~ NonRunnable(i) /\ ~ Incompatible(i)
Spent == \E n \in request.maxAttempts : Len(attempts) >= n

\* The price band is compared with the candidate attempted last.
crossedPriceBand(i) ==
  /\ attempts # <<>>
  /\ entryOf(attempts[Len(attempts)].index).priceBand # entryOf(i).priceBand

(* LabelRetryBudget.charge. *)

InWindow == {k \in DOMAIN charged : now < charged[k] + Window}
\* Slip: the cap is tested after the charge was recorded, against the old limit.
ChargeAllowedOneMore == Cardinality(InWindow) <= Cap
ChargeAllowed == Cardinality(InWindow) < Cap
crossPendingAfter(crosses, enforce) == crosses /\ ~ (crossPending /\ enforce)
downgradeAttempted(crosses, enforce) == crosses /\ crossPending /\ enforce

(* Steps. *)

Finish(outcome, disposition, incompatible) ==
  /\ status' = outcome
  /\ ended' = End(disposition, incompatible)

duplicateRung(rungs) == ~ IsInjective(rungs)

\* A stack that repeats a rung is refused before any attempt.
Begin(q) ==
  /\ status = "idle"
  /\ request' = q
  /\ cursor' = 1
  /\ IF duplicateRung(q.rungs)
     THEN Finish("terminal", InvalidConfiguration, TRUE)
     ELSE status' = "walking" /\ UNCHANGED ended
  /\ UNCHANGED <<registry, attempts, charged, crossPending, now>>

At(i) == status = "walking" /\ cursor = i /\ i \in DOMAIN request.rungs

afterSkip(i) == i + 1
SkipNonRunnable ==
  \E i \in {cursor} :
    /\ At(i) /\ NonRunnable(i)
    /\ cursor' = afterSkip(i)
    /\ UNCHANGED <<registry, request, attempts, charged, crossPending, status, ended, now>>

RefuseIncompatible ==
  \E i \in {cursor} :
    /\ At(i) /\ Incompatible(i)
    /\ LET sandboxFits == isSandboxCompatible(Contract.sandbox, entryOf(i).sandboxPermissionSupport)
           class == IF Known(registry, rungOf(i).stableId) /\ ~ sandboxFits
                    THEN "sandbox_incompatible" ELSE "invalid_configuration"
       IN  Finish("terminal", dispositionFor(class), TRUE)
    /\ UNCHANGED <<registry, request, cursor, attempts, charged, crossPending, now>>

StopAtMaxAttempts ==
  \E i \in {cursor} :
    /\ At(i) /\ Runnable(i) /\ Spent
    /\ Finish("budget-exhausted", NoDisposition, FALSE)
    /\ UNCHANGED <<registry, request, cursor, attempts, charged, crossPending, now>>

\* The charge is recorded whether or not it is allowed; only the active policy
\* stops on it.
Charge(i) ==
  LET crosses == crossedPriceBand(i)
      enforce == request.policy = "active"
  IN  IF request.policy = "off" THEN UNCHANGED <<charged, crossPending>>
      ELSE /\ charged' = Append(charged, now)
           /\ crossPending' = crossPendingAfter(crosses, enforce)
Blocked == request.policy = "active" /\ ~ ChargeAllowed

BlockedByRetryBudget ==
  \E i \in {cursor} :
    /\ At(i) /\ Runnable(i) /\ ~ Spent /\ Blocked
    /\ Charge(i)
    /\ Finish("budget-exhausted", NoDisposition, FALSE)
    /\ UNCHANGED <<registry, request, cursor, attempts, now>>

StartAttempt ==
  \E i \in {cursor} :
    /\ At(i) /\ Runnable(i) /\ ~ Spent /\ ~ Blocked
    /\ Charge(i)
    /\ attempts' = Append(attempts, Attempt(i, rungOf(i).effort, crossedPriceBand(i),
                            downgradeAttempted(crossedPriceBand(i), request.policy = "active")))
    /\ status' = "attempting"
    /\ UNCHANGED <<registry, request, cursor, ended, now>>

AttemptSucceeds ==
  /\ status = "attempting"
  /\ Finish("selected", NoDisposition, FALSE)
  /\ UNCHANGED <<registry, request, cursor, attempts, charged, crossPending, now>>

\* Slip: whatever the model could not finish is tried on the next one.
advancesUnlessDenied(disposition) == disposition.class # "policy_denial"
advances(disposition) == isRetryableDisposition(disposition)

\* Only a retryable failure advances the walk.
AttemptFails(disposition) ==
  /\ status = "attempting"
  /\ LET last == attempts[Len(attempts)]
     IN  attempts' = [attempts EXCEPT ![Len(attempts)] = [last EXCEPT !.disposition = disposition]]
  /\ IF advances(disposition)
     THEN status' = "walking" /\ cursor' = cursor + 1 /\ UNCHANGED ended
     ELSE Finish("terminal", disposition, FALSE) /\ UNCHANGED cursor
  /\ UNCHANGED <<registry, request, charged, crossPending, now>>

\* The stack ran out: the last retryable failure is the reason.
Exhaust ==
  /\ status = "walking" /\ cursor > Len(request.rungs)
  /\ Finish("stack-exhausted",
            IF attempts = <<>> THEN NoDisposition ELSE attempts[Len(attempts)].disposition, FALSE)
  /\ UNCHANGED <<registry, request, cursor, attempts, charged, crossPending, now>>

Tick == /\ status \in {"walking", "attempting"} /\ now < MaxClock
        /\ now' = now + 1
        /\ UNCHANGED <<registry, request, cursor, attempts, charged, crossPending, status, ended>>

Steps ==
  \/ SkipNonRunnable \/ RefuseIncompatible \/ StopAtMaxAttempts
  \/ BlockedByRetryBudget \/ StartAttempt \/ Exhaust
Answer == AttemptSucceeds \/ \E d \in Answers : AttemptFails(d)
Next == (\E q \in Requests : Begin(q)) \/ Steps \/ Answer \/ Tick

Spec == Init /\ [][Next]_walkVars

(* Properties. *)

WalkTypeOK ==
  /\ request \in Requests \cup {NoRequest}
  /\ cursor \in Nat /\ now \in Nat
  /\ DOMAIN attempts = 1..Len(attempts)
  /\ \A k \in DOMAIN attempts :
       attempts[k].index \in DOMAIN request.rungs /\ attempts[k].disposition \in Answers \cup {NoDisposition}
  /\ charged \in Seq(Nat)
  /\ crossPending \in BOOLEAN
  /\ status \in {"idle", "walking", "attempting"} \cup FinalStatuses

\* A stack the registry validator accepts is never refused half way: the
\* validator's static rules cover every incompatibility the engine stops on.
ValidatedNeverRefused ==
  ended.incompatible =>
    validateModelRegistry(registry,
      {CandidateStack(request.route, Null, NoClass, request.rungs, TRUE)}) # {}

\* Under the active policy no window of the retry budget's length holds more
\* than Cap attempts, wherever it starts.
CappedInEveryWindow ==
  request.policy = "active" =>
    \A k \in DOMAIN attempts :
      k + Cap \in DOMAIN attempts => charged[k + Cap] >= charged[k] + Window

\* Of two price-band crossings in a row under the active policy exactly one is
\* recorded as downgraded.
SecondCrossingDowngraded ==
  request.policy = "active" =>
    \A k \in DOMAIN attempts :
      (k + 1 \in DOMAIN attempts /\ attempts[k].crosses /\ attempts[k + 1].crosses)
        => attempts[k].downgrade # attempts[k + 1].downgrade

\* A walk that reports an exhausted stack attempted every runnable rung of it.
ExhaustedMeansAllTried ==
  status = "stack-exhausted" =>
    \A i \in DOMAIN request.rungs : Runnable(i) => \E k \in DOMAIN attempts : attempts[k].index = i

\* The walk is an ordered walk: in rung order, no rung twice, the next one only
\* after a retryable failure, none after the end.
lastTried == IF attempts = <<>> THEN 0 ELSE attempts[Len(attempts)].index
walkPhase == CASE status = "attempting" -> "trying"
               [] status \in {"idle", "walking"} -> "open"
               [] status = "selected" -> "selected"
               [] OTHER -> "stopped"
lastFailure == IF attempts = <<>> \/ status \in {"attempting", "selected"} THEN Null
               ELSE attempts[Len(attempts)].disposition.kind
Ordered == INSTANCE OrderedWalk WITH last <- lastTried, walk <- walkPhase, failure <- lastFailure
ImplementsOrderedWalk == Ordered!Spec

\* Wherever a walk is, it has kept to its retry budget, also across price bands, and it
\* reports an exhausted stack only when it has tried all of it.
WalkInvariant ==
  WalkTypeOK /\ CappedInEveryWindow /\ SecondCrossingDowngraded /\ ExhaustedMeansAllTried
==============================================================================
