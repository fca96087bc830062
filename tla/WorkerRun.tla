------------------------------ MODULE WorkerRun ------------------------------
(***************************************************************************)
(* executeRun of engine.ts: one `arc-orchestrator run` from its accepted   *)
(* arguments to its result.  The intent picks one of three paths: the      *)
(* economy pair, the candidate stack (pinned or automatic, walked by       *)
(* FallbackTraversal), or a direct backend with its fallback ladder.  Each *)
(* attempt runs a worker, is recorded in the trace, then in the v2 trace,  *)
(* and only then is it decided what comes next.                            *)
(***************************************************************************)
EXTENDS FallbackTraversal, CliArguments

CONSTANT
  Trials          \* command lines, each with what surrounds it: keys, ambient
                  \* models, retry policy, and how its workers may come out

\* How a worker may come out other than well.
Failures == {"budget", "malformed", "unfound"} \cup OutageReasons

\* The traversal of a stack: a pin is attempted once.
requestOf(s, policy) ==
  Request(s.route, s.rungs, IF s.automaticFallback THEN {} ELSE {1}, policy)

\* The runner has the registry it is shipped with; its retry budget lets an
\* attempt through, and the traversal is ready for what a run may ask of it.
ASSUME RunAssumption ==
  /\ Registries = {MODEL_REGISTRY}
  /\ Cap > 0
  /\ {dispositionFor(c) : c \in RetryableClasses \cup TerminalClasses} \cup {Unclassified} \subseteq Answers
  /\ \A s \in CANDIDATE_STACKS \cup {PUBLIC_ALIAS_CANDIDATE_STACKS[a] : a \in Aliases} :
       \A policy \in Policies : requestOf(s, policy) \in Requests
  /\ \A e \in {t.env : t \in Trials} :
       /\ e.minimax \in BOOLEAN /\ e.kimi \in BOOLEAN
       /\ e.retryPolicy \in Policies
       /\ e.outcomes \subseteq {"completed"} \cup Failures

VARIABLES
  env,        \* the environment of this run
  input,      \* {} or {what parseArguments returned}
  step,       \* "idle", "launch", "running", "record", "emit", "settle", "walk", "done"
  tries,      \* the attempts of this run, oldest first
  log,        \* the trace and v2 trace records written, oldest first
  consumed,   \* the emitter's running totals: calls, cost, whether the cost is taken
  carried,    \* {} or {the fallback a path keeps in mind for its next v2 record}
  result      \* "none", "success", "failure", "rejected"

runVars == <<env, input, step, tries, log, consumed, carried, result>>
emitterVars == <<log, consumed, carried>>
allVars == <<walkVars, runVars>>

Run == CHOOSE p \in input : TRUE
Last == tries[Len(tries)]

(* What an adapter is told, and what it passes on. *)

\* What the command the adapter builds lets the worker write.
grantsOf(backend, mode, slug, sandbox) ==
  IF workerArtifactCapability(mode, slug)
  THEN IF containment(backend) = "path-scoped" THEN "artifact" ELSE "workspace"
  ELSE IF sandbox = "read-only" THEN "nothing" ELSE "workspace"
\* Composer and OpenCode have no effort option; Kimi runs at max unless told.
forwardedEffort(backend, effort) ==
  CASE backend \in {"composer", "opencode"} -> Null
    [] backend = "kimi" /\ effort = Null -> "max"
    [] OTHER -> effort
resolveCodexEffort(backend, mode, effort) ==
  IF backend = "codex" /\ effort = Null /\ mode \in {"implement", "review"} THEN "high" ELSE effort

\* rung: {} off the stacks; traced: {} when the attempt's own effort is recorded.
NewTry(backend, mode, rung, stableId, profile, passed, traced) ==
  LET sandbox == applyWorkerArtifactProfile(profile, mode, Run.slug).sandbox
      effort == resolveCodexEffort(backend, mode, passed)
  IN  [backend |-> backend, mode |-> mode, rung |-> rung, stableId |-> stableId,
       model |-> profile.model, grants |-> grantsOf(backend, mode, Run.slug, sandbox),
       passed |-> passed, forwarded |-> forwardedEffort(backend, effort),
       traced |-> IF traced = {} THEN effort ELSE CHOOSE e \in traced : TRUE,
       fallbackOf |-> Len(tries), outcome |-> "running", outage |-> Null, hint |-> Null]
launch(try) ==
  /\ tries' = Append(tries, try)
  /\ step' = "running"

(* The outcome of an attempt. *)

\* classifyBackendOutage; Composer's failures are read only in economy mode or
\* when it is itself a fallback.
classifiedOutage(try, outcome) ==
  IF outcome \in OutageReasons /\ (try.backend = "composer" => Run.eco \/ try.fallbackOf # 0)
  THEN outcome ELSE Null

\* The backend a failed attempt recommends next, Null when none is left.
hintAfter(backend) ==
  CASE backend = "claude" -> "composer"
    [] backend = "composer" ->
         IF env.minimax THEN "minimax" ELSE IF env.kimi THEN "kimi" ELSE "claude"
    [] backend = "minimax" -> IF env.kimi THEN "kimi" ELSE Null
    [] backend = "kimi" -> Null
    [] OTHER -> "claude"
recordBackendOutage(outage) ==
  IF outage = Null \/ Run.intent # "direct" THEN Null ELSE hintAfter(Last.backend)

WorkerReturns(outcome) ==
  /\ step = "running" /\ outcome \in env.outcomes
  /\ LET outage == classifiedOutage(Last, outcome)
         ended_ == [Last EXCEPT !.outcome = outcome, !.outage = outage, !.hint = recordBackendOutage(outage)]
     IN  tries' = [tries EXCEPT ![Len(tries)] = ended_]
  /\ step' = "record"
  /\ UNCHANGED <<walkVars, env, input, emitterVars, result>>

(* Recording an attempt: onTrace, then emitV2, on each path in its own place. *)

\* The failure of a v2 record: the fallback it tells of, and whether it is final.
Told(from, to, final) == [from |-> from, to |-> to, final |-> final]
Untold == Told(Null, Null, FALSE)

Nothing == [call |-> 0, cost |-> 0, reconciled |-> FALSE]
TraceRecord(k) == [kind |-> "v1", try |-> k, spent |-> Nothing, told |-> Untold]
V2Record(k, spent, told) == [kind |-> "v2", try |-> k, spent |-> spent, told |-> told]

\* One unit of cost is reserved for a dispatch, however many attempts it takes: no
\* attempt measures its own.
Reservation == 1
\* Slip: the cost is taken again by every attempt.
accountedAnew(c) == [call |-> c.call + 1, cost |-> c.cost + Reservation, reconciled |-> TRUE]
accounted(c) ==
  [call |-> c.call + 1, cost |-> IF c.reconciled THEN c.cost ELSE Reservation, reconciled |-> TRUE]

onTrace ==
  /\ log' = Append(log, TraceRecord(Len(tries)))
  /\ step' = "emit"
  /\ UNCHANGED <<walkVars, env, input, tries, consumed, carried, result>>
emitV2(told) ==
  /\ consumed' = accounted(consumed)
  /\ log' = Append(log, V2Record(Len(tries), accounted(consumed), told))
  /\ step' = "settle"
  /\ UNCHANGED <<walkVars, env, input, tries, result>>

Succeeded == Last.outcome = "completed"
\* Off the direct path an outage is taken as demonstrated; a budget stop is hard;
\* of the rest only what was not found is looked for elsewhere.
canonicalFailureDisposition(try) ==
  CASE try.outage # Null -> normalizeBackendOutage(try.outage, TRUE)
    [] try.outage = Null /\ try.outcome = "budget" -> Unclassified
    [] try.outage = Null /\ try.outcome \in {"missing_binary", "unfound"} -> dispositionFor("missing_binary")
    [] OTHER -> dispositionFor("deterministic_validation_error")

finish(outcome) == step' = "done" /\ result' = outcome

(* Starting, and refusing. *)

RunInit ==
  /\ Init
  /\ env \in {t.env : t \in Trials}
  /\ input = {} /\ step = "idle" /\ tries = <<>> /\ result = "none"
  /\ log = <<>> /\ consumed = Nothing /\ carried = {}

stackOf(p) ==
  LET route == IF p.intent = "explicit" THEN CAPABILITY_ROUTE_BY_SUFFIX[p.alias[2]]
               ELSE CASE p.mode = "analyze" -> EXPLORE [] p.mode = "implement" -> IMPLEMENT [] OTHER -> CHECK
  IN  candidateStackForRoute(route, IF p.intent = "explicit" THEN p.alias ELSE NoAlias, p.class, p.phase)
requestFor(s) == requestOf(s, env.retryPolicy)
ecoConflict(p) == p.backend # ECO_ROUTES[p.mode].backend \/ p.alias # ECO_ROUTES[p.mode].route

\* A rejection is traced like an attempt, but runs none.
Reject ==
  /\ consumed' = accounted(consumed)
  /\ log' = log \o <<TraceRecord(0), V2Record(0, accounted(consumed), Told(Null, Null, TRUE))>>
  /\ UNCHANGED carried
  /\ finish("rejected")

Start(a) ==
  /\ step = "idle"
  /\ \E p \in parseArguments(a, env) :
       /\ input' = {p}
       /\ CASE p.intent = "economy" ->
                 IF ecoConflict(p) THEN Reject /\ UNCHANGED <<walkVars, tries>>
                 ELSE step' = "launch" /\ UNCHANGED <<walkVars, tries, emitterVars, result>>
            [] p.intent = "direct" -> step' = "launch" /\ UNCHANGED <<walkVars, tries, emitterVars, result>>
            [] OTHER ->
                 IF stackOf(p) = {} THEN Reject /\ UNCHANGED <<walkVars, tries>>
                 ELSE /\ \E s \in stackOf(p) : Begin(requestFor(s))
                      /\ step' = "walk"
                      /\ UNCHANGED <<tries, emitterVars, result>>
  /\ UNCHANGED env

(* The economy pair. *)

ecoTier(k) == IF k = 0 THEN ECO_ROUTES[Run.mode] ELSE ecoBackupFor(Run.mode)
LaunchEconomy ==
  /\ step = "launch" /\ Run.intent = "economy"
  /\ LET tier == ecoTier(Len(tries))
     IN  launch(NewTry(tier.backend, Run.mode, {}, tier.stableId, tier.profile, Run.effort, {}))
  /\ UNCHANGED <<walkVars, env, input, emitterVars, result>>
canBackup == Len(tries) = 1 /\ isRetryableDisposition(canonicalFailureDisposition(Last))
RecordEconomy == step = "record" /\ Run.intent = "economy" /\ onTrace
\* The primary tells of the backup when there is one to try, the backup of the primary.
EmitEconomy ==
  /\ step = "emit" /\ Run.intent = "economy"
  /\ emitV2(IF Succeeded THEN Untold
            ELSE Told(IF Len(tries) = 1 THEN Null ELSE ecoTier(0).stableId,
                      IF canBackup THEN ecoTier(1).stableId ELSE Null, ~ canBackup))
  /\ UNCHANGED carried
SettleEconomy ==
  /\ step = "settle" /\ Run.intent = "economy"
  /\ CASE Succeeded -> finish("success")
       [] ~ Succeeded /\ canBackup -> step' = "launch" /\ UNCHANGED result
       [] OTHER -> finish("failure")
  /\ UNCHANGED <<walkVars, env, input, tries, emitterVars>>

(* The direct path: Codex may fall back through Claude, Grok, MiniMax and Kimi. *)

\* Slip: with no key configured the ladder turns back to Claude.
ladderBackToClaude(backend) ==
  CASE backend = "codex" -> "claude" [] backend = "claude" -> "composer"
    [] backend = "composer" -> IF env.minimax THEN "minimax" ELSE IF env.kimi THEN "kimi" ELSE "claude"
    [] backend = "minimax" /\ env.kimi -> "kimi"
    [] OTHER -> Null
ladderAfter(backend) ==
  CASE backend = "codex" -> "claude" [] backend = "claude" -> "composer"
    [] backend = "composer" -> IF env.minimax THEN "minimax" ELSE IF env.kimi THEN "kimi" ELSE Null
    [] backend = "minimax" /\ env.kimi -> "kimi"
    [] OTHER -> Null
\* Only an outage of a run that started on Codex advances, and only rung by rung.
mayFallBack == Run.fallback = "claude" /\ Run.backend = "codex" /\ Last.outage # Null
\* Slip: an outage retries whether or not a tier is left.
nextTierAnyOutage == IF mayFallBack THEN {ladderAfter(Last.backend)} ELSE {}
nextTier == IF mayFallBack THEN {ladderAfter(Last.backend)} \ {Null} ELSE {}
directProfile(backend) ==
  CASE tries = <<>> /\ Run.workerModel # Null ->
         Profile(Run.workerModel, resolveProfile(env, backend, Run.mode, NoAlias, Null).sandbox)
    [] tries # <<>> /\ backend = "composer" -> grokProfileFor(env, Run.mode)
    [] OTHER -> resolveProfile(env, backend, Run.mode, NoAlias, Run.slug)
LaunchDirect ==
  /\ step = "launch" /\ Run.intent = "direct"
  /\ \E backend \in IF tries = <<>> THEN {Run.backend} ELSE nextTier \cap Backends :
       launch(NewTry(backend, Run.mode, {}, Null, directProfile(backend), Run.effort, {}))
  /\ UNCHANGED <<walkVars, env, input, emitterVars, result>>
RecordDirect == step = "record" /\ Run.intent = "direct" /\ onTrace
\* A failure tells of the next tier, and the success that ends the run of the last
\* fallback taken.
EmitDirect ==
  /\ step = "emit" /\ Run.intent = "direct"
  /\ LET next == Told(Last.backend, ladderAfter(Last.backend), FALSE)
     IN  CASE Succeeded ->
                  /\ \E told \in IF carried = {} THEN {Untold} ELSE carried : emitV2(told)
                  /\ UNCHANGED carried
           [] ~ Succeeded /\ nextTier # {} -> emitV2(next) /\ carried' = {next}
           [] OTHER -> emitV2(Told(Null, Null, TRUE)) /\ UNCHANGED carried
SettleDirect ==
  /\ step = "settle" /\ Run.intent = "direct"
  /\ CASE Succeeded -> finish("success")
       [] ~ Succeeded /\ nextTier # {} -> step' = "launch" /\ UNCHANGED result
       [] OTHER -> finish("failure")
  /\ UNCHANGED <<walkVars, env, input, tries, emitterVars>>

(* The canonical path. *)

OnStack == input # {} /\ Run.intent \in {"explicit", "automatic"}
Walk == step = "walk" /\ Steps /\ UNCHANGED runVars

pinned == request.maxAttempts # {}
selectedEffort(entry, rung) ==
  IF pinned /\ Run.effort # Null /\ entry.fixedEffort = Null THEN Run.effort ELSE rung.effort
passedEffort(entry, selected) ==
  IF entry.fixedEffort # selected /\ (selected # "none" \/ Run.effort = "none") THEN selected ELSE Null
profileForCanonicalCandidate(entry) == Profile(entry.providerModelId, Contract.sandbox)

\* A rung without a transport is no candidate, and ends the walk.
LaunchCandidate ==
  /\ step = "walk" /\ status = "attempting"
  /\ LET entry == entryOf(cursor)
         selected == selectedEffort(entry, rungOf(cursor))
     IN  IF entry.transportBackend \in NoBackend
         THEN AttemptFails(InvalidConfiguration) /\ UNCHANGED <<tries, step>>
         ELSE /\ launch(NewTry(entry.transportBackend, Contract.mode, {cursor}, entry.stableId,
                               profileForCanonicalCandidate(entry), passedEffort(entry, selected), {selected}))
              /\ UNCHANGED walkVars
  /\ UNCHANGED <<env, input, emitterVars, result>>
RecordCandidate == step = "record" /\ OnStack /\ onTrace
\* Every rung tells of the one before it, tried and failed.
EmitCandidate ==
  /\ step = "emit" /\ OnStack
  /\ LET hard == ~ Succeeded /\ canonicalFailureDisposition(Last).kind \in {"terminal", "terminal-unclassified"}
     IN  \E told \in IF carried = {} THEN {Told(Null, Null, hard)}
                     ELSE {Told(prior.from, Last.stableId, hard) : prior \in carried} : emitV2(told)
  /\ carried' = {Told(Last.stableId, Null, FALSE)}
SettleCandidate ==
  /\ step = "settle" /\ OnStack
  /\ IF Succeeded THEN AttemptSucceeds ELSE AttemptFails(canonicalFailureDisposition(Last))
  /\ step' = "walk"
  /\ UNCHANGED <<env, input, tries, emitterVars, result>>
CanonicalEnd ==
  /\ step = "walk" /\ status \in FinalStatuses
  /\ CASE status = "selected" -> finish("success") /\ UNCHANGED emitterVars
       [] status # "selected" /\ tries # <<>> -> finish("failure") /\ UNCHANGED emitterVars
       [] OTHER -> Reject
  /\ UNCHANGED <<walkVars, env, input, tries>>

OwnSteps ==
  \/ LaunchEconomy \/ RecordEconomy \/ EmitEconomy \/ SettleEconomy
  \/ LaunchDirect \/ RecordDirect \/ EmitDirect \/ SettleDirect
  \/ Walk \/ LaunchCandidate \/ RecordCandidate \/ EmitCandidate \/ SettleCandidate \/ CanonicalEnd
Worker == \E o \in env.outcomes : WorkerReturns(o)
RunNext == (\E t \in Trials : t.env = env /\ Start(t.options)) \/ Worker \/ OwnSteps
RunSpec == RunInit /\ [][RunNext]_allVars
\* The engine runs on by itself, and a worker returns or is stopped at its deadline.
RunFairSpec == RunSpec /\ WF_allVars(OwnSteps) /\ WF_allVars(Worker)

(* Properties. *)

RunTypeOK ==
  /\ step \in {"idle", "launch", "running", "record", "emit", "settle", "walk", "done"}
  /\ result \in {"none", "success", "failure", "rejected"}
  /\ \A k \in DOMAIN tries :
       /\ tries[k].backend \in Backends /\ tries[k].mode \in Modes
       /\ tries[k].outcome \in {"running", "completed"} \cup Failures
       /\ tries[k].outage \in OutageReasons \cup {Null}
       /\ tries[k].hint \in Backends \cup {Null}
       /\ tries[k].traced \in Efforts \cup {Null}
  /\ \A i \in DOMAIN log : log[i].kind \in {"v1", "v2"}
  /\ consumed.call \in Nat

\* Arguments the command line accepts always reach a worker: the engine's own
\* checks (a conflicting economy route, an unresolved stack, a stack with no
\* candidate) never refuse what parseArguments let through.
AcceptedNeverRejected == result # "rejected"

\* A review never gets a command that may write, whichever transport it ends up
\* on, and an artifact is path-scoped wherever the transport can scope it.
GrantsWithinContract ==
  \A k \in DOMAIN tries :
    /\ tries[k].mode = "review" => tries[k].grants = "nothing"
    /\ (tries[k].mode = "analyze" /\ Run.slug # Null /\ containment(tries[k].backend) = "path-scoped")
         => tries[k].grants = "artifact"

\* An attempt names the one it follows, and that one failed in a way its path
\* falls back on.
AttemptsLinked ==
  \A k \in DOMAIN tries :
    /\ tries[k].fallbackOf = k - 1
    /\ k > 1 => IF Run.intent = "direct" THEN tries[k - 1].outage # Null
                ELSE isRetryableDisposition(canonicalFailureDisposition(tries[k - 1]))

\* No run comes back to what failed it: no rung of a stack and, elsewhere, no
\* model of a backend is tried twice.
NothingTriedTwice ==
  \A j, k \in DOMAIN tries :
    (j < k) => IF OnStack THEN tries[j].rung # tries[k].rung
                ELSE <<tries[j].backend, tries[j].model>> # <<tries[k].backend, tries[k].model>>

\* A worker stopped at its duration budget ends the run: no path takes the stop
\* for an outage and spends the budget again elsewhere.
BudgetStopEndsRun == \A k \in DOMAIN tries : tries[k].outcome = "budget" => k = Len(tries)

\* The fallback a failed attempt recommends is the one the run takes next, if it
\* goes on, and only a direct run recommends one.
HintIsNextTier ==
  \A k \in DOMAIN tries :
    /\ tries[k].hint # Null => Run.intent = "direct"
    /\ (Run.intent = "direct" /\ k < Len(tries)) => tries[k].hint = tries[k + 1].backend

\* What the v2 record of attempt k says: the calls and the cost so far, where the run
\* went from there or that it ended there, and what it fell back from.
Name(k) == IF Run.intent = "direct" THEN tries[k].backend ELSE tries[k].stableId
TellsAttempt(e, k) ==
  LET failed == tries[k].outcome # "completed"
  IN  /\ e.spent.call = k /\ e.spent.cost = Reservation
      /\ e.told.final => k = Len(tries)
      /\ (~ OnStack /\ failed /\ k < Len(tries)) => e.told.to = Name(k + 1)
      /\ (~ OnStack /\ failed /\ k = Len(tries) /\ result # "none") => e.told.final /\ e.told.to = Null
      /\ (k > 1 /\ IF Run.intent = "economy" THEN failed ELSE OnStack \/ ~ failed) => e.told.from = Name(k - 1)
      /\ (k > 1 /\ (OnStack \/ (Run.intent = "direct" /\ ~ failed))) => e.told.to = Name(k)

\* Wherever a run is cut off, its traces tell it in order and as it went: each attempt
\* has one record and then one v2 record, both before the next attempt begins; the v2
\* record counts the calls so far and charges the run's cost once, and the fallback it
\* tells of, if any, is the one the run takes.
TracesTellRun ==
  result # "rejected" =>
    /\ \A i \in DOMAIN log : log[i].kind = (IF i % 2 = 1 THEN "v1" ELSE "v2") /\ log[i].try = (i + 1) \div 2
    /\ Len(tries) > 0 => Len(log) >= 2 * (Len(tries) - 1) /\ Len(log) <= 2 * Len(tries)
    /\ result # "none" => Len(log) = 2 * Len(tries)
    /\ \A k \in DOMAIN tries : 2 * k <= Len(log) => TellsAttempt(log[2 * k], k)

\* On a stack or an economy pair every attempt runs the registered model of its
\* rung, whatever the ambient model variables say, and a pin is attempted once.
PinnedModelsHold ==
  (input # {} /\ Run.intent # "direct") =>
    /\ \A k \in DOMAIN tries : tries[k].model = ModelOf(tries[k].stableId)
    /\ Run.intent = "explicit" => Len(tries) <= 1

\* On a stack an effort reaches only a model that supports it.
EffortSupported ==
  OnStack =>
    \A k \in DOMAIN tries :
      tries[k].passed \in {Null} \cup supportedEffortsFor(registryIndex(MODEL_REGISTRY, tries[k].stableId))

\* Every accepted run comes to a result.
RunEnds == (input # {}) ~> (result # "none")

\* However a run goes on, each attempt follows from the failure of the one before it,
\* to where that failure pointed, and never back.
RunInvariant ==
  /\ RunTypeOK /\ AttemptsLinked /\ NothingTriedTwice
  /\ BudgetStopEndsRun /\ HintIsNextTier

\* What a worker is given is what its contract allows: what it may write, on every
\* transport; its registered model, on a stack or an economy pair; its effort, on a stack.
DispatchedAsContracted == GrantsWithinContract /\ PinnedModelsHold /\ EffortSupported
==============================================================================
