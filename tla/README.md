# arc-orchestrator in TLA+

Specifications of arc-orchestrator. On the parent's side: what the scheduler keeps about
running workers, how it spends a root's budget, how a task moves through its life, and
what stays true whatever order calls, completions and cancellations come in. On the
runner's side: what a command line asks for, which stack of models that selects, how the
stack is walked, what each worker is given, how the processes are stopped, and what is
left in the files several runners share. Paths are relative to the repository; `LIB` is
`plugins/arc-orchestrator/lib`, `RC` is `packages/routing-core/src`.

## The system

| Component | Source | State | Operations | Hard part |
| --- | --- | --- | --- | --- |
| Delegation scheduler | `LIB/delegation-scheduler.ts`, `LIB/delegation-cancellation.ts` | a node per task, children sets, running counters (global, per root), pending recommendations, cancelled roots | queue, start, admit, recommend, complete, cancel one, cancel a root | counters, ledgers and lock tables must stay in step through refusals and cascaded cancellation |
| Root budget ledger | `LIB/delegation-budget.ts`, `RC/budget.ts` | per root: consumed, remaining, reservations, creation time | reserve, reconcile, refresh wall time | conservation with unmeasured and overshooting actuals; concurrent reservations |
| Checkout write ownership | `LIB/delegation-worktree-sandbox.ts` | holder per checkout, checkout per task | resolve a context, acquire, release | one writer per checkout; two tables that mirror each other |
| Task machine | `LIB/task-machine.ts` | one immutable `TaskState` per task | `step(state, event, policy, ledger)` | bounded escalation and replanning; independence of verification |
| Task orchestrator | `LIB/task-orchestrator.ts`, `LIB/task-events.ts` | sessions, pending run, event log | start a task, apply an event, cancel a root, replay | awaits inside an event's effects; rollback of a refused admission; the log must replay to the state |
| Model registry, compiled policy | `LIB/model-registry.ts`, `LIB/routing-identity.ts`, `plugins/orchestrator-core/routing-policy.ts` | none (data) | look up, validate | the validator must cover what the walk refuses |
| Selection policy | `RC/selection.ts`, `RC/evaluate-policy.ts`, `RC/capability-floor.ts`, `RC/workload-profile.ts` | none (pure) | select a stack, predict a traversal | the prediction must agree with the walk; a lowered floor with a requested one |
| Availability | `RC/availability.ts`, `LIB/availability-observations.ts` | observations with expiry | record, build a view | stale observations |
| Fallback traversal | `LIB/fallback-engine.ts`, `LIB/retry-budget.ts`, `LIB/failure-classification.ts` | position in the stack, attempts, sliding window of retries | try a candidate, classify, advance or stop | one attempt per candidate, retry budget, price-band guard |
| Command line, profiles | `LIB/cli.ts`, `LIB/routes.ts`, `plugins/orchestrator-core/orchestrator-identities.ts` | none | parse, resolve intent and profile | what is accepted here must be servable later |
| Worker run | `LIB/engine.ts`, `LIB/outage.ts` | attempts, traces | run a worker, classify, trace, fall back | three retry paths with their own conditions |
| Worker process | `LIB/spawn-adapter.ts` | registry of live workers, handlers | spawn, collect, deadline, forward a signal | a signal served while the run goes on; deaf workers; helpers |
| Trace store | `LIB/cli.ts`, `LIB/task-events.ts` | JSONL files shared by runners | append, retain | no lock, one temporary name, kills, short writes |
| Live activity | `LIB/live-activity.ts` | bounded buffers | emit, subscribe, drop | caps |
| Delegation routing | `LIB/delegation-routing.ts` | none (pure) | resolve a request to a contract | |
| Rollout gates, session policy | `LIB/rollout-gates.ts`, `LIB/session-token-policy.ts` | none (pure) | decide | thresholds |
| Shadow evaluation | `LIB/routing-shadow.ts`, `LIB/annotation-shadow.ts` | none | compare offline | |
| Generators and prompts | `plugins/orchestrator-core`, `plugins/*-orchestrator`, `scripts` | files | generate | no runtime state |

The orchestrator sits above the scheduler and calls it; the scheduler owns the
ledgers, the cancellation registry and the ownership tables and calls them inside
its own methods. Scheduler methods contain no `await`: each runs to completion.
Interleaving exists between calls: a caller cancels a root while several
`executeDispatch` promises are pending, and their results arrive in any order.

A dispatched worker is a runner, a process of its own. `run` parses a command line, and
its intent picks an economy pair, a candidate stack or a direct backend; a stack is
walked by the fallback traversal under a retry budget. Each attempt spawns one provider
CLI, awaits it under an optional deadline, and writes two trace records. A signal to the
runner is forwarded to the provider CLI's process tree. Several runners append to the same
trace files without a lock.

Correctness, per component: the scheduler's counters, reservations and ownership
describe exactly what is running, and a cancelled root stays quiet; a ledger never
mints or loses budget; a task escalates and replans only within its policy and its
state is what its log replays to; a walk tries each rung at most once, in order, and
refuses nothing a validator let through; the selection explains every rung, and the
evaluation predicts the walk; a run comes back to nothing that failed it and gives a
worker nothing beyond its contract; one provider CLI at a time, each reachable by a
signal; a reader of a shared file finds records in order and bounded.

## Modules

| Module | Models |
| --- | --- |
| `DelegationLimits` | the structural limits, shared by the scheduler and the task machine |
| `DelegationBudget` | the ledger, as operators from ledgers to ledgers |
| `DelegationScheduler` | the scheduler with its ledgers, cancellation registry and ownership tables; one action per public method |
| `DispatchPool` | abstract: the pool of running dispatches the scheduler promises |
| `TaskMachine` | the reducer `step`, as operators on task states |
| `TaskLifecycle` | one task under the reducer: its events, its dispatches, its run records |
| `TaskOrchestrator` | the driver: `DelegationScheduler` and `TaskMachine` put together, a session per task, the event log |
| `RoutingVocabulary` | backends, efforts, routes, contracts, failure classes and dispositions |
| `ModelRegistry` | shape of entries and stacks, `validateModelRegistry` and its lookups |
| `ShippedPolicy` | the registry, stacks, aliases and economy routes that are shipped |
| `Availability` | observations and the view built from them |
| `WorkloadProfile` | evidence to a workload class |
| `CapabilitySelection` | floors, rejection, pruning, ordering, `select` |
| `FallbackTraversal` | `runFallbackTraversal` with the retry budget, one action per way of treating a rung |
| `OrderedWalk` | abstract: what a bounded fallback promises |
| `RoutingEvaluation` | `evaluateRouting`, then the walk of the stack it found: composes the five before |
| `CliArguments` | `parseArguments` of `run`, intent, identities, profiles |
| `WorkerRun` | `executeRun`: composes `CliArguments`, `ShippedPolicy` and `FallbackTraversal` |
| `WorkerProcess` | the runner's processes, the deadline and the signals |
| `TraceStore` | a bounded JSONL file under several runners |
| `*_proofs` | theorems about the module of that name |
| `MC*` | instances for TLC |

### The scheduler

A node of the code's `nodes` map is `nodes[t]`, absent until queued and after a
refused admission. `children`, `globalActive`, `activeByRoot`, `ledgers` and
`cancelled` are the maps of the same purpose; `writeByCheckout` and `writeByTask` are
the two tables of the ownership registry. Each public method is one action:
`admitDispatch` is queue and start in one step when both succeed and
`admitDispatchDenied` when the start is refused (the node is removed, also when it
held a completed dispatch of the same task). Calls that are refused and change
nothing are not actions. `finishDispatch` contains the cascade: when it leaves the
root no wall time, the rest of the root is cancelled in the same step, as in the
code. `cancelRoot` contains its tail, which treats the root's own node even when
that node now belongs to another root. `Leave` gives the result of the code's loop
over the nodes to cancel; the iterations touch disjoint nodes and reservations, and
only the clamped counters they share.

Wall time is derived (`WallRemaining`): the code recomputes it before every read.
Token and cost behave alike and are elements of `Metered`; a configuration takes one
of them. Slots are `call` and `concurrency`. A run ID, the resolved routing and the
write scope are not modelled: no scheduler decision reads them after admission. The
choice of a parent, a checkout and a permission set stands for what callers ask.

Assumptions. `BudgetAssumption`: a fresh ledger can grant any reservation, and a
dispatch is one call and one slot (`RC/budget.ts:19-34`); so a refused first start
cannot leave an empty ledger behind. `RootsStayRoots` (an assumption of the theorems,
not of the model): a task is always dispatched as a root or always as a child. The
orchestrator keeps it, since a session's `parentTaskKey` is fixed; the scheduler's
API does not enforce it (see the list at the end of the checks).

### The abstract pool

`DispatchPool` has no counter, queue, ledger or table: running tasks, the root each
works for, the checkout each writes, and the dead roots. A task joins when there is
room in the pool and in its team and nobody writes its checkout; it quits; a root
dies and its whole team quits in the same step. The mapping reads `worksFor` off the
active nodes, `writes` off `writeByTask` and `dead` off the registry.

### The task machine

`TaskMachine` has, for each kind of event, the condition under which `step` accepts
it (`CanPlan`, `CanVerify`, ...) and the state it then returns (`Planned`,
`Verified`, ...). `EscalationAllowed` is `escalationGuardFailure` finding nothing; the
caps of a parent's or a user's authorization are one number, 4 when the authorization
caps nothing. `AnnotationOf` is what `step` returns as `annotate` effects. Acceptance
criteria are a Boolean, a child list is its length, verification evidence is its mode
and the rung named in it; evidence beyond its size bounds is refused by the code and
left out here. A stack excludes the rung under review by the rung itself; the code
excludes it by the rung's identifier, which is the same thing.

`TaskLifecycle` puts one task under that reducer. Its parent sends events in any order,
with any content. `applyEvent` awaits `executeDispatch`, and while it does only a
cancellation of the root reaches the task: so every action but `cancel` and the two
ends of a dispatch needs `running = Idle`. What the other tasks of the root leave of its
cost is chosen anew at each event that reads it. A dispatch is done by some rung of its
stack, since the fallback traversal may have gone on. `runs` is the list of run records,
with the verdict a run was given later and the rung that gave it. A dispatch refused by
the scheduler is rolled back by the orchestrator and is no step of this module. The
parent is honest in one thing: evidence of a dispatched check names the rung that did
the check.

### The task orchestrator

`TaskOrchestrator` EXTENDS both: the variables are the scheduler's and `sessions`,
`telling`, `log` and `execution`. A session is the code's `TaskSession` with the place `at` its
`applyEvent` has come to: `idle`, `selecting` (a selection is next in the same
stretch of code), `annotating` (the annotation of a superseded run is awaited) or
`executing` (`executeDispatch` is awaited). `execution` remembers how a session's last
executor came back (`NoDisposition` while none has). Code between two awaits runs to
completion: while some session is `selecting`, nothing else is enabled (`Settled`).
The parent awaits each `applyEvent`, so its events go to idle sessions
(`applyEvent`); cancellations of one task (`applyCancelled`) or of the root
(`cancelRootAndTell`) come at any await.

A selection is one action, `dispatchSelected`, from the choice of a stack to the call
of `executeDispatch`: the scheduler admits, the event is logged, the session moves.
`dispatchDenied` is its rollback when the scheduler refuses the start, `notSelected` a
selection that comes to nothing; in both the state is the one before and nothing is
logged. Both can be asked for again later from `idle`. `returned` and
`returnedCancelled` are the two ways on from `executeDispatch`; whether the scheduler
accepts the end (`SchedulerAccepts`) is not looked at by the code, so nothing happens
when it does not. `cancelRoot` of the driver cancels in the scheduler at once; it awaits
the `cancelled` event of each task in turn, so the first is told in the same action and
the others wait in `telling`.

The log is kept as what `replayTaskEvents` makes of it, per task: the state, the
sequence number expected next, and whether all went well so far. Replaying a record
needs the expected number and a reducer that accepts it. Run IDs are the numbers of a
session's dispatches, 0 for none. A report without usage (`NoReport`) is replaced by
the default actuals, one call at no cost (`LIB/task-orchestrator.ts:326-333`).

`Parent`, `RootIdentity` and `Depth` are constants: they are fixed when a task starts,
and a replay after a crash starts from the same seed. Not modelled: an executor that
throws, the retention limit of the log file, malformed lines, a second `startTask` of
the same key, the texts of denials.

### Registry, selection and walk

An entry of the registry has the fields the selection, the validator and the walk read;
display names, evidence texts and prices in money are left out (shipped price bands are all
null). `ShippedPolicy` is data: the compiled stacks are there as they come out, so nothing
is resolved twice. `validateModelRegistry` returns the set of the rules that are broken.

A snapshot's rows carry scores in tenths, low and high ones, none of them on the edge of a
band. `select` is written from its definition by sets: what is
eligible, within bounds, pruned, too dear, brought back. A band, a cost or a quota
remainder that the code has as null is the empty set.

A walk has two steps per attempt, `StartAttempt` and its end, since the engine awaits the
worker between them and the retry budget's window slides meanwhile. What a rung does to the
cursor is one action each: `SkipNonRunnable`, `RefuseIncompatible`, `StopAtMaxAttempts`,
`BlockedByRetryBudget`. `OrderedWalk` has no stack, no budget and no clock.
`RoutingEvaluation` first evaluates a context and then walks the stack of the same
context under the same registry, and so can compare what was predicted with what happened.

### The worker run

`parseArguments` returns a set: empty when the command line is refused. `Start` takes one
that is not. `LaunchEconomy`, `LaunchDirect` and `LaunchCandidate` each make an attempt as
its path does: backend, model, effort, sandbox and what the adapter's command lets the
worker write (`grantsOf`). `WorkerReturns` is the end of the awaited worker, with one of the
outcomes of the environment.

Each path then writes its two records in its own place: `RecordEconomy` and `EmitEconomy`,
`RecordDirect` and `EmitDirect`, `RecordCandidate` and `EmitCandidate`. What the three have
in common is the emitter they are given: `consumed` is its running total, to which
`accounted` adds a call per record and, once for the whole dispatch, the reserved cost (no
attempt measures its own). `carried` is what a path keeps in mind for a later record: the
last transition of the ladder, the candidate before this one on a stack. A v2 record is the
total at its time and what its `failure` tells: fallen back from what, going on to what,
final or not. It is written before the step that goes there. On a stack the steps of
`FallbackTraversal` run as they are, with the clock standing still: a whole run falls in
one window of the retry budget, the worst case for its cap.

### Processes and files

`WorkerProcess` has the two processes an attempt may have: the provider CLI and a helper it
starts. They are environment: they end when they like, may be deaf to anything but a kill,
and a helper may have inherited its worker's output. A sweep (`stopLiveWorkers`) takes its
snapshot when the signal comes and polls until its grace is over; everything else goes on
meanwhile. Signals `process.once` no longer listens for take their default action.

`TraceStore` splits a write where another process can come in between: open, write, read
back, open the temporary, write it, rename. Inodes make it visible that a runner writes
into a file already renamed. A line is the records whose text it holds and whether its
newline is there; a write over a longer text leaves what was longer.

## Checks

Fairness. Nothing in the code makes an executor come back: a deadline is optional, and a
dispatch that ends unclassified is never reported to the scheduler
(`LIB/task-orchestrator.ts:344-356`). So an end is assumed only of the tasks in the constant
`Returning`: in the scheduler those whose end is reported, in the driver those whose executor
comes back, with any disposition (`DispatchEnds` excepts those the driver leaves open). In
`sched_budget` and `orch_core` that is the child alone; the root's worker may hang for ever,
and the properties ask nothing that would need it. Nothing forces the clock to advance or
the caller to start what it queued. Besides, `OrchestratorFairness` assumes that code that
runs goes on, that the annotation is awaited to its end and that `cancelRoot` tells the next
task; nothing forces the parent to send an event. `worker_runs` assumes that the engine's own
steps go on and that a worker returns, as one with a deadline does.
`worker_process` assumes that the event loop goes on, that polls are made, and that a
process that hears a signal ends; nothing makes a deaf process end, a worker finish, a
deadline fire or a signal come. Deadlock checking is off: when everything is finished or
cancelled and the bounds are reached, the system stops.

| Run | Instance | Shows |
| --- | --- | --- |
| `sched_slots` | two roots; three tasks want the two places of one of them, and one also wants a place at depth 2 of 1; one checkout, limits 2/2, no clock | `SlotAccounting`, `ReservationsMatchActive`, `SerializedWriters`, `CancelledRootIsQuiet`, `TreeConsistent`, `ImplementsDispatchPool` |
| `sched_budget` | a root and its child, one metered dimension, actuals measured, unmeasured and above the reservation, clock past the limit (cascade), the child's worker comes back | `LedgersSound`, `CancelledRootIsQuiet`, `ConsumptionNeverResets`, `StartsNeverOvercommit`, `ExpiredRootIsCancelled` |
| `task_bounds` | 13 policies, depths 0 and 2, two rungs, up to 4 dispatches | `LifeInvariant`, `WithinPolicy`, `AcceptedWasVerified`, `ChecksSpareLead`, `OutcomesRecorded`, `FollowsTransitionTable` (policies that verify) |
| `orch_core` | a root task and its child, two rungs, dispatched checks, no replan, 3 calls at full cost, dispositions null, `retryable` and `terminal-unclassified`, wall time 2 and clock 1 (cascade), the child's executor comes back | `SessionInvariant`, `LogReplays`, `EscalationLinked`, `DispatchesCharged`, `CancellationsTold`, `CancelledWorkNotCompleted`, `AwaitsSettle` |
| `walk_stacks` | seven models, one of them disabled, one without a transport, one behind an authorization, and a registry with an unsound eighth; eleven stacks and three pins; some two hundred contexts; retry budget 2 per 2 ticks, clock to 3 | `WalkInvariant`, `ValidatedNeverRefused`, `SelectionSound`, `DegradedAsIfRequested`, `PredictionMatchesWalk`, `ImplementsOrderedWalk` |
| `worker_runs` | the shipped registry, stacks and profiles; some hundreds of command lines of every intent; workers that complete, are stopped at their budget, answer nonsense, or fail in one further way; every set of keys | `RunInvariant`, `AcceptedNeverRejected`, `DispatchedAsContracted`, `TracesTellRun`, `RunEnds` |
| `worker_process` | two attempts, two signals, a grace of two polls, fair | `ProcessInvariant`, `SweptTreesAreGone`, `StopsSettle` |
| `trace_store` | three runners, limit 2, six records, one kill, one short write | `StoreInvariant`, `NewestKept` |
| `orch_leak` | the same two, verified by their parent, one rung, all five dispositions, no clock, not fair | violates `ActiveIsAwaited` |
| `orch_expiry` | as `orch_leak`, executors that end well, badly or retryably, clock 1, not fair | violates `CancellationPropagated` |
| `worker_orphan` | as `worker_process`, one signal, not fair | violates `ShutdownLeavesNoWorker` |
| `trace_lost` | as `trace_store`, no kill and no short write | violates `MostRecentRetained` |

Some properties are the conjunction of named parts, each of which says one thing and is
stated where it is defined. `TreeConsistent`: lineage, fan-out, recommendations.
`LedgersSound`: types, conservation, slots never overdrawn. `LifeInvariant`: types, work
bounded by the policy, the two recovery edges distinct. `SessionInvariant`: types, every
running dispatch awaited or left open by the driver. `AwaitsSettle`: a cancellation reaches every task of its
root, a dispatch ends. `WalkInvariant`: types, the cap in every window, a second crossing
downgraded, exhausted means all tried. `SelectionSound`: every rung explained once, the
lead keeps its backend, a derived floor is reachable. `RunInvariant`: types, attempts
linked, nothing tried twice, a budget stop ends the run, a hint is the next tier.
`DispatchedAsContracted`: grants, pinned models, efforts. `ProcessInvariant`: types, one
worker at a time, live workers reachable. `StopsSettle`: a signal ends the runner, a
deadline settles the attempt. `StoreInvariant`: types, read in order, read bounded.

Bounds. Five tasks under two roots let a cancellation meet a queued, a running and a
finished descendant at once and two writers meet at one checkout. In `sched_slots` the
global limit refuses a second root while each root has room, and refuses a third task of
one tree where that root's limit would too. A third child is refused for the fan-out and a
grandchild for the depth, whose limit is 1 there; without either guard `TreeConsistent`
fails. Deeper chains, up to the real limit 2 and beyond, are left to the theorems. In
`sched_budget` two tasks cannot exceed the ledger's `concurrency` of 2; what refuses there
is calls, the metered dimension and the wall time, and a completion that finds it used up
cancels the other task. Limits of
`BUDGET_LIMITS_V1` are scaled (ceiling 1 or 2, root limit 2 to 4) so that a root runs
out in a few dispatches; the ratio that matters, ceilings below limits and several
reservations per root, is kept.

Four dispatches of a task are the first one, two escalations and a replan, or work and
check twice: every pair of recoveries meets. Depth 0 may escalate and depth 2 may not
decompose; depth 1 differs from 2 in decomposing alone. Costs are in half units: a
dispatch costs 5, and 35 percent of the remaining cost pays for it at 15 and not at 14,
so both sides of the threshold are there. The policies have both escalation limits that
can differ (one, and two so that the floor passes a cap), each way of verifying, with
and without code review, and a policy whose ceiling binds before its counter. A task has
no liveness property: nothing obliges its parent to send another event.

A root and one child are enough for the driver: sessions share nothing but the
scheduler, and two tasks of one root meet in its ledger, in its slots and in the list
a cancellation tells. Three calls let one of them dispatch twice, so work, escalation and
retry happen with the sibling at any of its awaits. The scheduler's refusals come from the
calls and from the cost, 5 of 20 each. `DispatchesCharged` is about executors that report
one call, as the default does. The wall time, 2 with a reservation of 1 per dispatch, is used
up by a completion at time 1 while the other dispatch runs: the cascade is in the passing
runs, and what it leaves untold is the exception `CancellationsTold` states and the finding
of `orch_expiry`. The run has null,
`retryable` and one of the two dispositions the driver leaves open. `terminal` completes the
dispatch as null does and rejects the task as an open one does; `orch_leak` has all five, and
so has the theorem `SessionInvariantHolds`. Parents that check for themselves, code reviews
and replans are in `task_bounds`.

The registry of `walk_stacks` has one model for each way an entry can differ in what the
walk, the validator or the selection asks of it, and the stacks put each before, between and
after runnable ones; one stack repeats a rung, one names a model that is unknown. A third
attempt within one window is the first the cap refuses, and a fourth tick lets the window
slide past the first. Contexts vary one thing at a time but the snapshots, which have every
mixture of unmeasured, low and high scores and of free, cheap and dear rungs. In
`worker_runs` nothing is scaled: the data are the shipped ones, and the longest ladder has
five backends. Options that never meet in one condition of the code are not varied together.

Two attempts are the worker that is stopped and the one that comes after it; a third meets
nothing new, since no two are open together. Two polls are one that finds a survivor and one
that ends the grace. Three runners on one file are one that replaces it, one that writes into
what is replaced, and one that takes the temporary of the first. Limit 2 has a record to
drop and one to keep behind it.

### What the violated statements mean

* `ActiveIsAwaited` in `orch_leak` (decision 0003 line 31). The driver completes a
  dispatch only for null, `terminal` and `retryable` (`LIB/task-orchestrator.ts:344-356`).
  After `terminal-unclassified` or `terminal-completed-low-quality` the task is rejected
  and its slot, reservation and write ownership stay taken until the root is cancelled.
* `CancellationPropagated` in `orch_expiry` (ADR 0011 lines 187 and 332, decision 0003 line
  43). A completion that uses up the root's wall time cancels the root's other dispatches
  inside the scheduler; the driver does not look at what `completeDispatch` returns
  (`LIB/task-orchestrator.ts:350`). When such a dispatch's executor comes back, its task goes
  on to verification and may be accepted.
* `ShutdownLeavesNoWorker` in `worker_orphan` (comment at `LIB/spawn-adapter.ts:365-371`).
  The sweep looks at the workers alive when the signal came. The worker it stops ends its
  attempt as a failure, the run may fall back and spawn the next, and the runner exits
  over it.
* `MostRecentRetained` in `trace_lost` (README lines 573 and 616-620). A record appended
  between another runner's read and its rename is dropped although the limit has room.

Noticed on the way, with no run of their own.

Scheduler and driver. A completion compares elapsed time plus all outstanding reservations
with the wall-time limit (`LIB/delegation-scheduler.ts:620`), so the time running workers
have spent counts twice and a root may be cancelled at half its time (decision 0003 line
18). A dispatch without reported usage is charged no cost
(`LIB/task-orchestrator.ts:326`; decision 0003 line 32). A task admitted as a root and later
as a child keeps its reservation when its old root is cancelled (decision 0003 line 44; the
driver cannot do this). Queued dispatches of an expired root stay queued when nothing of it
runs (line 43; the driver queues nothing). A completed task that is admitted again and
refused loses its node while a child may still run. A child keeps the permissions it was
queued with when its parent is dispatched again with fewer.

Task machine. `selectedRung` is the lead of the stack the work was dispatched with. When a
fallback rung did the work, verification excludes the lead, may select that very rung, and
accepts its verdict (`LIB/task-machine.ts:786`; ADR 0011 line 174). A policy that skips
verification goes from `dispatch` to `accepted`, for which `TASK_TRANSITION_TABLE`
(`LIB/task-machine.ts:353-360`) has no row. A second `startTask` of a key writes a second
seed, at which a replay stops.

Selection and walk. The prediction passes over rungs whose backend was observed unavailable
or out of quota (`RC/evaluate-policy.ts:337`) and says that this is what dispatches (lines
9-11); the engine gives the traversal no availability (`LIB/engine.ts:2120`) and attempts the
first rung that may run. `PredictionMatchesWalk` states where the two may part.
`isSandboxCompatible` lets a model that is only read-only serve a
workspace-write route, which the validator does not pass; the validator does not look at
`transportBackend`.
An explicit pin's floor is its own only for implement. The selection may lead with an
unmeasured rung of the incumbent backend. `deriveLeadPolicy` throws for an unknown lead.
Every shipped price band is null, so the price-band guard never acts. With the default cap
an active policy stops a stack after two attempts. A stack that is exhausted or over its
budget leaves `terminalReason` null, and so does the v2 record of a stack's last attempt when
its failure was retryable: no record of such a run says that it is over.

Runner. The hint after a failure of Composer recommends Claude, although on a ladder Claude
has just failed. On a stack, failures of a first rung on Composer are not classified. The
direct path falls back on `auth`, whose disposition is terminal. `--worker-model` for
implement still asks for a workload class. Direct Kimi without an effort runs at its maximum.
When `--effort` reaches Composer through a fallback, the trace records an effort Composer
drops. The deadline signals the worker once and none of its helpers, and a helper that
holds the output keeps the attempt open as long as it lives. A helper whose worker has
exited is found by no sweep. A second signal of the same kind takes its default action and
ends the runner in mid-sweep. All runners share `<path>.tmp`, so one may rename what another
has half written.

## Proofs

Everything below holds for every value of the constants that the named assumptions admit.
Where an argument is an induction over numbers or finite sets, it takes a smallest
counterexample (`WFMin`) from the set of all.

### Scheduler and ledgers

`DelegationScheduler_proofs` begins with the laws of the sums a ledger is made of and what
each operation of `DelegationBudget` keeps: a reservation moves budget and makes none
(`ReserveOK`, `ReconcileOK`), calls add up over any set of reservations given back at once.

Under `RootsStayRoots`:

* `SlotAccountingHolds`, `ReservationsMatchActiveHolds`, `SerializedWritersHolds`,
  `CancelledRootIsQuietHolds`: the first four invariants of `sched_slots`.
* `ImplementsDispatchPoolHolds`: the refinement, there without clock, with it too.

The inductive invariant `IndInv` is the conjunction of the four with the types of the
control state (`ControlTypeOK`) and `RootsAreRoots`: nodes carry a root that is
dispatched only as a root, and ledgers exist only for such tasks. The four need each
other: `cancelRoot` gives back one slot per cancelled node, which is right only if
everything active under the root holds a reservation, and it is enough to visit the
nodes under the root only because of `RootsAreRoots`. `LeaveStep` and `StartStep` carry
the work: what leaving and starting do to each conjunct, for any set of leaving tasks;
every action is one of the two or leaves all of it alone (`IdleStep`). The refinement
maps a start to `Join`, a completion to `Quit`, and both cancellations to `Disband`.

With no assumption about callers:

* `LedgersSoundHolds`, `ConsumptionNeverResetsHolds`, `StartsNeverOvercommitHolds`: what
  `sched_budget` checks of the ledgers. Which tasks are roots does not matter to them; a
  ledger is opened once and from then on touched by the operations of `DelegationBudget`
  alone.

Where every task has one parent (`OneParent`):

* `TreeConsistentHolds`. Lineage is not inductive: a refused admission removes a node
  while its children stay, and when the node comes back its depth and root must be the
  ones its children were given. `Placed` is what the parents that callers name allow a
  task as depth and root, built up from the roots; with one parent per task it is a
  function, so whoever comes back comes back to his place. Without `OneParent` the
  statement is false: `queueDispatch` enters a task in the list of its new parent and
  leaves it in the list of the old one (`LIB/delegation-scheduler.ts:288-363`).

### One task

`TaskLifecycle_proofs`, for all policies, rungs, stacks and costs, with the laws of the
reducer first: which of its moves leave floor and counters alone, and what a verdict adds:

* `TypeCorrect` and `WithinPolicyHolds`. The invariant is `StateOK /\ RunsOK`.
  `WithinPolicy` is not inductive: `Classified` sets the floor anew, which is harmless
  only because a task in `intake` has not escalated, and `verified` writes into the record
  of the last run, which must exist: a task in `verify` has a run. Most moves leave floors
  and counters alone (`Quiet`); the two that do not are `EscalationAuthorized` and a failed
  approach, where the guard gives the bound.
* `LifeInvariantHolds`, `AcceptedWasVerifiedHolds`, `ChecksSpareLeadHolds`,
  `OutcomesRecordedHolds`, `FollowsTransitionTableHolds`: what `task_bounds` checks over
  the whole history. The reducer keeps names, a counter and the last run's identifier; what
  these mean for the runs so far is `LifeInv`. While work is due, the floor is the one the
  last work ran on, raised if its verdict was about quality (`FloorsOK`), and the runs of
  work are paid for (`WorkOK`). The selected rung is the lead of the last work unless work
  is awaited (`LeadsOK`), and what is awaited was selected in the present state or in the
  one that was cancelled meanwhile (`AwaitedOK`). The run a verdict is about to be given
  to is the last one, it is work, and nobody has annotated it (`JudgedOK`, `NotesOK`).

### The driver

`TaskOrchestrator_proofs`, for all tasks, policies, stacks, events and limits:

* The driver calls the scheduler only through its methods (`DriverSchedules`), and a session's
  parent is fixed, so `RootsStayRoots` and `OneParent` hold of it and the scheduler's theorems
  need no assumption there (`SchedulerInvariant`, `TreeUnderDriver`).
* `LogReplaysHolds`: by the invariant `DriverInv`. `LogReplays` alone is not inductive: a
  session that is anywhere but idle has started, a superseded run exists while it is
  annotated, and the log of a task to come is empty. `EventStep` (an event persisted with
  the session it moves) and `MoveStep` (a session that goes elsewhere) carry the work.
* `EscalationLinkedHolds`: a session remembers the run to supersede apart from the task's
  state, over refusals and retries. `Linked` says when the two agree: while the dispatch
  that supersedes is to come, the superseded run is the last one of the state.
* `SessionInvariantHolds`: types, and that every running dispatch is awaited or was left open
  by the driver, whatever executors return and with the wall time running out. It needs the
  scheduler's invariant: a running dispatch holds its reservation, so the scheduler accepts
  the end the driver reports and does not look at. The two dispositions of `LeftOpen` are the
  finding of `orch_leak`; that nothing else leaks is the theorem.
* `CancellationsToldHolds`: no cancellation is forgotten, with the cascade of an exhausted wall
  time as the stated exception (the finding of `orch_expiry`). Its invariant is that only tasks
  that have started are tracked by the scheduler (`StartedInv`), so the list `cancelRoot` makes
  of sessions misses none of those it cancels.
* `CancelledWorkNotCompletedHolds`: of those one completion takes along, only its own task
  ends as completed.
* `DispatchesChargedHolds`: calls in the ledgers against dispatches of the sessions, for
  executors that report one call (`OneCallEach`) and sessions that name their parent's root
  (`RootsNamed`). The scheduler derives a root from the parent's node, the session carries
  its own; `PlacedByName` is that the two agree.

`OrchestratorAssumption` says how the constants of the two modules fit together (one
metered dimension, the cost; one parent per task; reports are actuals).

### The runner

`FallbackTraversal_proofs`, for every set of registries, stacks, pins and answers, every
window and every cap:

* `WalkInvariantHolds`: the types, `CappedInEveryWindow`, `SecondCrossingDowngraded` and
  `ExhaustedMeansAllTried`.
* `ImplementsOrderedWalkHolds`: an attempt begun maps to `Try`, a failure to `Fail`, a
  success to `Succeed`, every other end to `Stop`, skips and the clock to stutters.

Its invariant `WInv` adds what the code relies on without saying it. The attempt under way
is the one at the cursor and all earlier ones are behind it (`CursorLeads`), so no rung
runs twice. What the cursor has passed was tried or may not run (`PassedWereTried`), so
the end of the stack is its exhaustion. Charges and attempts correspond one to one while
the walk goes on, in order of time (`Charges`): of `Cap` charges in a row before the new
one the oldest must then have left the window, or the budget would have blocked
(`RoomInWindow`, by counting the charges from there on). The guard of the second crossing
is armed exactly when the last attempt crossed and was not downgraded
(`PendingIsLastCrossing`). `TraversalAssumption` only gives the constants their types; the
stacks need not have passed the validator.

* `ValidatedNeverRefusedHolds`: what the walk refuses breaks a rule of the validator. The
  walk resolves a rung in the index, where the last entry of a name counts, and the
  validator goes through all entries; `KnownEntry` is that the index finds one of them.

`WorkerProcess_proofs`, for any number of attempts, any signals and any grace:

* `ProcessInvariantHolds`: one provider CLI at a time, reachable while it lives.
* `SweptTreesAreGoneHolds`: nothing of a swept tree is left when a forwarded signal has
  ended the runner.

An attempt settles only when its worker is dead, and the next is spawned only then, so the
worker of the last attempt alone can be alive, and only while that attempt is open
(`OnlyLastAlive`). A worker is born when its attempt is made (`BornWithAttempt`), so a
spawn brings nothing back to life that an earlier sweep has found. For the sweep,
`SweepsTrack` says of every sweep under way that the processes of its snapshot still alive
are among its survivors. A poll drops from the survivors only what is dead, and what is
dead stays dead, so the last poll kills all that is left (`ContinueStep`).
`ProcessAssumption` keeps the names of signals apart from the other ways a runner can end.

`WorkerRun_proofs`, for every command line and environment, whatever the workers do:

* `AcceptedNeverRejectedHolds`, `RunInvariantHolds`, `DispatchedAsContractedHolds`,
  `TracesTellRunHolds`: the four safety properties of `worker_runs`.
* `RunWalks`: every step of a run is a step of its traversal or leaves it alone, so what
  `FallbackTraversal_proofs` has of every traversal holds of a run.

The first half is about the data. Every model that a route or a chain names is in the
shipped registry, available, on its backend, and takes the efforts the policy asks of it
(`RegistryListed`, `RoutedModel`, `Bindings`); every shipped chain is free of repeats and
made of such rungs, also with the emergency tail joined on (`StacksFit`, `AliasFits`); and
whatever `parseArguments` lets through has a stack, or none to conflict with
(`ParsedArguments`). The second half is the invariant `RunInv`. An attempt follows a failure
its path goes on from (`TriesOK`), and what keeps it from coming back differs by path: on a
stack all earlier attempts are of rungs behind the cursor (`StackOK`), on the ladder each
tier is higher than the one before (`DirectOK`, `Ladder`), and the economy pair has two
members that differ (`EconomyOK`, `EcoPair`). That the walk never ends before a first attempt,
which would be traced as a rejection, needs both halves: the first rung may run
(`StackRequest`) and nothing of the budget is spent (`FirstAttempted`). `RunAssumption` says
that the runner has the registry it is shipped with, that the retry budget has room for one
attempt, and that the traversal's constants cover the stacks and dispositions of a run.

The traces have an invariant of their own over `RunInv`, `TraceInv`: the log is, record by
record, what the attempts alone say it should be (`LogOK`, `SpokenOf`); the emitter's total is
the count of the attempts told of and one reservation (`Account`); what a path keeps in mind is
the attempt told of last (`CarriedOK`); and off the stacks the attempts follow each other down
the ladder or the pair to its end (`PathOK`). A v2 record is written before the step it tells
of, so `PathOK` is what makes it true afterwards.

`TraceStore_proofs`, for any number of runners, any limit and any number of kills and
short writes:

* `StoreInvariantHolds`. That a file is in order is not inductive: a slow runner writes its
  lines over those another has begun to write into the shared temporary, and what is longer
  stays behind them. So whatever stands past the limit in a file a runner is writing is newer
  than all it holds in hand (`Behind`, of `OrderOK`). The bound is by accounts: `Owners` are
  the runners about to look at the file and those whose temporary will replace it, and no
  file has more records past the limit than owners and kills (`BoundOK`).
* `NewestKeptHolds`. Whose fault a lost record is cannot be read off the file. The invariant
  says that there is a set `C` of records cut short, no larger than the number of short
  writes, such that every record but those of `C` and their successors has a line near
  enough to the end (`Covers`): near in lines, not in records, since a fragment takes a line
  and retention counts lines.

### Selection

`RoutingEvaluation_proofs`, for every set of registries, stacks, pins and contexts:

* `EvaluationWalks`: whatever was evaluated before it, the walk is one of
  `FallbackTraversal`, with all that is proved of those.
* `PredictionMatchesWalkHolds`, for stacks the validator would refuse as well. The invariant is
  `FullInv`: the walk's own, that the evaluation is what `evaluateRouting` says of the context
  (`EvaluationInv`), and that the cursor passes only what may not run, so the first attempt is
  of the first rung that may (`Passing`). `StatusTells` compares the two readings of one rung: what the
  prediction calls inert is what the walk skips, and what the walk refuses was called unknown
  or ineligible. Between the two the prediction reads availability and quota and the engine
  does not; a first attempt that is not the predicted one was passed over for one of these, or
  is ineligible by a rule the walk has no check for (`PredictedWalk`).
* `DegradedAsIfRequestedHolds`. The floor that was settled on is the highest that serves, so
  it is also the highest when it is itself the most that is asked for (`SettledAgain`);
  levels, eligibility and the lead do not look at the floor that was asked.
* `SelectionSoundHolds`. `RungsExplained`: what a level leaves is a partition
  (`LevelParts`), and the stack holds all that is affordable and besides at most the rung
  brought back to lead (`Offered`). `LeadKept`: what takes the lead from the best of the
  incumbent takes it from all of it (`ImprovesOnAll`). `FloorsReachable`: the rungs of the
  lead are eligible (`LeadEligible`), one of those measured within bounds is not dominated
  (`Undominated`), so the floor serves (`FloorServes`) and is not lowered (`NotLowered`).

All of it rests on the order of a stack. `Precedes` compares four things of which two may be
unknown; it is a strict total order on the candidates of a registry (`PrecedesOrder`), and
`InOrder`, which says how many precede, then lists each candidate once and begins with the
least (`InOrderOf`, by `Ranks`). Which candidates the
stack begins with, and that it holds no others, is all the three properties need.

`EvaluationAssumption` says that scores, prices, clocks and remainders are numbers, that
there is at most one price or remainder, that an entry's transport and fixed effort are
among those there are, and that what a context may dispatch is a request the walk's
constants cover. A bad snapshot or registry is admitted.

Two hypotheses of `SelectionSound` come from the proof. `EveryRungExplained` needs ids that
are unique in the registry: with a duplicate, `enforceLeadCoherence` filters by rung id, so
bringing one entry's rung back to lead drops the other's, and it is in no list. The
validator refuses such a registry; `select` does not call it. `DerivedFloorReachable` needs
a lead without a role restriction: a pin may be led by a model that asks for authorization,
its floor is read off that model, and `select` rejects every rung of it. `walk_stacks` has
such a pin. None is shipped.

### What is only model-checked

Liveness (`ExpiredRootIsCancelled`, `AwaitsSettle`, `RunEnds`, `StopsSettle`), which the
proof system does not cover. Every other property of a passing run is a theorem.

## Not modelled

* Live activity, rollout gates and session policy, shadow evaluation and delegation routing
  are not modelled. The first is a bounded in-memory feed that no decision reads; the next two
  are arithmetic over recorded statistics without state or order; the scheduler reads of the
  last only whether it succeeds.
* Generators, prompts, schemas and templates produce files and have no runtime state.
* Of modelled components: an executor that throws and a task started twice
  under one key (driver); the subcommands other than `run`; prompt assembly and the parsing
  of a worker's output, which are the choice of an outcome; the conversion of observation
  files; replay and comparison of recorded traffic; reuse of a pid within a grace.

## Plan

1. Live activity: the emitter's caps and its order against the run's end.
