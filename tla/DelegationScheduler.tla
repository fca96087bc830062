------------------------- MODULE DelegationScheduler -------------------------
(***************************************************************************)
(* The parent-owned dispatch scheduler of delegation-scheduler.ts: one     *)
(* node per task identity, the children sets, the global and per-root      *)
(* running counters, one budget ledger per root, the registry of cancelled *)
(* roots (delegation-cancellation.ts) and the registry of checkout write   *)
(* ownership (delegation-worktree-sandbox.ts).                             *)
(*                                                                         *)
(* Every public method runs to completion without an await, so each one is *)
(* one action.  What interleaves is the calls: dispatches are admitted,    *)
(* workers finish, roots are cancelled and the clock advances in any       *)
(* order.  A call that is refused changes nothing and is not an action,    *)
(* except the refusal of admitDispatch, which removes a node.              *)
(***************************************************************************)
EXTENDS DelegationBudget, DelegationLimits

CONSTANTS
  NoTask,                        \* null parentIdentity
  Checkouts,                     \* normalised checkout identities
  NoCheckout,
  ParentChoices,                 \* parents a caller may name, per task
  PermissionChoices,             \* permission sets a dispatch may end up with
  ActualsChoices,                \* actuals a runner may report
  Returning,                     \* tasks whose worker comes back and is reported; a
                                 \* deadline is optional, so others may run for ever
  MaxClock                       \* bound: the clock stops here

ASSUME SchedulerAssumption ==
  /\ IsFiniteSet(Tasks)
  /\ NoTask \notin Tasks
  /\ NoCheckout \notin Checkouts
  /\ ParentChoices \in [Tasks -> SUBSET (Tasks \cup {NoTask})]
  /\ PermissionChoices \subseteq SUBSET {"read", "write"}
  /\ ActualsChoices \subseteq BudgetActuals
  /\ Returning \subseteq Tasks
  /\ MAX_DELEGATION_DEPTH \in Nat
  /\ MAX_DIRECT_FAN_OUT \in Nat
  /\ MAX_GLOBAL_ACTIVE_CONCURRENCY \in Nat
  /\ MAX_ROOT_ACTIVE_CONCURRENCY \in Nat
  /\ MaxClock \in Nat

VARIABLES
  nodes,             \* Map taskIdentity -> SchedulerNode
  children,          \* childrenByParent
  recommendations,   \* keys of pendingRecommendations
  globalActive,      \* globalActiveCount
  activeByRoot,
  ledgers,           \* rootLedgers
  cancelled,         \* cancellationRegistry: the reason, or NotCancelled
  writeByCheckout,   \* activeWriteByCheckout: the holder
  writeByTask,       \* activeWriteByTask: the checkout
  now                \* the clock

vars == <<nodes, children, recommendations, globalActive, activeByRoot,
          ledgers, cancelled, writeByCheckout, writeByTask, now>>

NotCancelled == "not-cancelled"
ROOT_CANCELLED_REASON == "root-cancelled"
ROOT_WALL_TIME_EXHAUSTED_REASON == "budget-wall-time-exhausted-cancelled"

NodeStatus == {"absent", "queued", "active", "completed", "cancelled"}

SchedulerNode ==
  [status   : NodeStatus,
   depth    : Nat,
   parent   : Tasks \cup {NoTask},
   root     : Tasks \cup {NoTask},
   checkout : Checkouts \cup {NoCheckout},
   perms    : SUBSET {"read", "write"}]

NoNode == [status |-> "absent", depth |-> 0, parent |-> NoTask,
           root |-> NoTask, checkout |-> NoCheckout, perms |-> {}]

Init ==
  /\ nodes           = [t \in Tasks |-> NoNode]
  /\ children        = [t \in Tasks |-> {}]
  /\ recommendations = {}
  /\ globalActive    = 0
  /\ activeByRoot    = [r \in Tasks |-> 0]
  /\ ledgers         = [r \in Tasks |-> NoLedger]
  /\ cancelled       = [r \in Tasks |-> NotCancelled]
  /\ writeByCheckout = [c \in Checkouts |-> NoTask]
  /\ writeByTask     = [t \in Tasks |-> NoCheckout]
  /\ now             = 0

----------------------------------------------------------------------------
\* State predicates

Active == {t \in Tasks : nodes[t].status = "active"}

isTaskTracked(t) == nodes[t].status \in {"queued", "active"}

TrackedUnder(r) == {t \in Tasks : isTaskTracked(t) /\ nodes[t].root = r}

isRootCancelled(r) == cancelled[r] # NotCancelled

\* The chain of parents upwards from p, as far as nodes are there.
hasAncestorIdentity(p, candidate) ==
  LET up[n \in 0..Cardinality(Tasks)] ==
        IF n = 0 THEN p
        ELSE IF up[n-1] = NoTask THEN NoTask ELSE nodes[up[n-1]].parent
  IN  \E n \in DOMAIN up : up[n] = candidate

DepthUnder(p) == IF p = NoTask THEN 0 ELSE nodes[p].depth + 1

RootUnder(t, p) == IF p = NoTask THEN t ELSE nodes[p].root

\* The node queueDispatch stores for a validated request.  A child that names
\* no checkout inherits its parent's: one of the choices of checkout.
QueuedNode(t, p, checkout, perms) ==
  [status |-> "queued", depth |-> DepthUnder(p), parent |-> p,
   root |-> RootUnder(t, p), checkout |-> checkout, perms |-> perms]

----------------------------------------------------------------------------
\* Admission

\* validateDispatchAdmission: what a request must satisfy to be queued.
validateDispatchAdmission(t, p, perms) ==
  /\ ~isTaskTracked(t)
  /\ p = NoTask => ~isRootCancelled(t)
  /\ p # NoTask =>
       /\ nodes[p].status \in {"active", "completed"}
       /\ ~isRootCancelled(nodes[p].root)
       /\ DepthUnder(p) <= MAX_DELEGATION_DEPTH
       /\ ~hasAncestorIdentity(p, t)
       /\ Cardinality(children[p]) < MAX_DIRECT_FAN_OUT
       /\ perms \subseteq nodes[p].perms

envelopeRequiresWriteOwnership(n) == "write" \in n.perms

\* Slip: a child may write in the checkout its parent is writing.
canShareWriteOwnership(t, n) ==
  envelopeRequiresWriteOwnership(n) =>
    writeByCheckout[n.checkout] \in {NoTask, t, n.parent}

canAcquireWriteOwnership(t, n) ==
  envelopeRequiresWriteOwnership(n) => writeByCheckout[n.checkout] \in {NoTask, t}

tryAcquireWriteOwnership(t, n) ==
  IF envelopeRequiresWriteOwnership(n) /\ writeByCheckout[n.checkout] = NoTask
  THEN /\ writeByCheckout' = [writeByCheckout EXCEPT ![n.checkout] = t]
       /\ writeByTask' = [writeByTask EXCEPT ![t] = n.checkout]
  ELSE UNCHANGED <<writeByCheckout, writeByTask>>

\* Slip: every start opens the ledger anew.
freshRootLedger(r) == createRootBudgetLedger(now)

ensureRootLedger(r) ==
  IF ledgers[r].open THEN ledgers[r] ELSE createRootBudgetLedger(now)

\* Slip: the global limit is not looked at.
CanStartInRoot(t, n) ==
  /\ ~isRootCancelled(n.root)
  /\ activeByRoot[n.root] < MAX_ROOT_ACTIVE_CONCURRENCY
  /\ canAcquireWriteOwnership(t, n)
  /\ CanReserve(ensureRootLedger(n.root), now, t)

\* The checks of startQueuedDispatch on a queued node n of task t.
CanStart(t, n) ==
  /\ ~isRootCancelled(n.root)
  /\ globalActive < MAX_GLOBAL_ACTIVE_CONCURRENCY
  /\ activeByRoot[n.root] < MAX_ROOT_ACTIVE_CONCURRENCY
  /\ canAcquireWriteOwnership(t, n)
  /\ CanReserve(ensureRootLedger(n.root), now, t)

Start(t, n) ==
  /\ nodes' = [nodes EXCEPT ![t] = [n EXCEPT !.status = "active"]]
  /\ globalActive' = globalActive + 1
  /\ activeByRoot' = [activeByRoot EXCEPT ![n.root] = @ + 1]
  /\ ledgers' = [ledgers EXCEPT
       ![n.root] = tryReserveDispatch(ensureRootLedger(n.root), now, t)]
  /\ tryAcquireWriteOwnership(t, n)

AddChild(p, t) ==
  IF p = NoTask THEN children ELSE [children EXCEPT ![p] = @ \cup {t}]

\* Slip: the node is removed and its entry under the parent is not.
KeepChild(p, t) == children

RemoveChild(p, t) ==
  IF p = NoTask THEN children ELSE [children EXCEPT ![p] = @ \ {t}]

queueDispatch(t, p, checkout, perms) ==
  /\ validateDispatchAdmission(t, p, perms)
  /\ nodes' = [nodes EXCEPT ![t] = QueuedNode(t, p, checkout, perms)]
  /\ children' = AddChild(p, t)
  /\ UNCHANGED <<recommendations, globalActive, activeByRoot, ledgers, cancelled,
                 writeByCheckout, writeByTask, now>>

startQueuedDispatch(t) ==
  /\ nodes[t].status = "queued"
  /\ CanStart(t, nodes[t])
  /\ Start(t, nodes[t])
  /\ UNCHANGED <<children, recommendations, cancelled, now>>

\* admitDispatch, both calls granted.
admitDispatch(t, p, checkout, perms) ==
  LET n == QueuedNode(t, p, checkout, perms) IN
  /\ validateDispatchAdmission(t, p, perms)
  /\ CanStart(t, n)
  /\ Start(t, n)
  /\ children' = AddChild(p, t)
  /\ UNCHANGED <<recommendations, cancelled, now>>

\* admitDispatch, queued but not started: removeQueuedDispatchNode deletes
\* the node, and with it whatever an earlier dispatch of the task left there.
admitDispatchDenied(t, p, checkout, perms) ==
  /\ validateDispatchAdmission(t, p, perms)
  /\ ~CanStart(t, QueuedNode(t, p, checkout, perms))
  /\ nodes' = [nodes EXCEPT ![t] = NoNode]
  /\ children' = RemoveChild(p, t)
  /\ UNCHANGED <<recommendations, globalActive, activeByRoot, ledgers, cancelled,
                 writeByCheckout, writeByTask, now>>

submitRecommendation(t) ==
  /\ nodes[t].status = "active"
  /\ recommendations' = recommendations \cup {t}
  /\ UNCHANGED <<nodes, children, globalActive, activeByRoot, ledgers, cancelled,
                 writeByCheckout, writeByTask, now>>

----------------------------------------------------------------------------
\* Completion and cancellation

\* Math.max(0, count - n)
Less(count, n) == IF count >= n THEN count - n ELSE 0

releaseWriteOwnership(S) ==
  /\ writeByCheckout' = [c \in Checkouts |->
       IF \E t \in S : writeByTask[t] = c /\ writeByCheckout[c] = t
       THEN NoTask ELSE writeByCheckout[c]]
  /\ writeByTask' = [t \in Tasks |-> IF t \in S THEN NoCheckout ELSE writeByTask[t]]

\* Slip: only what runs is cancelled.
CancellableRunning(r) == {t \in Active : nodes[t].root = r}

\* The tasks cancelRoot(r) ends: everything tracked under r, and the node of r
\* itself wherever it now hangs.
Cancellable(r) ==
  TrackedUnder(r) \cup {t \in {r} : isTaskTracked(t)}

\* Slip: one slot is given back however many dispatches stop.
RootCountMinusOne(r, S) == Less(activeByRoot[r], 1)

\* activeByRoot[r] once the running tasks in S are gone.  The tail of
\* cancelRoot zeroes it when r's own node runs under another root.
RootCountWithout(r, S) ==
  IF r \in S /\ nodes[r].root # r THEN 0
  ELSE Less(activeByRoot[r], Cardinality(S))

RecommendationsWithout(S) == recommendations \ S

\* The tasks in S leave, all charged to r's ledger: the running ones are
\* reconciled and give back their slots and write ownership.
Leave(r, S, terminal, actuals) ==
  LET running == S \cap Active IN
  /\ nodes' = [t \in Tasks |->
       IF t \in S THEN [nodes[t] EXCEPT !.status = terminal[t]] ELSE nodes[t]]
  /\ ledgers' = [ledgers EXCEPT
       ![r] = reconcileDispatch(@, running \cap @.holders, actuals)]
  /\ releaseWriteOwnership(running)
  /\ globalActive' = Less(globalActive, Cardinality(running))
  /\ activeByRoot' = [activeByRoot EXCEPT ![r] = RootCountWithout(r, running)]
  /\ recommendations' = RecommendationsWithout(S)
  /\ UNCHANGED <<children, now>>

\* cancelRoot, with the actuals the caller knows; by default none.
cancelRoot(r, actuals) ==
  /\ ledgers[r].open \/ TrackedUnder(r) # {}
  /\ Leave(r, Cancellable(r), [t \in Tasks |-> "cancelled"], actuals)
  /\ cancelled' = [cancelled EXCEPT ![r] = ROOT_CANCELLED_REASON]

\* Slip: a root with nothing left is not yet exhausted.
WallOverdrawnWithout(r, t) ==
  WallRemaining(reconcileDispatch(ledgers[r], {t}, [x \in Tasks |-> UnknownActuals]), now) < 0

\* Root r's wall time is used up once task t has been reconciled.
WallExhaustedWithout(r, t) ==
  WallRemaining(reconcileDispatch(ledgers[r], {t}, [x \in Tasks |-> UnknownActuals]), now) <= 0

\* finishDispatch: t ends with the given status, and if that leaves its root
\* no wall time the same call cancels the rest of the root.
finishDispatch(t, actuals, terminal) ==
  LET r    == nodes[t].root
      rest == IF WallExhaustedWithout(r, t) THEN Cancellable(r) \ {t} ELSE {}
  IN
  /\ nodes[t].status = "active"
  /\ t \in ledgers[r].holders
  /\ Leave(r, {t} \cup rest,
           [x \in Tasks |-> IF x = t THEN terminal ELSE "cancelled"],
           [x \in Tasks |-> IF x = t THEN actuals ELSE UnknownActuals])
  /\ cancelled' = IF WallExhaustedWithout(r, t)
                  THEN [cancelled EXCEPT ![r] = ROOT_WALL_TIME_EXHAUSTED_REASON]
                  ELSE cancelled

completeDispatch(t, actuals) == finishDispatch(t, actuals, "completed")

cancelDispatch(t, actuals) == finishDispatch(t, actuals, "cancelled")

Tick ==
  /\ now < MaxClock
  /\ now' = now + 1
  /\ UNCHANGED <<nodes, children, recommendations, globalActive, activeByRoot,
                 ledgers, cancelled, writeByCheckout, writeByTask>>

----------------------------------------------------------------------------
Next ==
  \/ \E t \in Tasks : \E p \in ParentChoices[t], c \in Checkouts, perms \in PermissionChoices :
       \/ queueDispatch(t, p, c, perms)
       \/ admitDispatch(t, p, c, perms)
       \/ admitDispatchDenied(t, p, c, perms)
  \/ \E t \in Tasks : startQueuedDispatch(t)
  \/ \E t \in Tasks : submitRecommendation(t)
  \/ \E t \in Tasks, a \in ActualsChoices : completeDispatch(t, a)
  \/ \E t \in Tasks, a \in ActualsChoices : cancelDispatch(t, a)
  \/ \E r \in Tasks : \E a \in ActualsChoices \cup {UnknownActuals} :
       cancelRoot(r, [t \in Tasks |-> a])
  \/ Tick

Spec == Init /\ [][Next]_vars

\* Nothing in the code makes a worker end: timeoutMs may be left out, and a run that
\* ends without a known disposition is never reported.  What is assumed is the
\* environment's: the workers of the tasks in Returning come back and are reported.
Fairness ==
  \A t \in Returning : WF_vars(\E a \in ActualsChoices : completeDispatch(t, a))

FairSpec == Spec /\ Fairness

----------------------------------------------------------------------------
\* Properties

TypeOK ==
  /\ nodes \in [Tasks -> SchedulerNode]
  /\ children \in [Tasks -> SUBSET Tasks]
  /\ recommendations \subseteq Tasks
  /\ globalActive \in Nat
  /\ activeByRoot \in [Tasks -> Nat]
  /\ ledgers \in [Tasks -> RootBudgetLedger]
  /\ cancelled \in [Tasks -> {NotCancelled, ROOT_CANCELLED_REASON,
                              ROOT_WALL_TIME_EXHAUSTED_REASON}]
  /\ writeByCheckout \in [Checkouts -> Tasks \cup {NoTask}]
  /\ writeByTask \in [Tasks -> Checkouts \cup {NoCheckout}]
  /\ now \in Nat

ActiveUnder(r) == {t \in Active : nodes[t].root = r}

\* The caller's discipline that the orchestrator keeps: a session has one
\* parentTaskKey for good, so a task is always dispatched as a root or always
\* as a child (task-orchestrator.ts:281-291).  The API does not enforce it.
RootsStayRoots ==
  \A t \in Tasks : NoTask \in ParentChoices[t] => ParentChoices[t] = {NoTask}

\* Every counter equals the number of dispatches it counts: no completion,
\* cancellation or refused start leaks a slot or frees one twice.
SlotAccounting ==
  /\ globalActive = Cardinality(Active)
  /\ \A r \in Tasks : activeByRoot[r] = Cardinality(ActiveUnder(r))

\* A dispatch holds a budget reservation exactly while it runs, and holds it
\* in the ledger of its own root.
ReservationsMatchActive ==
  \A r, t \in Tasks :
    t \in ledgers[r].holders <=> nodes[t].status = "active" /\ nodes[t].root = r

\* Two running dispatches never write the same checkout, and the two tables
\* of the registry always agree with each other and with what is running.
SerializedWriters ==
  /\ \A t, u \in Active :
       /\ envelopeRequiresWriteOwnership(nodes[t])
       /\ envelopeRequiresWriteOwnership(nodes[u])
       /\ nodes[t].checkout = nodes[u].checkout
       => t = u
  /\ \A t \in Tasks :
       writeByTask[t] = IF t \in Active /\ envelopeRequiresWriteOwnership(nodes[t])
                        THEN nodes[t].checkout ELSE NoCheckout
  /\ \A t \in Tasks, c \in Checkouts : writeByCheckout[c] = t <=> writeByTask[t] = c

\* Nothing is queued or running under a cancelled root, however its dispatches
\* were queued, started or re-dispatched around the cancellation.
CancelledRootIsQuiet ==
  \A r \in Tasks : isRootCancelled(r) => TrackedUnder(r) = {}

\* No budget is minted or lost: in every dimension what remains, what running
\* dispatches have reserved and what was consumed add up to the limit.
BudgetConserved ==
  \A r \in Tasks : ledgers[r].open =>
    \A d \in Pooled :
      ledgers[r].remaining[d] + ReservedBy(ledgers[r], ledgers[r].holders, d)
        + ledgers[r].consumed[d] = RootLimits[d]

\* Slots are never overdrawn, whatever the runners report: the calls charged
\* and the calls in flight stay within the root's limit, and so do the
\* concurrency slots.
SlotsNeverOverdrawn ==
  \A r \in Tasks : ledgers[r].open =>
    \A d \in SlotDimensions :
      ledgers[r].consumed[d] + Cardinality(ledgers[r].holders) <= RootLimits[d]

\* A node's place in the tree agrees with its parent's, as long as the parent's
\* node is there: one level deeper, same root.  No tracked node is too deep.
LineageConsistent ==
  \A t \in Tasks :
    /\ nodes[t].depth <= MAX_DELEGATION_DEPTH
    /\ LET p == nodes[t].parent IN
       p # NoTask /\ nodes[p].status # "absent" =>
         nodes[t].depth = nodes[p].depth + 1 /\ nodes[t].root = nodes[p].root

\* childrenByParent holds exactly the nodes that name the parent, never more
\* than the fan-out limit of them, through refusals and re-dispatches.
FanOutBounded ==
  \A p \in Tasks :
    /\ children[p] = {t \in Tasks : nodes[t].parent = p}
    /\ Cardinality(children[p]) <= MAX_DIRECT_FAN_OUT

\* A recommendation is pending only while its submitter runs.
RecommendationsFromRunning == recommendations \subseteq Active

\* Consumption never goes down and a ledger is never replaced: re-dispatching
\* or cancelling cannot reset what a root has spent.
ConsumptionNeverResets ==
  [][\A r \in Tasks : ledgers[r].open =>
       /\ ledgers'[r].open /\ ledgers'[r].createdAt = ledgers[r].createdAt
       /\ \A d \in Pooled : ledgers'[r].consumed[d] >= ledgers[r].consumed[d]]_vars

\* A dispatch that starts fits: after its reservation no dimension of its root
\* is below zero, wall time included, so concurrent workers cannot together
\* reserve more than what is left.
StartsNeverOvercommit ==
  [][\A t \in Tasks : t \notin Active /\ nodes'[t].status = "active" =>
       \A d \in Dimensions : Remaining(ledgers'[nodes'[t].root], now', d) >= 0]_vars

\* A root whose wall time has passed while the worker of one of its dispatches is yet
\* to come back is cancelled sooner or later, whatever else of it hangs for ever: no
\* timer watches the limit, the report that comes back notices it (finishDispatch).
ExpiredRootIsCancelled ==
  \A r \in Tasks :
    (/\ ledgers[r].open
     /\ Elapsed(ledgers[r], now) >= RootLimits["wallTimeMs"]
     /\ ActiveUnder(r) \cap Returning # {}) ~> isRootCancelled(r)

\* The pool of running dispatches the scheduler implements.
DispatchPool == INSTANCE DispatchPool WITH
  MaxPool  <- MAX_GLOBAL_ACTIVE_CONCURRENCY,
  MaxTeam  <- MAX_ROOT_ACTIVE_CONCURRENCY,
  worksFor <- [t \in Tasks |-> IF nodes[t].status = "active" THEN nodes[t].root ELSE NoTask],
  writes   <- writeByTask,
  dead     <- {r \in Tasks : isRootCancelled(r)}

\* Counters, queue, ledgers and lock tables together behave as the pool: its
\* limits, its write exclusion and its cancellations, step by step.
ImplementsDispatchPool == DispatchPool!Spec

\* The ledgers stay typed, conserve what they hold, and are never overdrawn in slots.
LedgersSound == TypeOK /\ BudgetConserved /\ SlotsNeverOverdrawn

\* The tree the nodes and the child lists make up is one tree, within its limits, and
\* only its running nodes recommend: refusals and re-dispatches take their entries out.
TreeConsistent == LineageConsistent /\ FanOutBounded /\ RecommendationsFromRunning
============================================================================
