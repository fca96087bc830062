-------------------------- MODULE TaskOrchestrator --------------------------
(***************************************************************************)
(* The driver of task-orchestrator.ts: one session per task, whose state   *)
(* moves by TaskMachine's reducer, whose work is admitted, completed and   *)
(* cancelled in DelegationScheduler, and whose events go to the log of     *)
(* task-events.ts.                                                         *)
(*                                                                         *)
(* Code between two awaits runs to completion.  The awaits are those of    *)
(* executeDispatch, of the annotation of a superseded run, and of each     *)
(* session that cancelRoot tells.  A selection runs in the same stretch as *)
(* the event that asked for it: while some session is "selecting" nothing  *)
(* else happens (Settled).                                                 *)
(***************************************************************************)
EXTENDS DelegationScheduler, TaskMachine

CONSTANTS
  Parent,            \* parentTaskKey of each session, fixed when it starts
  RootIdentity,      \* rootIdentity of each task's state
  Depth,             \* depth of each task's state
  Policies,          \* policies a task may be started with
  Stacks,            \* stacks a selection may return
  ParentEvents,      \* events the parent may send
  Dispositions,      \* dispositions executeDispatch may return
  Reports,           \* actuals executeDispatch may return, or NoReport
  NoReport

\* What a parent may send, and with it what a session may be applied.
ParentEvent ==
  [kind : {"classified"}, route : CapabilityRoute, floor : CapabilityBand]
  \cup [kind : {"planned"}, criteria : BOOLEAN]
  \cup [kind : {"decomposed"}, childTasks : Nat]
  \cup [kind : {"verified"}, verdict : VerdictKind, mode : {"parent", "dispatch"},
        rung : RungIds \cup {NoRung}]
  \cup [kind : {"escalation-authorized"}, toBand : CapabilityBand]
  \cup [kind : {"escalation-denied", "ship-authorized"}]

TaskEvent ==
  ParentEvent
  \cup [kind : {"dispatch-selected"}, stack : Seq(RungIds) \ {<<>>}]
  \cup [kind : {"dispatch-completed"}, runId : Nat, disposition : FailureDisposition]
  \cup [kind : {"cancelled"}]

\* What a dispatch is charged when its executor reports no usage.
DefaultActuals == [d \in Metered \cup {"call"} |-> IF d = "call" THEN 1 ELSE 0]

ASSUME OrchestratorAssumption ==
  /\ Metered = {"cost"}
  /\ DispatchCost = DispatchCeiling["cost"]
  /\ NoRung \notin RungIds
  /\ Parent \in [Tasks -> Tasks \cup {NoTask}]
  /\ ParentChoices = [t \in Tasks |-> {Parent[t]}]
  /\ RootIdentity \in [Tasks -> Tasks]
  /\ Depth \in [Tasks -> Nat]
  /\ Policies \subseteq TaskPolicy /\ Policies # {}
  /\ Stacks \subseteq Seq(RungIds) \ {<<>>}
  /\ ParentEvents \subseteq ParentEvent
  /\ Dispositions \subseteq FailureDisposition
  /\ NoReport \notin BudgetActuals
  /\ Reports \subseteq ActualsChoices \cup {NoReport}
  /\ NoReport \in Reports => DefaultActuals \in ActualsChoices

VARIABLES
  sessions,          \* Map taskIdentity -> TaskSession
  telling,           \* cancelled tasks a running cancelRoot has yet to tell
  log,               \* task-events.jsonl, by task, as what it replays to
  execution          \* by task, the disposition its last executeDispatch returned

orchestratorVars == <<nodes, children, recommendations, globalActive, activeByRoot, ledgers,
                      cancelled, writeByCheckout, writeByTask, now, sessions, telling, log,
                      execution>>

NoRun == 0

\* Nothing has returned to the session since it last dispatched, or nothing it read.
NoDisposition == "none"

\* at is the await, or the stretch of code, the session's applyEvent is in.
TaskSession ==
  [started             : BOOLEAN,
   state               : TaskState,
   policy              : Policies,
   at                  : {"idle", "selecting", "annotating", "executing"},
   sequence            : Nat,
   dispatches          : Nat,      \* dispatches so far: run IDs are numbers
   pendingEscalationOf : Nat,
   escalationOf        : Nat,      \* handed to the awaited executeDispatch
   superseded          : Nat]      \* the run last annotated as escalated

IntakeState(t) ==
  [name |-> "intake", depth |-> Depth[t], capabilityRoute |-> "other",
   capabilityFloor |-> 0, originalFloor |-> 0, escalationsUsed |-> 0,
   replansUsed |-> 0, runIds |-> <<>>, selectedRung |-> NoRung]

Session(t, policy) ==
  [started |-> TRUE, state |-> IntakeState(t), policy |-> policy, at |-> "idle",
   sequence |-> 1, dispatches |-> 0, pendingEscalationOf |-> NoRun, escalationOf |-> NoRun,
   superseded |-> NoRun]

OrchestratorInit ==
  /\ Init
  /\ sessions = [t \in Tasks |->
       [Session(t, CHOOSE policy \in Policies : TRUE) EXCEPT !.started = FALSE]]
  /\ telling = {}
  /\ log = [t \in Tasks |-> [state |-> IntakeState(t), expected |-> 0, ok |-> TRUE]]
  /\ execution = [t \in Tasks |-> NoDisposition]

----------------------------------------------------------------------------
\* The reducer, event by event

\* step(): is the event accepted, with this much of the root's cost left?
Accepts(s, e, policy, cost) ==
  CASE e.kind = "classified"            -> CanClassify(s)
    [] e.kind = "planned"               -> CanPlan(s, e.criteria)
    [] e.kind = "decomposed"            -> CanDecompose(s, e.childTasks)
    [] e.kind = "dispatch-selected"     -> CanSelect(s, policy)
    [] e.kind = "dispatch-completed"    -> CanComplete(s)
    [] e.kind = "verified"              -> CanVerify(s, e.verdict, e.mode, e.rung, policy)
    [] e.kind = "escalation-authorized" -> CanAuthorizeEscalation(s, e.toBand, policy, cost)
    [] e.kind = "escalation-denied"     -> CanDenyEscalation(s)
    [] e.kind = "cancelled"             -> CanCancel(s)
    [] e.kind = "ship-authorized"       -> CanShip(s)

\* step(): the state an accepted event leads to.
After(s, e, policy, cost) ==
  CASE e.kind = "classified"            -> Classified(s, e.route, e.floor)
    [] e.kind = "planned"               -> Planned(s)
    [] e.kind = "decomposed"            -> Decomposed(s)
    [] e.kind = "dispatch-selected"     -> Selected(s, e.stack)
    [] e.kind = "dispatch-completed"    -> Completed(s, e.runId, e.disposition, policy)
    [] e.kind = "verified"              -> Verified(s, e.verdict, policy, cost)
    [] e.kind = "escalation-authorized" -> EscalationAuthorized(s, e.toBand)
    [] e.kind = "escalation-denied"     -> EscalationDenied(s)
    [] e.kind = "cancelled"             -> Cancelled(s)
    [] e.kind = "ship-authorized"       -> Shipped(s)

\* The move from s to n has a select effect.
Selects(s, n, policy) ==
  /\ n.name # s.name
  /\ \/ n.name \in {"dispatch", "code-review"}
     \/ n.name = "verify" /\ policy.verification = "dispatch"

\* Where applyEvent is after the effects that need no await of the move: an
\* escalation annotates the superseded run first.
Continues(s, n, policy) ==
  IF ~Selects(s, n, policy) THEN "idle"
  ELSE IF s.name = "escalate" /\ Len(s.runIds) > 0 THEN "annotating"
  ELSE "selecting"

----------------------------------------------------------------------------
\* Sessions and their log

Settled == \A t \in Tasks : sessions[t].at # "selecting"

remainingBudgetCost(t) ==
  LET L == ledgers[RootIdentity[t]] IN
  IF L.open THEN L.remaining["cost"] ELSE RootLimits["cost"]

\* persistStepEvent, as the replay of the log with the record added: the
\* sequence must be the expected one and the reducer must accept the event.
persistStepEvent(t, e) ==
  LET L    == log[t]
      cost == remainingBudgetCost(t)
      fits == /\ L.ok
              /\ sessions[t].sequence = L.expected
              /\ Accepts(L.state, e, sessions[t].policy, cost)
  IN  log' = [log EXCEPT ![t] =
                IF fits THEN [state    |-> After(L.state, e, sessions[t].policy, cost),
                              expected |-> L.expected + 1, ok |-> TRUE]
                ELSE [L EXCEPT !.ok = FALSE]]

\* The event is applied to session t, which goes on at the given place.
Apply(t, e, at) ==
  LET x == sessions[t]
      n == After(x.state, e, x.policy, remainingBudgetCost(t))
  IN  /\ Accepts(x.state, e, x.policy, remainingBudgetCost(t))
      /\ sessions' = [sessions EXCEPT
           ![t] = [x EXCEPT !.state = n, !.at = at, !.sequence = @ + 1]]
      /\ persistStepEvent(t, e)

\* A task is started once: the log has one seed for it.
startTask(t, policy) ==
  /\ Settled
  /\ ~sessions[t].started
  /\ sessions' = [sessions EXCEPT ![t] = Session(t, policy)]
  /\ log' = [log EXCEPT ![t] = [@ EXCEPT !.expected = 1]]
  /\ UNCHANGED <<telling, execution>>

\* The parent, which awaits each applyEvent, sends an event to an idle session.
applyEvent(t, e) ==
  LET n == After(sessions[t].state, e, sessions[t].policy, remainingBudgetCost(t)) IN
  /\ Settled
  /\ sessions[t].started /\ sessions[t].at = "idle"
  /\ Apply(t, e, Continues(sessions[t].state, n, sessions[t].policy))
  /\ UNCHANGED <<telling, execution>>

\* The parent cancels one task, also while its work runs.
applyCancelled(t) ==
  /\ Settled
  /\ sessions[t].started
  /\ Apply(t, [kind |-> "cancelled"], sessions[t].at)
  /\ UNCHANGED <<telling, execution>>

\* The annotation of the superseded run is written.
annotated(t) ==
  /\ Settled
  /\ sessions[t].at = "annotating"
  /\ sessions' = [sessions EXCEPT
       ![t] = [@ EXCEPT !.at = "selecting", !.superseded = lastRunId(sessions[t].state),
                        !.pendingEscalationOf = lastRunId(sessions[t].state)]]
  /\ UNCHANGED <<telling, log, execution>>

----------------------------------------------------------------------------
\* Dispatches

\* Slip: the link to the superseded run is cleared with the other pending fields.
ForgetfulIdle(t) ==
  [sessions EXCEPT ![t] = [@ EXCEPT !.at = "idle", !.pendingEscalationOf = NoRun]]

IdleAgain(t) == [sessions EXCEPT ![t] = [@ EXCEPT !.at = "idle"]]

\* The parent may ask again for a selection that came to nothing.
MaySelect(t) ==
  \/ sessions[t].at = "selecting"
  \/ Settled /\ sessions[t].started /\ sessions[t].at = "idle"

AdmittedUnder(t) == Parent[t]

\* A stack is selected, admitted, logged and dispatched.
dispatchSelected(t, stack, checkout, perms) ==
  LET e == [kind |-> "dispatch-selected", stack |-> stack]
      x == sessions[t]
  IN
  /\ MaySelect(t)
  /\ ExcludedRung(x.state) \notin {stack[i] : i \in 1..Len(stack)}
  /\ Accepts(x.state, e, x.policy, remainingBudgetCost(t))
  /\ admitDispatch(t, AdmittedUnder(t), checkout, perms)
  /\ sessions' = [sessions EXCEPT ![t] =
       [x EXCEPT !.state = After(x.state, e, x.policy, remainingBudgetCost(t)),
                 !.at = "executing", !.sequence = @ + 1, !.dispatches = @ + 1,
                 !.pendingEscalationOf = NoRun, !.escalationOf = x.pendingEscalationOf]]
  /\ persistStepEvent(t, e)
  /\ execution' = [execution EXCEPT ![t] = NoDisposition]
  /\ UNCHANGED telling

\* Slip: the event is logged before the reservation.
LoggedBeforeReserve(t) ==
  persistStepEvent(t, [kind |-> "dispatch-selected", stack |-> CHOOSE stack \in Stacks : TRUE])

\* The record of a selection waits for the reservation.
LogOfDenied(t) == UNCHANGED log

\* The start is refused: the state is what it was and nothing is logged.
dispatchDenied(t, checkout, perms) ==
  /\ MaySelect(t)
  /\ CanSelect(sessions[t].state, sessions[t].policy)
  /\ admitDispatchDenied(t, AdmittedUnder(t), checkout, perms)
  /\ sessions' = IdleAgain(t)
  /\ LogOfDenied(t)
  /\ UNCHANGED <<telling, execution>>

\* The selection refuses, the task was cancelled meanwhile, or the dispatch is
\* not even queued.
notSelected(t) ==
  /\ sessions[t].at = "selecting"
  /\ sessions' = IdleAgain(t)
  /\ UNCHANGED vars /\ UNCHANGED <<telling, log, execution>>

\* The scheduler is told of an ended dispatch; its refusal is not looked at.
SchedulerAccepts(t) ==
  nodes[t].status = "active" /\ t \in ledgers[nodes[t].root].holders

CompleteIfTracked(t, actuals) ==
  IF SchedulerAccepts(t) THEN completeDispatch(t, actuals) ELSE UNCHANGED vars

\* Slip: cancelled work costs no call.
CancelFree(t, actuals) ==
  IF SchedulerAccepts(t) THEN cancelDispatch(t, [actuals EXCEPT !["call"] = 0]) ELSE UNCHANGED vars

CancelIfTracked(t, actuals) ==
  IF SchedulerAccepts(t) THEN cancelDispatch(t, actuals) ELSE UNCHANGED vars

Actuals(report) == IF report = NoReport THEN DefaultActuals ELSE report

\* Slip: a retryable failure is thought to go on.
ClosingButRetryable == {"null", "terminal"}

\* The dispositions after which completeDispatch is called.
Closing == {"null", "terminal", "retryable"}

\* executeDispatch returns to a session that was cancelled, whatever the disposition.
returnedCancelled(t, report) ==
  /\ Settled
  /\ sessions[t].at = "executing"
  /\ sessions[t].state.name = "cancelled"
  /\ CancelIfTracked(t, Actuals(report))
  /\ sessions' = IdleAgain(t)
  /\ UNCHANGED <<telling, log, execution>>

\* executeDispatch returns; a dispatched check has no event of its own.
returned(t, disposition, report) ==
  LET x == sessions[t]
      e == [kind |-> "dispatch-completed", runId |-> x.dispatches, disposition |-> disposition]
      n == After(x.state, e, x.policy, remainingBudgetCost(t))
  IN
  /\ Settled
  /\ x.at = "executing"
  /\ x.state.name # "cancelled"
  /\ IF disposition \in Closing THEN CompleteIfTracked(t, Actuals(report)) ELSE UNCHANGED vars
  /\ IF CanComplete(x.state)
     THEN Apply(t, e, Continues(x.state, n, x.policy))
     ELSE sessions' = IdleAgain(t) /\ UNCHANGED log
  /\ execution' = [execution EXCEPT ![t] = disposition]
  /\ UNCHANGED telling

----------------------------------------------------------------------------
\* Cancelling a root

Told(t) == sessions[t].started /\ sessions[t].state.name # "cancelled"

\* One session hears that its root is cancelled.
Tell(t) ==
  IF Told(t) THEN Apply(t, [kind |-> "cancelled"], sessions[t].at)
  ELSE UNCHANGED <<sessions, log>>

\* Slip: the loop over the cancelled tasks ends after one.
NobodyLater(told, first) == {}

ToldLater(told, first) == told \ {first}

\* The scheduler cancels the root, which goes through at once; its tasks are
\* told one after another, the first in the same stretch.
cancelRootAndTell(r) ==
  LET told == {t \in Cancellable(r) : Told(t)} IN
  /\ Settled
  /\ cancelRoot(r, [t \in Tasks |-> UnknownActuals])
  /\ \/ told = {} /\ UNCHANGED <<sessions, log, telling>>
     \/ \E first \in told : Tell(first) /\ telling' = telling \cup ToldLater(told, first)
  /\ UNCHANGED execution

tellNext(t) ==
  /\ Settled
  /\ t \in telling
  /\ Tell(t)
  /\ telling' = telling \ {t}
  /\ UNCHANGED vars /\ UNCHANGED execution

----------------------------------------------------------------------------
OrchestratorNext ==
  \/ \E t \in Tasks :
       \/ UNCHANGED vars /\ \E policy \in Policies : startTask(t, policy)
       \/ UNCHANGED vars /\ \E e \in ParentEvents : applyEvent(t, e)
       \/ UNCHANGED vars /\ applyCancelled(t)
       \/ UNCHANGED vars /\ annotated(t)
       \/ \E c \in Checkouts, perms \in PermissionChoices :
            \/ \E stack \in Stacks : dispatchSelected(t, stack, c, perms)
            \/ dispatchDenied(t, c, perms)
       \/ notSelected(t)
       \/ \E report \in Reports :
            \/ returnedCancelled(t, report)
            \/ \E disposition \in Dispositions : returned(t, disposition, report)
       \/ cancelRootAndTell(t)
       \/ tellNext(t)
  \/ Settled /\ Tick /\ UNCHANGED <<sessions, telling, log, execution>>

OrchestratorSpec == OrchestratorInit /\ [][OrchestratorNext]_orchestratorVars

\* Code that runs goes on, and cancelRoot tells on.  An executor is not bound to return,
\* its deadline is optional: only those of the tasks in Returning are taken to.
Returns(t) ==
  \E report \in Reports : \/ returnedCancelled(t, report)
                          \/ \E disposition \in Dispositions : returned(t, disposition, report)

OrchestratorFairness ==
  \A t \in Tasks :
    /\ t \in Returning => WF_orchestratorVars(Returns(t))
    /\ WF_orchestratorVars(UNCHANGED vars /\ annotated(t))
    /\ WF_orchestratorVars(notSelected(t))
    /\ WF_orchestratorVars(tellNext(t))

OrchestratorFairSpec == OrchestratorSpec /\ OrchestratorFairness

----------------------------------------------------------------------------
\* Properties

OrchestratorTypeOK ==
  /\ TypeOK
  /\ sessions \in [Tasks -> TaskSession]
  /\ telling \subseteq Tasks
  /\ log \in [Tasks -> [state : TaskState, expected : Nat, ok : BOOLEAN]]
  /\ execution \in [Tasks -> FailureDisposition \cup {NoDisposition}]

\* No dispatch leaks: a task the scheduler counts as running is one whose
\* executeDispatch is being awaited, so its slot and its reservation come back.
ActiveIsAwaited ==
  \A t \in Active : sessions[t].at = "executing"

\* The dispositions the driver does not close a dispatch on.
LeftOpen == {"terminal-unclassified", "terminal-completed-low-quality"}

\* A dispatch leaks in one way only: its executor returned a disposition of LeftOpen
\* to a task that was not cancelled.  Every other running task is still awaited, and
\* while it is nobody but a cancellation takes its slot away.
ActiveIsAccountedFor ==
  \A t \in Tasks :
    /\ t \in Active => sessions[t].at = "executing" \/ execution[t] \in LeftOpen
    /\ sessions[t].at = "executing" => nodes[t].status \in {"active", "cancelled"}

\* The log replays to the session, through rolled-back admissions and through
\* results that come in after a cancellation: no record is missing, none too
\* many, none out of sequence.
LogReplays ==
  \A t \in Tasks : sessions[t].started =>
    /\ log[t].ok
    /\ log[t].expected = sessions[t].sequence
    /\ log[t].state = sessions[t].state

\* No cancellation is forgotten: when a dispatch is cancelled its task is so already, is
\* told in the same stretch, or is on the list of those cancelRoot has yet to tell,
\* which it leaves only told.  The cascade of an exhausted wall time tells nobody.
CancellationsTold ==
  [][\A t \in Tasks :
       /\ isTaskTracked(t) /\ nodes'[t].status = "cancelled" =>
            \/ sessions'[t].state.name = "cancelled"
            \/ t \in telling'
            \/ cancelled'[nodes[t].root] = ROOT_WALL_TIME_EXHAUSTED_REASON
       /\ t \in telling /\ t \notin telling' => sessions'[t].state.name = "cancelled"
    ]_orchestratorVars

\* The task of a cancelled dispatch is cancelled, once those who are being told have been
\* and what is awaited has returned: what the documents say of a root's cancellation.
CancellationPropagated ==
  \A t \in Tasks :
    nodes[t].status = "cancelled" /\ t \notin telling /\ sessions[t].at # "executing" =>
      sessions[t].state.name = "cancelled"

\* The work of a cancelled task is never put down as completed, even when its
\* result comes in long after.
CancelledWorkNotCompleted ==
  [][\A t \in Active : sessions[t].state.name = "cancelled" =>
       nodes'[t].status \in {"active", "cancelled"}]_orchestratorVars

\* The dispatch that follows an escalation names the run it supersedes, also
\* when it took several attempts to be admitted, and no later one does.
EscalationLinked ==
  \A t \in Tasks :
    LET x == sessions[t]
        isSuperseded == x.state.runIds # <<>> /\ lastRunId(x.state) = x.superseded
    IN  /\ x.state.name = "dispatch" /\ x.at \notin {"annotating", "executing"} /\ isSuperseded =>
             x.pendingEscalationOf = x.superseded
        /\ x.state.name = "dispatch" /\ x.at = "executing" =>
             x.escalationOf = IF isSuperseded THEN x.superseded ELSE NoRun

\* Every admitted dispatch is charged to its root once, and nothing else is:
\* the calls consumed and in flight are the dispatches of the root's sessions.
\* (For executors that report one call, as the default actuals do.)
DispatchesCharged ==
  \A r \in Tasks : ledgers[r].open =>
    ledgers[r].consumed["call"] + Cardinality(ledgers[r].holders)
      = SumFunctionOnSet([t \in Tasks |-> sessions[t].dispatches],
                         {t \in Tasks : RootIdentity[t] = r})

\* Every task that cancelRoot has on its list hears of it.
CancellationReachesTask == \A t \in Tasks : t \in telling ~> sessions[t].state.name = "cancelled"

\* Every dispatch whose executor comes back gives its slot back, unless it came back with
\* a disposition the driver leaves open.
DispatchEnds ==
  \A t \in Returning : t \in Active ~> t \notin Active \/ execution[t] \in LeftOpen

\* At every await the sessions are well formed and every running dispatch is accounted for.
SessionInvariant == OrchestratorTypeOK /\ ActiveIsAccountedFor

\* Dispatches end and cancellations arrive, though some executors never return.
AwaitsSettle == DispatchEnds /\ CancellationReachesTask
=============================================================================
