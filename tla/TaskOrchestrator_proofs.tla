----------------------- MODULE TaskOrchestrator_proofs -----------------------
(***************************************************************************)
(* What the driver does to the scheduler underneath and to its log, for    *)
(* every set of tasks, policies, stacks and limits; then escalations,      *)
(* cancellations and charges, each with the invariant it needs.            *)
(***************************************************************************)
EXTENDS TaskOrchestrator, DelegationScheduler_proofs, SequenceTheorems

----------------------------------------------------------------------------
\* The scheduler underneath

\* A session has one parent for good, so the assumption of the scheduler's
\* theorems holds.
LEMMA ParentIsFixed == RootsStayRoots
BY OrchestratorAssumption DEF RootsStayRoots

\* What an executor reports, or the default, is an actual.
LEMMA ReportedActuals ==
  ASSUME NEW report \in Reports
  PROVE  Actuals(report) \in ActualsChoices
BY OrchestratorAssumption DEF Actuals

\* Every step of the driver is a step of the scheduler or leaves it alone.
LEMMA SchedulerStep ==
  ASSUME [OrchestratorNext]_orchestratorVars
  PROVE  [Next]_vars
<1>1. CASE UNCHANGED orchestratorVars
  BY <1>1 DEF orchestratorVars, vars
<1>2. ASSUME NEW t \in Tasks, NEW c \in Checkouts, NEW perms \in PermissionChoices,
             \/ \E stack \in Stacks : dispatchSelected(t, stack, c, perms)
             \/ dispatchDenied(t, c, perms)
      PROVE  Next
  <2>1. /\ Parent[t] \in ParentChoices[t]
        /\ AdmittedUnder(t) = Parent[t]
    BY OrchestratorAssumption DEF AdmittedUnder
  <2>2. \/ admitDispatch(t, Parent[t], c, perms)
        \/ admitDispatchDenied(t, Parent[t], c, perms)
    BY <1>2, <2>1 DEF dispatchSelected, dispatchDenied
  <2> QED
    BY <2>1, <2>2 DEF Next
<1>3. ASSUME NEW t \in Tasks, NEW report \in Reports,
             \/ returnedCancelled(t, report)
             \/ \E disposition \in Dispositions : returned(t, disposition, report)
      PROVE  [Next]_vars
  <2>1. \/ completeDispatch(t, Actuals(report))
        \/ cancelDispatch(t, Actuals(report))
        \/ UNCHANGED vars
    BY <1>3 DEF returnedCancelled, returned, CompleteIfTracked, CancelIfTracked
  <2> QED
    BY <2>1, ReportedActuals DEF Next
<1>4. ASSUME NEW r \in Tasks, cancelRootAndTell(r)
      PROVE  Next
  BY <1>4 DEF cancelRootAndTell, Next
<1>5. CASE Tick
  BY <1>5 DEF Next
<1>6. ASSUME NEW t \in Tasks, notSelected(t) \/ tellNext(t)
      PROVE  UNCHANGED vars
  BY <1>6 DEF notSelected, tellNext
<1> QED
  BY <1>1, <1>2, <1>3, <1>4, <1>5, <1>6 DEF OrchestratorNext

\* The driver steps the scheduler only through its methods, so what is proved of the
\* scheduler's specification holds under it (task-orchestrator.ts:274-356, 479-500).
LEMMA DriverSchedules == OrchestratorSpec => Spec
<1>1. OrchestratorInit => Init
  BY DEF OrchestratorInit
<1>2. [OrchestratorNext]_orchestratorVars => [Next]_vars
  BY SchedulerStep
<1> QED
  BY <1>1, <1>2, PTL DEF OrchestratorSpec, Spec

\* So the scheduler's invariants hold under the driver, with no assumption
\* left about its callers.
LEMMA SchedulerInvariant == OrchestratorSpec => []IndInv
BY DriverSchedules, ParentIsFixed, SpecIndInv, PTL

----------------------------------------------------------------------------
\* The reducer keeps the type of the state

\* An accepted event leads to a task state, and no run is forgotten.
LEMMA AfterType ==
  ASSUME NEW s \in TaskState, NEW e \in TaskEvent, NEW policy \in TaskPolicy, NEW cost,
         Accepts(s, e, policy, cost)
  PROVE  LET n == After(s, e, policy, cost) IN
         n \in TaskState /\ (s.runIds # <<>> => n.runIds # <<>>)
<1> DEFINE Good(n) == n \in TaskState /\ (s.runIds # <<>> => n.runIds # <<>>)
<1>1. CASE e.kind = "classified"
  <2>1. e.route \in CapabilityRoute /\ e.floor \in CapabilityBand
    BY <1>1 DEF TaskEvent, ParentEvent
  <2>2. Good(Classified(s, e.route, e.floor))
    BY <2>1 DEF Classified, TaskState, TaskStateName
  <2> QED
    BY <1>1, <2>2 DEF After
<1>2. CASE e.kind = "planned"
  <2>1. Good(Planned(s))
    BY DEF Planned, TaskState, TaskStateName
  <2> QED
    BY <1>2, <2>1 DEF After
<1>3. CASE e.kind \in {"decomposed", "escalation-denied", "cancelled", "ship-authorized"}
  <2>1. \A name \in TaskStateName : Good([s EXCEPT !.name = name])
    BY DEF TaskState
  <2> QED
    BY <1>3, <2>1 DEF After, Decomposed, EscalationDenied, Cancelled, Shipped, TaskStateName
<1>4. CASE e.kind = "dispatch-selected"
  <2>1. e.stack \in Seq(RungIds) \ {<<>>}
    BY <1>4 DEF TaskEvent, ParentEvent
  <2>2. Selected(s, e.stack) \in TaskState
    <3>1. e.stack[1] \in RungIds
      BY <2>1
    <3> QED
      BY <3>1 DEF Selected, TaskState
  <2>3. Selected(s, e.stack).runIds = s.runIds
    BY DEF Selected, TaskState
  <2> QED
    BY <1>4, <2>2, <2>3 DEF After
<1>5. CASE e.kind = "dispatch-completed"
  <2>1. e.runId \in Nat /\ e.disposition \in FailureDisposition
    BY <1>5 DEF TaskEvent, ParentEvent
  <2>2. CanComplete(s)
    BY <1>5 DEF Accepts
  <2>3. Completed(s, e.runId, e.disposition, policy) \in TaskState
    <3>1. CompletedName(s, e.disposition, policy) \in TaskStateName
      BY <2>2 DEF CanComplete, CompletedName, TaskStateName
    <3>2. Append(s.runIds, e.runId) \in Seq(Nat)
      BY <2>1 DEF TaskState
    <3> QED
      BY <3>1, <3>2 DEF Completed, TaskState
  <2>4. Completed(s, e.runId, e.disposition, policy).runIds # <<>>
    BY <2>1 DEF Completed, TaskState
  <2> QED
    BY <1>5, <2>3, <2>4 DEF After
<1>6. CASE e.kind = "verified"
  <2>1. e.verdict \in VerdictKind
    BY <1>6 DEF TaskEvent, ParentEvent
  <2>2. VerifiedName(s, e.verdict, policy, cost) \in TaskStateName
    BY <2>1 DEF VerifiedName, VerdictKind, TaskStateName
  <2>3. s.replansUsed + 1 \in Nat
    BY DEF TaskState
  <2>4. Good(Verified(s, e.verdict, policy, cost))
    BY <2>2, <2>3 DEF Verified, TaskState
  <2> QED
    BY <1>6, <2>4 DEF After
<1>7. CASE e.kind = "escalation-authorized"
  <2>1. e.toBand \in CapabilityBand
    BY <1>7 DEF TaskEvent, ParentEvent
  <2>2. s.escalationsUsed + 1 \in Nat
    BY DEF TaskState
  <2>3. Good(EscalationAuthorized(s, e.toBand))
    BY <2>1, <2>2 DEF EscalationAuthorized, TaskState, TaskStateName
  <2> QED
    BY <1>7, <2>3 DEF After
<1>8. e.kind \in {"classified", "planned", "decomposed", "dispatch-selected",
                  "dispatch-completed", "verified", "escalation-authorized",
                  "escalation-denied", "cancelled", "ship-authorized"}
  BY DEF TaskEvent, ParentEvent
<1> QED
  BY <1>1, <1>2, <1>3, <1>4, <1>5, <1>6, <1>7, <1>8

----------------------------------------------------------------------------
\* Sessions and their log

DriverTypeOK ==
  /\ sessions \in [Tasks -> TaskSession]
  /\ telling \subseteq Tasks
  /\ log \in [Tasks -> [state : TaskState, expected : Nat, ok : BOOLEAN]]

\* Only a started session is anywhere but idle, a superseded run is there
\* to be annotated, and the log of a task to come holds nothing.
SessionsStarted ==
  \A t \in Tasks :
    /\ sessions[t].at # "idle" => sessions[t].started
    /\ sessions[t].at = "annotating" => sessions[t].state.runIds # <<>>
    /\ ~sessions[t].started =>
         log[t] = [state |-> IntakeState(t), expected |-> 0, ok |-> TRUE]

DriverInv == DriverTypeOK /\ SessionsStarted /\ LogReplays

LEMMA IntakeType ==
  ASSUME NEW t \in Tasks
  PROVE  IntakeState(t) \in TaskState
BY OrchestratorAssumption, EmptySeq
   DEF IntakeState, TaskState, TaskStateName, CapabilityRoute, CapabilityBand

LEMMA SessionType ==
  ASSUME NEW t \in Tasks, NEW policy \in Policies
  PROVE  Session(t, policy) \in TaskSession
BY IntakeType DEF Session, TaskSession, NoRun

\* An event the reducer accepts, persisted with the session it moves, keeps
\* the log in step.
LEMMA EventStep ==
  ASSUME DriverInv, NEW t \in Tasks, NEW e \in TaskEvent, NEW x \in TaskSession,
         sessions[t].started,
         Accepts(sessions[t].state, e, sessions[t].policy, remainingBudgetCost(t)),
         x.started,
         x.state = After(sessions[t].state, e, sessions[t].policy, remainingBudgetCost(t)),
         x.sequence = sessions[t].sequence + 1,
         x.at = "annotating" => sessions[t].state.runIds # <<>>,
         sessions' = [sessions EXCEPT ![t] = x],
         persistStepEvent(t, e),
         telling' \subseteq Tasks
  PROVE  DriverInv'
<1> DEFINE cost == remainingBudgetCost(t)
           s == sessions[t].state
           n == After(s, e, sessions[t].policy, cost)
           entry == [state |-> n, expected |-> log[t].expected + 1, ok |-> TRUE]
<1>1. sessions[t] \in TaskSession /\ sessions[t].policy \in TaskPolicy /\ s \in TaskState
  BY OrchestratorAssumption DEF DriverInv, DriverTypeOK, TaskSession
<1>2. n \in TaskState /\ (s.runIds # <<>> => n.runIds # <<>>)
  BY <1>1, AfterType
<1>3. /\ log[t].ok /\ log[t].expected = sessions[t].sequence /\ log[t].state = s
      /\ log[t].expected \in Nat /\ log[t].expected + 1 \in Nat
  BY DEF DriverInv, DriverTypeOK, LogReplays
<1> HIDE DEF n, s, cost
<1>4. log' = [log EXCEPT ![t] = entry]
  BY <1>3 DEF persistStepEvent, n, s, cost
<1>5. x.state = n
  BY DEF n, s, cost
<1>6. entry \in [state : TaskState, expected : Nat, ok : BOOLEAN]
  BY <1>2, <1>3
<1> HIDE DEF entry
<1>7. /\ \A u \in Tasks : log'[u] = IF u = t THEN entry ELSE log[u]
      /\ \A u \in Tasks : sessions'[u] = IF u = t THEN x ELSE sessions[u]
  BY <1>4 DEF DriverInv, DriverTypeOK
<1>8. DriverTypeOK'
  BY <1>4, <1>6 DEF DriverInv, DriverTypeOK
<1>9. SessionsStarted'
  <2> SUFFICES ASSUME NEW u \in Tasks
      PROVE  /\ sessions'[u].at # "idle" => sessions'[u].started
             /\ sessions'[u].at = "annotating" => sessions'[u].state.runIds # <<>>
             /\ ~sessions'[u].started =>
                  log'[u] = [state |-> IntakeState(u), expected |-> 0, ok |-> TRUE]
    BY DEF SessionsStarted, IntakeState
  <2>1. CASE u = t
    BY <1>2, <1>5, <1>7, <2>1 DEF s
  <2>2. CASE u # t
    BY <1>7, <2>2 DEF DriverInv, SessionsStarted
  <2> QED
    BY <2>1, <2>2
<1>10. LogReplays'
  <2> SUFFICES ASSUME NEW u \in Tasks, sessions'[u].started
      PROVE  log'[u].ok /\ log'[u].expected = sessions'[u].sequence
                        /\ log'[u].state = sessions'[u].state
    BY DEF LogReplays
  <2>1. CASE u = t
    BY <1>3, <1>5, <1>7, <2>1 DEF entry
  <2>2. CASE u # t
    BY <1>7, <2>2 DEF DriverInv, LogReplays
  <2> QED
    BY <2>1, <2>2
<1> QED
  BY <1>8, <1>9, <1>10 DEF DriverInv

\* A session that goes elsewhere with its state and its log as they are.
LEMMA MoveStep ==
  ASSUME DriverInv, NEW t \in Tasks, NEW x \in TaskSession,
         sessions[t].started, x.started,
         x.state = sessions[t].state, x.sequence = sessions[t].sequence,
         x.at # "annotating",
         sessions' = [sessions EXCEPT ![t] = x],
         log' = log, telling' \subseteq Tasks
  PROVE  DriverInv'
<1>1. \A u \in Tasks : sessions'[u] = IF u = t THEN x ELSE sessions[u]
  BY DEF DriverInv, DriverTypeOK
<1>2. DriverTypeOK'
  BY DEF DriverInv, DriverTypeOK
<1>3. SessionsStarted'
  BY <1>1 DEF DriverInv, SessionsStarted, IntakeState
<1>4. LogReplays'
  BY <1>1 DEF DriverInv, LogReplays
<1> QED
  BY <1>2, <1>3, <1>4 DEF DriverInv

\* Where a session goes on without a selection is a place of its type.
LEMMA ContinuesAt ==
  ASSUME NEW s, NEW n, NEW policy, s.runIds \in Seq(Nat)
  PROVE  /\ Continues(s, n, policy) \in {"idle", "annotating", "selecting"}
         /\ Continues(s, n, policy) = "annotating" => s.runIds # <<>>
<1>1. s.runIds = <<>> => Len(s.runIds) = 0
  OBVIOUS
<1> QED
  BY <1>1 DEF Continues

\* Apply keeps the invariant, wherever the session goes on.
LEMMA ApplyStep ==
  ASSUME DriverInv, NEW t \in Tasks, NEW e \in TaskEvent,
         NEW at \in {"idle", "selecting", "annotating", "executing"},
         sessions[t].started, Apply(t, e, at),
         at = "annotating" => sessions[t].state.runIds # <<>>,
         telling' \subseteq Tasks
  PROVE  DriverInv'
<1> DEFINE n == After(sessions[t].state, e, sessions[t].policy, remainingBudgetCost(t))
           x == [sessions[t] EXCEPT !.state = n, !.at = at, !.sequence = @ + 1]
<1>1. /\ Accepts(sessions[t].state, e, sessions[t].policy, remainingBudgetCost(t))
      /\ sessions' = [sessions EXCEPT ![t] = x]
      /\ persistStepEvent(t, e)
  BY DEF Apply
<1>2. /\ sessions[t] \in TaskSession /\ sessions[t].policy \in TaskPolicy
      /\ sessions[t].state \in TaskState
  BY OrchestratorAssumption DEF DriverInv, DriverTypeOK, TaskSession
<1>3. n \in TaskState
  BY <1>1, <1>2, AfterType
<1> HIDE DEF n
<1>4. /\ x \in TaskSession /\ x.started /\ x.state = n /\ x.at = at
      /\ x.sequence = sessions[t].sequence + 1
  <2>1. sessions[t].sequence + 1 \in Nat
    BY <1>2 DEF TaskSession
  <2> QED
    BY <1>2, <1>3, <2>1 DEF TaskSession
<1> HIDE DEF x
<1> QED
  BY <1>1, <1>4, EventStep DEF n

\* A cancelled event, applied or not needed, keeps the invariant.
LEMMA TellStep ==
  ASSUME DriverInv, NEW t \in Tasks, Tell(t), telling' \subseteq Tasks
  PROVE  DriverInv'
<1>1. [kind |-> "cancelled"] \in TaskEvent
  BY DEF TaskEvent, ParentEvent
<1>2. /\ sessions[t].at \in {"idle", "selecting", "annotating", "executing"}
      /\ sessions[t].at = "annotating" => sessions[t].state.runIds # <<>>
  BY DEF DriverInv, DriverTypeOK, SessionsStarted, TaskSession
<1>3. CASE Told(t)
  BY <1>1, <1>2, <1>3, ApplyStep DEF Tell, Told
<1>4. CASE ~Told(t)
  BY <1>4 DEF Tell, DriverInv, DriverTypeOK, SessionsStarted, LogReplays, IntakeState
<1> QED
  BY <1>3, <1>4

\* A task that starts has an empty log with its seed.
LEMMA StartTaskStep ==
  ASSUME DriverInv, NEW t \in Tasks, NEW policy \in Policies, startTask(t, policy)
  PROVE  DriverInv'
<1> DEFINE x == Session(t, policy)
           entry == [log[t] EXCEPT !.expected = 1]
<1>1. log[t] = [state |-> IntakeState(t), expected |-> 0, ok |-> TRUE]
  BY DEF startTask, DriverInv, SessionsStarted
<1>2. log' = [log EXCEPT ![t] = entry] /\ sessions' = [sessions EXCEPT ![t] = x]
  BY DEF startTask
<1>3. /\ x \in TaskSession /\ x.started /\ x.at = "idle"
      /\ x.state = IntakeState(t) /\ x.sequence = 1
  BY SessionType DEF Session
<1>4. /\ entry \in [state : TaskState, expected : Nat, ok : BOOLEAN]
      /\ entry.ok /\ entry.expected = 1 /\ entry.state = IntakeState(t)
  <2>1. log[t] \in [state : TaskState, expected : Nat, ok : BOOLEAN]
    BY DEF DriverInv, DriverTypeOK
  <2>2. log[t].ok /\ log[t].state = IntakeState(t)
    BY <1>1
  <2> QED
    BY <2>1, <2>2
<1> HIDE DEF x, entry
<1>5. \A u \in Tasks : /\ sessions'[u] = IF u = t THEN x ELSE sessions[u]
                       /\ log'[u] = IF u = t THEN entry ELSE log[u]
  BY <1>2 DEF DriverInv, DriverTypeOK
<1>6. DriverTypeOK'
  BY <1>2, <1>3, <1>4 DEF DriverInv, DriverTypeOK, startTask
<1>7. SessionsStarted'
  BY <1>3, <1>5 DEF DriverInv, SessionsStarted, IntakeState
<1>8. LogReplays'
  BY <1>3, <1>4, <1>5 DEF DriverInv, LogReplays
<1> QED
  BY <1>6, <1>7, <1>8 DEF DriverInv

\* A selection is admitted and logged.
LEMMA DispatchStep ==
  ASSUME DriverInv, NEW t \in Tasks, NEW stack \in Stacks, NEW c, NEW perms,
         dispatchSelected(t, stack, c, perms)
  PROVE  DriverInv'
<1> DEFINE e == [kind |-> "dispatch-selected", stack |-> stack]
           n == After(sessions[t].state, e, sessions[t].policy, remainingBudgetCost(t))
           x == [sessions[t] EXCEPT
                  !.state = n, !.at = "executing", !.sequence = @ + 1, !.dispatches = @ + 1,
                  !.pendingEscalationOf = NoRun, !.escalationOf = sessions[t].pendingEscalationOf]
<1>1. /\ Accepts(sessions[t].state, e, sessions[t].policy, remainingBudgetCost(t))
      /\ sessions' = [sessions EXCEPT ![t] = x]
      /\ persistStepEvent(t, e)
      /\ telling' = telling
  BY DEF dispatchSelected
<1>2. /\ sessions[t] \in TaskSession /\ sessions[t].policy \in TaskPolicy
      /\ sessions[t].state \in TaskState
  BY OrchestratorAssumption DEF DriverInv, DriverTypeOK, TaskSession
<1>3. sessions[t].started
  BY DEF dispatchSelected, MaySelect, DriverInv, SessionsStarted
<1>4. e \in TaskEvent
  BY OrchestratorAssumption DEF TaskEvent
<1>5. n \in TaskState
  BY <1>1, <1>2, <1>4, AfterType
<1> HIDE DEF n
<1>6. /\ x \in TaskSession /\ x.started /\ x.state = n /\ x.at = "executing"
      /\ x.sequence = sessions[t].sequence + 1
  <2>1. sessions[t].sequence + 1 \in Nat /\ sessions[t].dispatches + 1 \in Nat
    BY <1>2 DEF TaskSession
  <2> QED
    BY <1>2, <1>3, <1>5, <2>1 DEF TaskSession, NoRun
<1> HIDE DEF x, e
<1> QED
  BY <1>1, <1>3, <1>4, <1>6, EventStep DEF n, DriverInv, DriverTypeOK

\* A session that is idle again keeps its state and its log.
LEMMA IdleAgainStep ==
  ASSUME DriverInv, NEW t \in Tasks, sessions[t].started,
         sessions' = IdleAgain(t), UNCHANGED <<telling, log>>
  PROVE  DriverInv'
<1> DEFINE x == [sessions[t] EXCEPT !.at = "idle"]
<1>1. /\ x \in TaskSession /\ x.started /\ x.at = "idle"
      /\ x.state = sessions[t].state /\ x.sequence = sessions[t].sequence
  BY DEF DriverInv, DriverTypeOK, TaskSession
<1>2. sessions' = [sessions EXCEPT ![t] = x] /\ telling' \subseteq Tasks
  BY DEF IdleAgain, DriverInv, DriverTypeOK
<1> HIDE DEF x
<1> QED
  BY <1>1, <1>2, MoveStep

LEMMA AnnotatedStep ==
  ASSUME DriverInv, NEW t \in Tasks, annotated(t)
  PROVE  DriverInv'
<1> DEFINE last == lastRunId(sessions[t].state)
           x == [sessions[t] EXCEPT !.at = "selecting", !.superseded = last,
                                    !.pendingEscalationOf = last]
<1>1. last \in Nat
  <2>1. sessions[t].state.runIds \in Seq(Nat) /\ sessions[t].state.runIds # <<>>
    BY DEF annotated, DriverInv, DriverTypeOK, SessionsStarted, TaskSession, TaskState
  <2> QED
    BY <2>1 DEF lastRunId
<1> HIDE DEF last
<1>2. /\ x \in TaskSession /\ x.at = "selecting"
      /\ x.state = sessions[t].state /\ x.sequence = sessions[t].sequence
      /\ x.started = sessions[t].started
  BY <1>1 DEF DriverInv, DriverTypeOK, TaskSession
<1>3. sessions[t].started
  BY DEF annotated, DriverInv, SessionsStarted
<1>4. /\ sessions' = [sessions EXCEPT ![t] = x]
      /\ log' = log /\ telling' \subseteq Tasks
  BY DEF annotated, last, DriverInv, DriverTypeOK
<1> HIDE DEF x
<1> QED
  BY <1>2, <1>3, <1>4, MoveStep

\* A result is applied, or the session is idle again.
LEMMA ReturnedStep ==
  ASSUME DriverInv, NEW t \in Tasks, NEW disposition \in Dispositions, NEW report,
         returned(t, disposition, report)
  PROVE  DriverInv'
<1> DEFINE e == [kind |-> "dispatch-completed", runId |-> sessions[t].dispatches,
                 disposition |-> disposition]
           n == After(sessions[t].state, e, sessions[t].policy, remainingBudgetCost(t))
           at == Continues(sessions[t].state, n, sessions[t].policy)
<1>1. sessions[t].started /\ telling' = telling
  BY DEF returned, DriverInv, SessionsStarted
<1>2. \/ Apply(t, e, at)
      \/ sessions' = IdleAgain(t) /\ log' = log
  BY DEF returned
<1>3. e \in TaskEvent
  BY OrchestratorAssumption DEF TaskEvent, DriverInv, DriverTypeOK, TaskSession
<1>4. /\ at \in {"idle", "selecting", "annotating", "executing"}
      /\ at = "annotating" => sessions[t].state.runIds # <<>>
  <2>1. sessions[t].state.runIds \in Seq(Nat)
    BY DEF DriverInv, DriverTypeOK, TaskSession, TaskState
  <2> HIDE DEF n
  <2> QED
    BY <2>1, ContinuesAt
<1> HIDE DEF at, e
<1> QED
  BY <1>1, <1>2, <1>3, <1>4, ApplyStep, IdleAgainStep DEF DriverInv, DriverTypeOK

LEMMA ApplyEventStep ==
  ASSUME DriverInv, NEW t \in Tasks, NEW e \in ParentEvents, applyEvent(t, e)
  PROVE  DriverInv'
<1> DEFINE n == After(sessions[t].state, e, sessions[t].policy, remainingBudgetCost(t))
           at == Continues(sessions[t].state, n, sessions[t].policy)
<1>1. sessions[t].started /\ Apply(t, e, at) /\ telling' \subseteq Tasks
  BY DEF applyEvent, DriverInv, DriverTypeOK
<1>2. e \in TaskEvent
  BY OrchestratorAssumption DEF TaskEvent
<1>3. /\ at \in {"idle", "selecting", "annotating", "executing"}
      /\ at = "annotating" => sessions[t].state.runIds # <<>>
  <2>1. sessions[t].state.runIds \in Seq(Nat)
    BY DEF DriverInv, DriverTypeOK, TaskSession, TaskState
  <2> HIDE DEF n
  <2> QED
    BY <2>1, ContinuesAt
<1> HIDE DEF at
<1> QED
  BY <1>1, <1>2, <1>3, ApplyStep

\* Every step of the driver keeps its invariant.
LEMMA DriverStep ==
  ASSUME DriverInv, [OrchestratorNext]_orchestratorVars
  PROVE  DriverInv'
<1>1. CASE UNCHANGED <<sessions, telling, log>>
  BY <1>1 DEF DriverInv, DriverTypeOK, SessionsStarted, LogReplays, IntakeState
<1>2. ASSUME NEW t \in Tasks, applyCancelled(t)
      PROVE  DriverInv'
  <2>1. [kind |-> "cancelled"] \in TaskEvent
    BY DEF TaskEvent, ParentEvent
  <2>2. /\ sessions[t].at \in {"idle", "selecting", "annotating", "executing"}
        /\ sessions[t].at = "annotating" => sessions[t].state.runIds # <<>>
        /\ telling' \subseteq Tasks
    BY <1>2 DEF applyCancelled, DriverInv, DriverTypeOK, SessionsStarted, TaskSession
  <2> QED
    BY <1>2, <2>1, <2>2, ApplyStep DEF applyCancelled
<1>3. ASSUME NEW t \in Tasks, NEW c, NEW perms, dispatchDenied(t, c, perms)
      PROVE  DriverInv'
  <2>1. sessions[t].started
    BY <1>3 DEF dispatchDenied, MaySelect, DriverInv, SessionsStarted
  <2> QED
    BY <1>3, <2>1, IdleAgainStep DEF dispatchDenied, LogOfDenied
<1>4. ASSUME NEW t \in Tasks, notSelected(t)
      PROVE  DriverInv'
  <2>1. sessions[t].started
    BY <1>4 DEF notSelected, DriverInv, SessionsStarted
  <2> QED
    BY <1>4, <2>1, IdleAgainStep DEF notSelected
<1>5. ASSUME NEW t \in Tasks, NEW report, returnedCancelled(t, report)
      PROVE  DriverInv'
  <2>1. sessions[t].started
    BY <1>5 DEF returnedCancelled, DriverInv, SessionsStarted
  <2> QED
    BY <1>5, <2>1, IdleAgainStep DEF returnedCancelled
<1>6. ASSUME NEW t \in Tasks, cancelRootAndTell(t)
      PROVE  DriverInv'
  <2> DEFINE told == {u \in Cancellable(t) : Told(u)}
  <2>1. told \subseteq Tasks
    BY <1>6 DEF Cancellable, TrackedUnder
  <2>2. CASE UNCHANGED <<sessions, log, telling>>
    BY <1>1, <2>2
  <2>3. ASSUME NEW first \in told, Tell(first), telling' = telling \cup ToldLater(told, first)
        PROVE  DriverInv'
    <3>1. telling' \subseteq Tasks
      BY <2>1, <2>3 DEF ToldLater, DriverInv, DriverTypeOK
    <3> QED
      BY <2>1, <2>3, <3>1, TellStep
  <2> QED
    BY <1>6, <2>2, <2>3 DEF cancelRootAndTell
<1>7. ASSUME NEW t \in Tasks, tellNext(t)
      PROVE  DriverInv'
  <2>1. telling' \subseteq Tasks
    BY <1>7 DEF tellNext, DriverInv, DriverTypeOK
  <2> QED
    BY <1>7, <2>1, TellStep DEF tellNext
<1>8. CASE UNCHANGED orchestratorVars
  BY <1>1, <1>8 DEF orchestratorVars
<1> QED
  BY <1>1, <1>2, <1>3, <1>4, <1>5, <1>6, <1>7, <1>8, StartTaskStep, ApplyEventStep,
     AnnotatedStep, DispatchStep, ReturnedStep DEF OrchestratorNext

LEMMA DriverInit == OrchestratorInit => DriverInv
<1> SUFFICES ASSUME OrchestratorInit PROVE DriverInv
  OBVIOUS
<1> DEFINE policy == CHOOSE p \in Policies : TRUE
<1>1. policy \in Policies
  BY OrchestratorAssumption
<1>2. sessions = [t \in Tasks |-> [Session(t, policy) EXCEPT !.started = FALSE]]
  BY DEF OrchestratorInit
<1> HIDE DEF policy
<1>3. \A t \in Tasks : /\ sessions[t] \in TaskSession
                       /\ sessions[t].at = "idle" /\ ~sessions[t].started
  BY <1>1, <1>2, SessionType DEF Session, TaskSession
<1>4. /\ log = [t \in Tasks |-> [state |-> IntakeState(t), expected |-> 0, ok |-> TRUE]]
      /\ telling = {}
  BY DEF OrchestratorInit
<1>5. DriverTypeOK
  BY <1>2, <1>3, <1>4, IntakeType DEF DriverTypeOK
<1> QED
  BY <1>3, <1>4, <1>5 DEF DriverInv, SessionsStarted, LogReplays

LEMMA DriverInvariant == OrchestratorSpec => []DriverInv
BY DriverInit, DriverStep, PTL DEF OrchestratorSpec

\* The log replays to every session: whatever is refused, rolled back or comes
\* in late, the records are those of the events the session has been through
\* (task-orchestrator.ts:226-252, 402-432; task-events.ts:264-377).
THEOREM LogReplaysHolds == OrchestratorSpec => []LogReplays
<1>1. DriverInv => LogReplays
  BY DEF DriverInv
<1> QED
  BY <1>1, DriverInvariant, PTL

----------------------------------------------------------------------------
\* What runs is awaited, or was left open

\* Who leaves does not run any more.
LEMMA LeaveStops ==
  ASSUME NEW r, NEW S, NEW actuals, NEW terminal,
         \A u \in Tasks : terminal[u] \in {"completed", "cancelled"},
         nodes \in [Tasks -> SchedulerNode],
         Leave(r, S, terminal, actuals)
  PROVE  Active' = Active \ S
<1>1. \A u \in Tasks : nodes'[u] = IF u \in S THEN [nodes[u] EXCEPT !.status = terminal[u]]
                                               ELSE nodes[u]
  BY DEF Leave
<1>2. \A u \in Tasks : u \in S => nodes'[u].status # "active"
  BY <1>1 DEF SchedulerNode
<1>3. \A u \in Tasks : u \notin S => nodes'[u].status = nodes[u].status
  BY <1>1
<1> QED
  BY <1>2, <1>3 DEF Active

\* An ended dispatch does not run any more, and nothing starts.
LEMMA FinishStops ==
  ASSUME NEW t \in Tasks, NEW actuals, NEW terminal \in {"completed", "cancelled"},
         nodes \in [Tasks -> SchedulerNode],
         finishDispatch(t, actuals, terminal)
  PROVE  Active' \subseteq Active \ {t}
<1> DEFINE r == nodes[t].root
           S == {t} \cup (IF WallExhaustedWithout(r, t) THEN Cancellable(r) \ {t} ELSE {})
           ends == [u \in Tasks |-> IF u = t THEN terminal ELSE "cancelled"]
           reported == [u \in Tasks |-> IF u = t THEN actuals ELSE UnknownActuals]
<1>1. Leave(r, S, ends, reported)
  BY DEF finishDispatch
<1>2. \A u \in Tasks : ends[u] \in {"completed", "cancelled"}
  OBVIOUS
<1>3. t \in S
  OBVIOUS
<1> HIDE DEF S, ends, reported
<1>4. Active' = Active \ S
  BY <1>1, <1>2, LeaveStops
<1> QED
  BY <1>3, <1>4

\* A running dispatch is one the scheduler accepts the end of, so its session
\* closes it.
LEMMA CloseStops ==
  ASSUME IndInv, NEW t \in Tasks, NEW actuals,
         CompleteIfTracked(t, actuals) \/ CancelIfTracked(t, actuals)
  PROVE  Active' \subseteq Active \ {t}
<1>1. nodes \in [Tasks -> SchedulerNode]
  BY DEF IndInv, ControlTypeOK
<1>2. CASE SchedulerAccepts(t)
  BY <1>1, <1>2, FinishStops
     DEF CompleteIfTracked, CancelIfTracked, completeDispatch, cancelDispatch
<1>3. CASE ~SchedulerAccepts(t)
  <2>1. Active' = Active
    BY <1>3 DEF CompleteIfTracked, CancelIfTracked, vars, Active
  <2>2. t \notin Active
    <3>1. SUFFICES ASSUME t \in Active PROVE FALSE
      OBVIOUS
    <3>2. nodes[t].status = "active" /\ nodes[t].root \in Tasks
      BY <3>1 DEF Active, IndInv, RootsAreRoots
    <3>3. t \in ledgers[nodes[t].root].holders
      BY <3>1, <3>2 DEF IndInv, ReservationsMatchActive, ActiveUnder
    <3> QED
      BY <1>3, <3>2, <3>3 DEF SchedulerAccepts
  <2> QED
    BY <2>1, <2>2
<1> QED
  BY <1>2, <1>3

\* A call that ends t cancels some of the others and touches no more of them.
LEMMA FinishOthers ==
  ASSUME NEW t \in Tasks, NEW actuals, NEW terminal \in {"completed", "cancelled"},
         nodes \in [Tasks -> SchedulerNode],
         finishDispatch(t, actuals, terminal)
  PROVE  /\ nodes'[t].status = terminal
         /\ \A u \in Tasks \ {t} : nodes'[u].status \in {nodes[u].status, "cancelled"}
<1> DEFINE r == nodes[t].root
           S == {t} \cup (IF WallExhaustedWithout(r, t) THEN Cancellable(r) \ {t} ELSE {})
           ends == [u \in Tasks |-> IF u = t THEN terminal ELSE "cancelled"]
<1>1. nodes' = [u \in Tasks |->
           IF u \in S THEN [nodes[u] EXCEPT !.status = ends[u]] ELSE nodes[u]]
  BY DEF finishDispatch, Leave
<1>2. t \in S /\ ends[t] = terminal /\ \A u \in Tasks \ {t} : ends[u] = "cancelled"
  OBVIOUS
<1> HIDE DEF S, ends
<1> QED
  BY <1>1, <1>2 DEF SchedulerNode

\* Closing t, accepted or not, leaves the others where they are or cancelled.
LEMMA CloseOthers ==
  ASSUME IndInv, NEW t \in Tasks, NEW actuals,
         CompleteIfTracked(t, actuals) \/ CancelIfTracked(t, actuals)
  PROVE  \A u \in Tasks \ {t} : nodes'[u].status \in {nodes[u].status, "cancelled"}
<1>1. nodes \in [Tasks -> SchedulerNode]
  BY DEF IndInv, ControlTypeOK
<1>2. CASE SchedulerAccepts(t)
  BY <1>1, <1>2, FinishOthers
     DEF CompleteIfTracked, CancelIfTracked, completeDispatch, cancelDispatch
<1>3. CASE ~SchedulerAccepts(t)
  BY <1>3 DEF CompleteIfTracked, CancelIfTracked, vars
<1> QED
  BY <1>2, <1>3

\* A task at whose await nothing happens, but that its node may be cancelled.
StaysAwaited(u) ==
  /\ nodes'[u].status \in {nodes[u].status, "cancelled"}
  /\ sessions'[u].at = sessions[u].at
  /\ execution'[u] = execution[u]

\* A task that a step leaves accounted for.
AccountedNext(u) ==
  /\ nodes'[u].status = "active" => sessions'[u].at = "executing" \/ execution'[u] \in LeftOpen
  /\ sessions'[u].at = "executing" => nodes'[u].status \in {"active", "cancelled"}

LEMMA AccountedStays ==
  ASSUME ActiveIsAccountedFor, \A u \in Tasks : StaysAwaited(u) \/ AccountedNext(u)
  PROVE  ActiveIsAccountedFor'
<1> SUFFICES ASSUME NEW u \in Tasks PROVE AccountedNext(u)
  BY DEF ActiveIsAccountedFor, AccountedNext, Active
<1> QED
  BY DEF ActiveIsAccountedFor, AccountedNext, StaysAwaited, Active

\* Apply moves one session to the given place.
LEMMA ApplyMoves ==
  ASSUME DriverInv, NEW t \in Tasks, NEW e, NEW at, Apply(t, e, at)
  PROVE  \A u \in Tasks : sessions'[u].at = IF u = t THEN at ELSE sessions[u].at
BY DEF Apply, DriverInv, DriverTypeOK, TaskSession

LEMMA IdleMoves ==
  ASSUME DriverInv, NEW t \in Tasks, sessions' = IdleAgain(t)
  PROVE  \A u \in Tasks : sessions'[u].at = IF u = t THEN "idle" ELSE sessions[u].at
BY DEF IdleAgain, DriverInv, DriverTypeOK, TaskSession

LEMMA TellMoves ==
  ASSUME DriverInv, NEW t \in Tasks, Tell(t)
  PROVE  \A u \in Tasks : sessions'[u].at = sessions[u].at
<1>1. CASE Told(t)
  BY <1>1, ApplyMoves DEF Tell
<1>2. CASE ~Told(t)
  BY <1>2 DEF Tell
<1> QED
  BY <1>1, <1>2

\* A session that moves about elsewhere than at its dispatch stays accounted for.
LEMMA ElsewhereAccounted ==
  ASSUME ActiveIsAccountedFor, NEW t \in Tasks,
         sessions[t].at # "executing", sessions'[t].at # "executing",
         UNCHANGED <<vars, execution>>,
         \A u \in Tasks \ {t} : sessions'[u].at = sessions[u].at
  PROVE  ActiveIsAccountedFor'
<1>1. nodes' = nodes /\ execution' = execution
  BY DEF vars
<1>2. AccountedNext(t)
  BY <1>1 DEF ActiveIsAccountedFor, AccountedNext, Active
<1>3. \A u \in Tasks \ {t} : StaysAwaited(u)
  BY <1>1 DEF StaysAwaited
<1> QED
  BY <1>2, <1>3, AccountedStays

\* Every session stays where it is and nothing starts.
LEMMA AllStay ==
  ASSUME ActiveIsAccountedFor, execution' = execution,
         \A u \in Tasks : nodes'[u].status \in {nodes[u].status, "cancelled"},
         \A u \in Tasks : sessions'[u].at = sessions[u].at
  PROVE  ActiveIsAccountedFor'
BY AccountedStays DEF StaysAwaited

ExecutionOK == execution \in [Tasks -> FailureDisposition \cup {NoDisposition}]

LEMMA AccountedStep ==
  ASSUME DriverInv, IndInv, ExecutionOK, ActiveIsAccountedFor,
         [OrchestratorNext]_orchestratorVars
  PROVE  ExecutionOK' /\ ActiveIsAccountedFor'
<1> nodes \in [Tasks -> SchedulerNode]
  BY DEF IndInv, ControlTypeOK
<1>1. CASE UNCHANGED <<nodes, sessions, execution>>
  <2>1. ActiveIsAccountedFor'
    BY <1>1, AllStay
  <2> QED
    BY <1>1, <2>1 DEF ExecutionOK
<1>2. ASSUME NEW t \in Tasks, NEW policy \in Policies, UNCHANGED vars, startTask(t, policy)
      PROVE  ExecutionOK' /\ ActiveIsAccountedFor'
  <2>1. sessions[t].at = "idle"
    BY <1>2 DEF startTask, DriverInv, SessionsStarted
  <2>2. \A u \in Tasks : sessions'[u] = IF u = t THEN Session(t, policy) ELSE sessions[u]
    BY <1>2 DEF startTask, DriverInv, DriverTypeOK
  <2>3. sessions'[t].at = "idle" /\ \A u \in Tasks \ {t} : sessions'[u].at = sessions[u].at
    BY <2>2 DEF Session
  <2>4. UNCHANGED <<vars, execution>>
    BY <1>2 DEF startTask
  <2>5. ActiveIsAccountedFor'
    BY <2>1, <2>3, <2>4, ElsewhereAccounted
  <2> QED
    BY <2>4, <2>5 DEF ExecutionOK
<1>3. ASSUME NEW t \in Tasks, NEW e \in ParentEvents, UNCHANGED vars, applyEvent(t, e)
      PROVE  ExecutionOK' /\ ActiveIsAccountedFor'
  <2> DEFINE n == After(sessions[t].state, e, sessions[t].policy, remainingBudgetCost(t))
             at == Continues(sessions[t].state, n, sessions[t].policy)
  <2>1. sessions[t].at = "idle" /\ Apply(t, e, at) /\ execution' = execution
    BY <1>3 DEF applyEvent
  <2>2. at # "executing"
    BY DEF Continues
  <2> HIDE DEF at
  <2>3. sessions'[t].at = at /\ \A u \in Tasks \ {t} : sessions'[u].at = sessions[u].at
    BY <2>1, ApplyMoves
  <2>4. ActiveIsAccountedFor'
    BY <1>3, <2>1, <2>2, <2>3, ElsewhereAccounted
  <2> QED
    BY <2>1, <2>4 DEF ExecutionOK
<1>4. ASSUME NEW t \in Tasks, UNCHANGED vars, applyCancelled(t)
      PROVE  ExecutionOK' /\ ActiveIsAccountedFor'
  <2>1. \A u \in Tasks : sessions'[u].at = sessions[u].at
    BY <1>4, ApplyMoves DEF applyCancelled
  <2>2. nodes' = nodes /\ execution' = execution
    BY <1>4 DEF vars, applyCancelled
  <2>3. ActiveIsAccountedFor'
    BY <2>1, <2>2, AllStay
  <2> QED
    BY <2>2, <2>3 DEF ExecutionOK
<1>5. ASSUME NEW t \in Tasks, UNCHANGED vars, annotated(t)
      PROVE  ExecutionOK' /\ ActiveIsAccountedFor'
  <2>1. sessions[t].at # "executing" /\ execution' = execution
    BY <1>5 DEF annotated
  <2>2. /\ sessions'[t].at = "selecting"
        /\ \A u \in Tasks \ {t} : sessions'[u].at = sessions[u].at
    BY <1>5 DEF annotated, DriverInv, DriverTypeOK, TaskSession
  <2>3. ActiveIsAccountedFor'
    BY <1>5, <2>1, <2>2, ElsewhereAccounted
  <2> QED
    BY <2>1, <2>3 DEF ExecutionOK
<1>6. ASSUME NEW t \in Tasks, NEW stack, NEW c, NEW perms, dispatchSelected(t, stack, c, perms)
      PROVE  ExecutionOK' /\ ActiveIsAccountedFor'
  <2> DEFINE n == QueuedNode(t, AdmittedUnder(t), c, perms)
  <2>1. \A u \in Tasks : sessions'[u].at = IF u = t THEN "executing" ELSE sessions[u].at
    BY <1>6 DEF dispatchSelected, DriverInv, DriverTypeOK, TaskSession
  <2>2. nodes' = [nodes EXCEPT ![t] = [n EXCEPT !.status = "active"]]
    BY <1>6 DEF dispatchSelected, admitDispatch, Start
  <2>3. nodes'[t].status = "active" /\ \A u \in Tasks \ {t} : nodes'[u].status = nodes[u].status
    BY <2>2 DEF QueuedNode
  <2>4. execution' = [execution EXCEPT ![t] = NoDisposition]
    BY <1>6 DEF dispatchSelected
  <2>5. AccountedNext(t)
    BY <2>1, <2>3 DEF AccountedNext
  <2>6. \A u \in Tasks \ {t} : StaysAwaited(u)
    BY <2>1, <2>3, <2>4 DEF StaysAwaited, ExecutionOK
  <2>7. ActiveIsAccountedFor'
    BY <2>5, <2>6, AccountedStays
  <2> QED
    BY <2>4, <2>7 DEF ExecutionOK
<1>7. ASSUME NEW t \in Tasks, NEW c, NEW perms, dispatchDenied(t, c, perms)
      PROVE  ExecutionOK' /\ ActiveIsAccountedFor'
  <2>1. /\ nodes'[t].status = "absent"
        /\ \A u \in Tasks \ {t} : nodes'[u].status = nodes[u].status
    BY <1>7 DEF dispatchDenied, admitDispatchDenied, NoNode
  <2>2. /\ sessions'[t].at = "idle" /\ execution' = execution
        /\ \A u \in Tasks \ {t} : sessions'[u].at = sessions[u].at
    BY <1>7, IdleMoves DEF dispatchDenied
  <2>3. AccountedNext(t) /\ \A u \in Tasks \ {t} : StaysAwaited(u)
    BY <2>1, <2>2 DEF AccountedNext, StaysAwaited
  <2>4. ActiveIsAccountedFor'
    BY <2>3, AccountedStays
  <2> QED
    BY <2>2, <2>4 DEF ExecutionOK
<1>8. ASSUME NEW t \in Tasks, notSelected(t)
      PROVE  ExecutionOK' /\ ActiveIsAccountedFor'
  <2>1. sessions[t].at # "executing" /\ UNCHANGED <<vars, execution>>
    BY <1>8 DEF notSelected
  <2>2. sessions'[t].at = "idle" /\ \A u \in Tasks \ {t} : sessions'[u].at = sessions[u].at
    BY <1>8, IdleMoves DEF notSelected
  <2>3. ActiveIsAccountedFor'
    BY <2>1, <2>2, ElsewhereAccounted
  <2> QED
    BY <2>1, <2>3 DEF ExecutionOK
<1>9. ASSUME NEW t \in Tasks, NEW report, returnedCancelled(t, report)
      PROVE  ExecutionOK' /\ ActiveIsAccountedFor'
  <2>1. t \notin Active' /\ \A u \in Tasks \ {t} : nodes'[u].status \in {nodes[u].status, "cancelled"}
    BY <1>9, CloseStops, CloseOthers DEF returnedCancelled
  <2>2. /\ sessions'[t].at = "idle" /\ execution' = execution
        /\ \A u \in Tasks \ {t} : sessions'[u].at = sessions[u].at
    BY <1>9, IdleMoves DEF returnedCancelled
  <2>3. AccountedNext(t) /\ \A u \in Tasks \ {t} : StaysAwaited(u)
    BY <2>1, <2>2 DEF AccountedNext, StaysAwaited, Active
  <2>4. ActiveIsAccountedFor'
    BY <2>3, AccountedStays
  <2> QED
    BY <2>2, <2>4 DEF ExecutionOK
<1>10. ASSUME NEW t \in Tasks, NEW disposition \in Dispositions, NEW report,
              returned(t, disposition, report)
       PROVE  ExecutionOK' /\ ActiveIsAccountedFor'
  <2>1. disposition \in FailureDisposition
    BY OrchestratorAssumption
  <2>2. execution' = [execution EXCEPT ![t] = disposition]
    BY <1>10 DEF returned
  <2>3. /\ t \in Active' => disposition \in LeftOpen
        /\ \A u \in Tasks \ {t} : nodes'[u].status \in {nodes[u].status, "cancelled"}
    <3>1. CASE disposition \in Closing
      <4>1. CompleteIfTracked(t, Actuals(report))
        BY <1>10, <3>1 DEF returned
      <4> QED
        BY <4>1, CloseStops, CloseOthers
    <3>2. CASE disposition \notin Closing
      <4>1. nodes' = nodes
        BY <1>10, <3>2 DEF returned, vars
      <4>2. disposition \in LeftOpen
        BY <2>1, <3>2 DEF FailureDisposition, Closing, LeftOpen
      <4> QED
        BY <4>1, <4>2
    <3> QED
      BY <3>1, <3>2
  <2>4. /\ sessions'[t].at # "executing"
        /\ \A u \in Tasks \ {t} : sessions'[u].at = sessions[u].at
    <3> DEFINE e == [kind |-> "dispatch-completed", runId |-> sessions[t].dispatches,
                     disposition |-> disposition]
               n == After(sessions[t].state, e, sessions[t].policy, remainingBudgetCost(t))
               at == Continues(sessions[t].state, n, sessions[t].policy)
    <3>1. Apply(t, e, at) \/ sessions' = IdleAgain(t)
      BY <1>10 DEF returned
    <3>2. at # "executing"
      BY DEF Continues
    <3> HIDE DEF e, at
    <3> QED
      BY <3>1, <3>2, ApplyMoves, IdleMoves
  <2>5. AccountedNext(t)
    <3>1. execution'[t] = disposition
      BY <2>2 DEF ExecutionOK
    <3> QED
      BY <2>3, <2>4, <3>1 DEF AccountedNext, Active
  <2>6. \A u \in Tasks \ {t} : StaysAwaited(u)
    BY <2>2, <2>3, <2>4 DEF StaysAwaited, ExecutionOK
  <2>7. ActiveIsAccountedFor'
    BY <2>5, <2>6, AccountedStays
  <2> QED
    BY <2>1, <2>2, <2>7 DEF ExecutionOK
<1>11. ASSUME NEW r \in Tasks, cancelRootAndTell(r)
       PROVE  ExecutionOK' /\ ActiveIsAccountedFor'
  <2>1. nodes' = [t \in Tasks |-> IF t \in Cancellable(r)
                    THEN [nodes[t] EXCEPT !.status = [u \in Tasks |-> "cancelled"][t]] ELSE nodes[t]]
    BY <1>11 DEF cancelRootAndTell, cancelRoot, Leave
  <2>2. \A u \in Tasks : nodes'[u].status \in {nodes[u].status, "cancelled"}
    BY <2>1 DEF SchedulerNode
  <2>3. \A u \in Tasks : sessions'[u].at = sessions[u].at
    <3>1. CASE UNCHANGED sessions
      BY <3>1
    <3>2. ASSUME NEW first \in {t \in Cancellable(r) : Told(t)}, Tell(first)
          PROVE  \A u \in Tasks : sessions'[u].at = sessions[u].at
      <4>1. first \in Tasks
        BY DEF Cancellable, TrackedUnder
      <4> QED
        BY <3>2, <4>1, TellMoves
    <3> QED
      BY <1>11, <3>1, <3>2 DEF cancelRootAndTell
  <2>4. execution' = execution
    BY <1>11 DEF cancelRootAndTell
  <2>5. ActiveIsAccountedFor'
    BY <2>2, <2>3, <2>4, AllStay
  <2> QED
    BY <2>4, <2>5 DEF ExecutionOK
<1>12. ASSUME NEW t \in Tasks, tellNext(t)
       PROVE  ExecutionOK' /\ ActiveIsAccountedFor'
  <2>1. \A u \in Tasks : sessions'[u].at = sessions[u].at
    BY <1>12, TellMoves DEF tellNext
  <2>2. nodes' = nodes /\ execution' = execution
    BY <1>12 DEF tellNext, vars
  <2>3. ActiveIsAccountedFor'
    BY <2>1, <2>2, AllStay
  <2> QED
    BY <2>2, <2>3 DEF ExecutionOK
<1>13. CASE Tick /\ UNCHANGED <<sessions, telling, log, execution>>
  BY <1>1, <1>13 DEF Tick
<1>14. CASE UNCHANGED orchestratorVars
  BY <1>1, <1>14 DEF orchestratorVars
<1> QED
  BY <1>2, <1>3, <1>4, <1>5, <1>6, <1>7, <1>8, <1>9, <1>10, <1>11, <1>12, <1>13, <1>14
     DEF OrchestratorNext

\* Under the driver the ledgers and the tree of the scheduler are in order too.
LEMMA SchedulerLedgers == OrchestratorSpec => []LedgerInv
BY DriverSchedules, SpecLedgerInv, PTL

\* At every await the sessions, the log and the scheduler are typed, and, whatever its
\* executor returns, a task the scheduler counts as running is one whose executeDispatch
\* is awaited or came back with one of the two dispositions the driver does not close on;
\* an awaited one is running or cancelled (task-orchestrator.ts:300-356).
THEOREM SessionInvariantHolds == OrchestratorSpec => []SessionInvariant
<1> DEFINE J == ExecutionOK /\ ActiveIsAccountedFor
<1>1. OrchestratorInit => J
  <2> SUFFICES ASSUME OrchestratorInit PROVE J
    OBVIOUS
  <2>1. ExecutionOK
    BY DEF OrchestratorInit, ExecutionOK
  <2>2. \A t \in Tasks : sessions[t].at = "idle"
    <3> DEFINE policy == CHOOSE policy \in Policies : TRUE
    <3>1. \A t \in Tasks : sessions[t] = [Session(t, policy) EXCEPT !.started = FALSE]
      BY DEF OrchestratorInit
    <3> HIDE DEF policy
    <3> QED
      BY <3>1 DEF Session
  <2>3. \A t \in Tasks : nodes[t].status = "absent"
    BY DEF OrchestratorInit, Init, NoNode
  <2> QED
    BY <2>1, <2>2, <2>3 DEF ActiveIsAccountedFor, Active
<1>2. DriverInv /\ IndInv /\ J /\ [OrchestratorNext]_orchestratorVars => J'
  BY AccountedStep
<1>3. DriverInv /\ LedgerInv /\ J => SessionInvariant
  BY DEF DriverInv, DriverTypeOK, LedgerInv, SessionInvariant, OrchestratorTypeOK, ExecutionOK
<1> HIDE DEF J
<1> QED
  BY <1>1, <1>2, <1>3, DriverInvariant, SchedulerInvariant, SchedulerLedgers, PTL
     DEF OrchestratorSpec

----------------------------------------------------------------------------
\* Cancelled work

\* Of those that leave with a call that ends t, only t itself may be completed.
LEMMA FinishTerminals ==
  ASSUME NEW t \in Tasks, NEW actuals, NEW terminal \in {"completed", "cancelled"},
         nodes \in [Tasks -> SchedulerNode],
         finishDispatch(t, actuals, terminal)
  PROVE  \A u \in Active : u # t \/ terminal = "cancelled" =>
                             nodes'[u].status \in {"active", "cancelled"}
<1> DEFINE r == nodes[t].root
           S == {t} \cup (IF WallExhaustedWithout(r, t) THEN Cancellable(r) \ {t} ELSE {})
           ends == [u \in Tasks |-> IF u = t THEN terminal ELSE "cancelled"]
<1>1. nodes' = [u \in Tasks |->
         IF u \in S THEN [nodes[u] EXCEPT !.status = ends[u]] ELSE nodes[u]]
  BY DEF finishDispatch, Leave
<1>2. \A u \in Tasks : u # t \/ terminal = "cancelled" => ends[u] = "cancelled"
  OBVIOUS
<1> HIDE DEF S, ends
<1> QED
  BY <1>1, <1>2 DEF Active, SchedulerNode

\* The work of a cancelled task is never put down as completed, whenever its
\* result comes in (task-orchestrator.ts:335-342).
THEOREM CancelledWorkNotCompletedHolds == OrchestratorSpec => CancelledWorkNotCompleted
<1> DEFINE Kept(t) == nodes'[t].status \in {"active", "cancelled"}
<1>1. ASSUME IndInv, OrchestratorNext,
             NEW t \in Active, sessions[t].state.name = "cancelled"
      PROVE  Kept(t)
  <2>1. /\ t \in Tasks /\ nodes[t].status = "active" /\ isTaskTracked(t)
        /\ nodes \in [Tasks -> SchedulerNode]
    BY <1>1 DEF Active, isTaskTracked, IndInv, ControlTypeOK
  <2>2. CASE UNCHANGED nodes
    BY <2>1, <2>2
  <2>3. ASSUME NEW u \in Tasks, NEW c, NEW perms,
               \/ \E stack \in Stacks : dispatchSelected(u, stack, c, perms)
               \/ dispatchDenied(u, c, perms)
        PROVE  Kept(t)
    <3>1. ~isTaskTracked(u)
      BY <2>3 DEF dispatchSelected, dispatchDenied, admitDispatch, admitDispatchDenied,
                  validateDispatchAdmission
    <3>2. PICK n : nodes' = [nodes EXCEPT ![u] = n]
      BY <2>3 DEF dispatchSelected, dispatchDenied, admitDispatch, admitDispatchDenied, Start
    <3> QED
      BY <2>1, <3>1, <3>2
  <2>4. ASSUME NEW u \in Tasks, NEW report, returnedCancelled(u, report)
        PROVE  Kept(t)
    <3>1. cancelDispatch(u, Actuals(report)) \/ UNCHANGED nodes
      BY <2>4 DEF returnedCancelled, CancelIfTracked, vars
    <3> QED
      BY <2>1, <2>2, <3>1, FinishTerminals DEF cancelDispatch
  <2>5. ASSUME NEW u \in Tasks, NEW disposition, NEW report, returned(u, disposition, report)
        PROVE  Kept(t)
    <3>1. u # t
      BY <1>1, <2>5 DEF returned
    <3>2. completeDispatch(u, Actuals(report)) \/ UNCHANGED nodes
      BY <2>5 DEF returned, CompleteIfTracked, vars
    <3> QED
      BY <2>1, <2>2, <3>1, <3>2, FinishTerminals DEF completeDispatch
  <2>6. ASSUME NEW r \in Tasks, cancelRootAndTell(r)
        PROVE  Kept(t)
    <3>1. nodes' = [u \in Tasks |-> IF u \in Cancellable(r)
                                    THEN [nodes[u] EXCEPT !.status = "cancelled"] ELSE nodes[u]]
      BY <2>6 DEF cancelRootAndTell, cancelRoot, Leave
    <3> QED
      BY <2>1, <3>1 DEF SchedulerNode
  <2>7. ASSUME NEW u \in Tasks, notSelected(u) \/ tellNext(u)
        PROVE  UNCHANGED nodes
    BY <2>7 DEF notSelected, tellNext, vars
  <2>8. CASE UNCHANGED vars
    BY <2>2, <2>8 DEF vars
  <2>9. CASE Tick
    BY <2>2, <2>9 DEF Tick
  <2> QED
    BY <1>1, <2>2, <2>3, <2>4, <2>5, <2>6, <2>7, <2>8, <2>9 DEF OrchestratorNext
<1>2. IndInv /\ [OrchestratorNext]_orchestratorVars =>
        [\A t \in Active : sessions[t].state.name = "cancelled" => Kept(t)]_orchestratorVars
  BY <1>1
<1> QED
  BY <1>2, SchedulerInvariant, PTL DEF OrchestratorSpec, CancelledWorkNotCompleted

----------------------------------------------------------------------------
(***************************************************************************)
(* Escalations.  Linked follows the link to the superseded run from the    *)
(* annotation of that run to the dispatch that names it: it is pending     *)
(* exactly while the last run put down is the superseded one and work is   *)
(* not yet under way again.                                                *)
(***************************************************************************)

\* The last run of the session is the one annotated as escalated.
IsSuperseded(x) == x.state.runIds # <<>> /\ lastRunId(x.state) = x.superseded

SupersededRun(x) == IF IsSuperseded(x) THEN x.superseded ELSE NoRun

\* Runs are numbered by the dispatches of their session.
RunsNumbered(x) ==
  /\ x.state.runIds # <<>> => lastRunId(x.state) \in 1..x.dispatches
  /\ x.superseded <= x.dispatches
  /\ x.at = "executing" => x.superseded < x.dispatches
  /\ ~x.started => x.dispatches = 0

LinkPending(x) ==
  /\ x.at = "annotating" => x.state.name \in {"dispatch", "cancelled"}
  /\ x.at = "executing" => x.pendingEscalationOf = NoRun
  /\ x.state.name \notin {"dispatch", "cancelled"} => x.pendingEscalationOf = NoRun /\ ~IsSuperseded(x)
  /\ x.state.name = "dispatch" /\ x.at \in {"idle", "selecting"} => x.pendingEscalationOf = SupersededRun(x)
  /\ x.state.name = "dispatch" /\ x.at = "executing" => x.escalationOf = SupersededRun(x)

Linked(x) == RunsNumbered(x) /\ LinkPending(x)
LinkInv == \A t \in Tasks : Linked(sessions[t])

\* What an accepted event does to the name and to the runs.
LEMMA AfterMoves ==
  ASSUME NEW s, NEW e \in TaskEvent, NEW policy, NEW cost, s \in TaskState,
         Accepts(s, e, policy, cost)
  PROVE  LET n == After(s, e, policy, cost) IN
         /\ s.name # "cancelled"
         /\ e \in ParentEvent => s.name # "dispatch"
         /\ e.kind = "cancelled" => n.name = "cancelled"
         /\ s.name = "escalate" => n.name \in {"dispatch", "verification-failed", "cancelled"}
         /\ IF e.kind = "dispatch-completed" THEN n.runIds = Append(s.runIds, e.runId)
                                             ELSE n.runIds = s.runIds
<1> DEFINE n == After(s, e, policy, cost)
           Kinds == {"classified", "planned", "decomposed", "dispatch-selected",
                     "dispatch-completed", "verified", "escalation-authorized",
                     "escalation-denied", "cancelled", "ship-authorized"}
<1>1. e.kind \in Kinds
  BY DEF TaskEvent, ParentEvent
<1>2. e \in ParentEvent => e.kind \in Kinds \ {"dispatch-selected", "dispatch-completed", "cancelled"}
  BY DEF ParentEvent
<1>3. CASE e.kind = "classified"
  BY <1>2, <1>3 DEF Accepts, After, CanClassify, Classified, TaskState
<1>4. CASE e.kind = "planned"
  BY <1>2, <1>4 DEF Accepts, After, CanPlan, Planned, TaskState
<1>5. CASE e.kind = "decomposed"
  BY <1>2, <1>5 DEF Accepts, After, CanDecompose, Decomposed, TaskState
<1>6. CASE e.kind = "dispatch-selected"
  BY <1>2, <1>6 DEF Accepts, After, CanSelect, Selected, TaskState
<1>7. CASE e.kind = "dispatch-completed"
  BY <1>2, <1>7 DEF Accepts, After, CanComplete, Completed, TaskState
<1>8. CASE e.kind = "verified"
  BY <1>2, <1>8 DEF Accepts, After, CanVerify, Verified, TaskState
<1>9. CASE e.kind = "escalation-authorized"
  BY <1>2, <1>9 DEF Accepts, After, CanAuthorizeEscalation, EscalationAuthorized, TaskState
<1>10. CASE e.kind = "escalation-denied"
  BY <1>2, <1>10 DEF Accepts, After, CanDenyEscalation, EscalationDenied, TaskState
<1>11. CASE e.kind = "cancelled"
  BY <1>2, <1>11 DEF Accepts, After, CanCancel, Cancelled, TaskState
<1>12. CASE e.kind = "ship-authorized"
  BY <1>2, <1>12 DEF Accepts, After, CanShip, Shipped, TaskState
<1> QED
  BY <1>1, <1>3, <1>4, <1>5, <1>6, <1>7, <1>8, <1>9, <1>10, <1>11, <1>12

\* A session that is where it was, but for the fields Linked does not look at.
LEMMA LinkOfSession ==
  ASSUME DriverInv, LinkInv, NEW t \in Tasks, NEW y, sessions' = [sessions EXCEPT ![t] = y], Linked(y)
  PROVE  LinkInv'
<1>1. \A u \in Tasks : sessions'[u] = IF u = t THEN y ELSE sessions[u]
  BY DEF DriverInv, DriverTypeOK
<1>2. \A u \in Tasks : Linked(sessions'[u])
  BY <1>1 DEF LinkInv
<1> QED
  BY <1>2 DEF LinkInv, Linked, RunsNumbered, LinkPending, IsSuperseded, SupersededRun

\* The fields of a session.
LEMMA SessionFields ==
  ASSUME NEW x \in TaskSession
  PROVE  /\ x.started \in BOOLEAN /\ x.state \in TaskState /\ x.policy \in TaskPolicy
         /\ x.at \in {"idle", "selecting", "annotating", "executing"}
         /\ x.sequence \in Nat /\ x.dispatches \in Nat /\ x.superseded \in Nat
         /\ x.pendingEscalationOf \in Nat /\ x.escalationOf \in Nat
         /\ x.state.runIds \in Seq(Nat) /\ x.state.name \in TaskStateName
BY OrchestratorAssumption DEF TaskSession, TaskState

LEMMA StartLinked ==
  ASSUME NEW t \in Tasks, NEW policy, NEW started \in BOOLEAN
  PROVE  Linked(Session(t, policy)) /\ Linked([Session(t, policy) EXCEPT !.started = started])
BY DEF Session, IntakeState, Linked, RunsNumbered, LinkPending, IsSuperseded, SupersededRun, NoRun

\* An event of the parent, or a cancellation, in the middle of whatever goes on.
LEMMA ParentLinked ==
  ASSUME NEW x \in TaskSession, Linked(x), NEW e \in TaskEvent, NEW cost,
         Accepts(x.state, e, x.policy, cost),
         NEW at, NEW n, n = After(x.state, e, x.policy, cost),
         \/ /\ e \in ParentEvent /\ x.at = "idle" /\ at \in {"idle", "annotating", "selecting"}
            /\ at = "annotating" => n.name = "dispatch"
         \/ e.kind = "cancelled" /\ at = x.at
  PROVE  Linked([x EXCEPT !.state = n, !.at = at, !.sequence = @ + 1])
<1> DEFINE y == [x EXCEPT !.state = n, !.at = at, !.sequence = @ + 1]
<1>1. /\ y.started = x.started /\ y.state = n /\ y.at = at /\ y.dispatches = x.dispatches
      /\ y.superseded = x.superseded /\ y.pendingEscalationOf = x.pendingEscalationOf
      /\ y.escalationOf = x.escalationOf
  BY DEF TaskSession
<1> HIDE DEF y
<1>2. /\ x.state.name # "cancelled"
      /\ e \in ParentEvent => x.state.name # "dispatch"
      /\ e.kind = "cancelled" => n.name = "cancelled"
      /\ e.kind # "dispatch-completed"
      /\ n.runIds = x.state.runIds
  <2>1. e.kind # "dispatch-completed"
    BY DEF ParentEvent
  <2> QED
    BY <2>1, SessionFields, AfterMoves
<1>3. IsSuperseded(y) <=> IsSuperseded(x)
  BY <1>1, <1>2 DEF IsSuperseded, lastRunId
<1>4. RunsNumbered(y)
  BY <1>1, <1>2, SessionFields DEF Linked, RunsNumbered, lastRunId
<1>5. CASE e.kind = "cancelled" /\ at = x.at
  BY <1>1, <1>2, <1>4, <1>5 DEF y, Linked, LinkPending
<1>6. CASE /\ e \in ParentEvent /\ x.at = "idle" /\ at \in {"idle", "annotating", "selecting"}
           /\ at = "annotating" => n.name = "dispatch"
  <2>1. y.pendingEscalationOf = NoRun /\ ~IsSuperseded(y)
    BY <1>1, <1>2, <1>3, <1>6 DEF Linked, LinkPending
  <2>2. LinkPending(y)
    BY <1>1, <1>6, <2>1 DEF LinkPending, SupersededRun
  <2> QED
    BY <1>4, <2>2 DEF y, Linked
<1> QED
  BY <1>5, <1>6

\* A session goes back to idle.
LEMMA IdleLinked ==
  ASSUME NEW x \in TaskSession, Linked(x), x.at # "annotating",
         x.at = "executing" => x.state.name # "dispatch"
  PROVE  Linked([x EXCEPT !.at = "idle"])
<1> DEFINE y == [x EXCEPT !.at = "idle"]
<1>1. /\ y.started = x.started /\ y.state = x.state /\ y.at = "idle" /\ y.dispatches = x.dispatches
      /\ y.superseded = x.superseded /\ y.pendingEscalationOf = x.pendingEscalationOf
      /\ y.escalationOf = x.escalationOf
  BY DEF TaskSession
<1> HIDE DEF y
<1>2. x.at \in {"idle", "selecting", "executing"}
  BY SessionFields
<1>3. IsSuperseded(y) <=> IsSuperseded(x)
  BY <1>1 DEF IsSuperseded
<1>4. RunsNumbered(y) /\ LinkPending(y)
  BY <1>1, <1>2, <1>3 DEF Linked, RunsNumbered, LinkPending, SupersededRun
<1> QED
  BY <1>4 DEF y, Linked

\* The superseded run is annotated, and its number put by.
LEMMA AnnotatedLinked ==
  ASSUME NEW x \in TaskSession, Linked(x), x.state.runIds # <<>>,
         x.state.name \in {"dispatch", "cancelled"}
  PROVE  Linked([x EXCEPT !.at = "selecting", !.superseded = lastRunId(x.state),
                          !.pendingEscalationOf = lastRunId(x.state)])
<1> DEFINE y == [x EXCEPT !.at = "selecting", !.superseded = lastRunId(x.state),
                          !.pendingEscalationOf = lastRunId(x.state)]
<1>1. /\ y.started = x.started /\ y.state = x.state /\ y.at = "selecting" /\ y.dispatches = x.dispatches
      /\ y.superseded = lastRunId(x.state) /\ y.pendingEscalationOf = lastRunId(x.state)
  BY DEF TaskSession
<1> HIDE DEF y
<1>2. lastRunId(x.state) \in 1..x.dispatches /\ x.dispatches \in Nat
  BY SessionFields DEF Linked, RunsNumbered
<1>3. IsSuperseded(y)
  BY <1>1 DEF IsSuperseded
<1>4. RunsNumbered(y) /\ LinkPending(y)
  BY <1>1, <1>2, <1>3 DEF Linked, RunsNumbered, LinkPending, SupersededRun
<1> QED
  BY <1>4 DEF y, Linked

\* A dispatch takes the link with it.
LEMMA DispatchLinked ==
  ASSUME NEW x \in TaskSession, Linked(x), x.started, x.at \in {"idle", "selecting"},
         NEW n, n.name = x.state.name, n.runIds = x.state.runIds
  PROVE  Linked([x EXCEPT !.state = n, !.at = "executing", !.sequence = @ + 1, !.dispatches = @ + 1,
                          !.pendingEscalationOf = NoRun, !.escalationOf = x.pendingEscalationOf])
<1> DEFINE y == [x EXCEPT !.state = n, !.at = "executing", !.sequence = @ + 1, !.dispatches = @ + 1,
                          !.pendingEscalationOf = NoRun, !.escalationOf = x.pendingEscalationOf]
<1>1. /\ y.started = x.started /\ y.state = n /\ y.at = "executing" /\ y.dispatches = x.dispatches + 1
      /\ y.superseded = x.superseded /\ y.pendingEscalationOf = NoRun
      /\ y.escalationOf = x.pendingEscalationOf
  BY DEF TaskSession
<1> HIDE DEF y
<1>2. x.dispatches \in Nat /\ x.superseded \in Nat
  BY SessionFields
<1>3. (IsSuperseded(y) <=> IsSuperseded(x)) /\ lastRunId(n) = lastRunId(x.state)
  BY <1>1 DEF IsSuperseded, lastRunId
<1>4. RunsNumbered(y)
  BY <1>1, <1>2, <1>3 DEF Linked, RunsNumbered
<1>5. LinkPending(y)
  BY <1>1, <1>3 DEF Linked, LinkPending, SupersededRun
<1> QED
  BY <1>4, <1>5 DEF y, Linked

\* A result makes a later run the last one.
LEMMA CompletedLinked ==
  ASSUME NEW x \in TaskSession, Linked(x), x.started, x.at = "executing",
         NEW n, n.runIds = Append(x.state.runIds, x.dispatches), NEW at \in {"idle", "selecting"}
  PROVE  Linked([x EXCEPT !.state = n, !.at = at, !.sequence = @ + 1])
<1> DEFINE y == [x EXCEPT !.state = n, !.at = at, !.sequence = @ + 1]
<1>1. /\ y.started = x.started /\ y.state = n /\ y.at = at /\ y.dispatches = x.dispatches
      /\ y.superseded = x.superseded /\ y.pendingEscalationOf = x.pendingEscalationOf
  BY DEF TaskSession
<1> HIDE DEF y
<1>2. x.dispatches \in Nat /\ x.superseded \in Nat /\ x.superseded < x.dispatches /\ x.pendingEscalationOf = NoRun
  BY SessionFields DEF Linked, RunsNumbered, LinkPending
<1>3. lastRunId(n) = x.dispatches
  BY SessionFields DEF lastRunId
<1>4. ~IsSuperseded(y)
  BY <1>1, <1>2, <1>3 DEF IsSuperseded
<1>5. RunsNumbered(y) /\ LinkPending(y)
  BY <1>1, <1>2, <1>3, <1>4 DEF RunsNumbered, LinkPending, SupersededRun
<1> QED
  BY <1>5 DEF y, Linked


\* A session is annotated only on its way from an escalation to its work.
LEMMA AnnotatesEscalation ==
  ASSUME NEW s \in TaskState, NEW e \in TaskEvent, NEW policy, NEW cost, Accepts(s, e, policy, cost)
  PROVE  LET n == After(s, e, policy, cost)
             at == Continues(s, n, policy)
         IN  at = "annotating" => s.name = "escalate" /\ n.name = "dispatch"
<1> DEFINE n == After(s, e, policy, cost)
<1>1. s.name = "escalate" => n.name \in {"dispatch", "verification-failed", "cancelled"}
  BY AfterMoves
<1> HIDE DEF n
<1>2. Continues(s, n, policy) = "annotating" => s.name = "escalate" /\ Selects(s, n, policy)
  <2>1. CASE n.name = s.name \/ ~(\/ n.name \in {"dispatch", "code-review"}
                                  \/ n.name = "verify" /\ policy.verification = "dispatch")
    BY <2>1 DEF Continues, Selects
  <2>2. CASE s.name # "escalate"
    BY <2>2 DEF Continues
  <2> QED
    BY <2>1, <2>2 DEF Selects
<1>3. Continues(s, n, policy) = "annotating" => s.name = "escalate" /\ n.name = "dispatch"
  BY <1>1, <1>2 DEF Selects
<1> QED
  BY <1>3 DEF n

\* Every step of the driver keeps the links.
LEMMA LinkStep ==
  ASSUME DriverInv, LinkInv, [OrchestratorNext]_orchestratorVars
  PROVE  LinkInv'
<1>1. \A t \in Tasks : sessions[t] \in TaskSession /\ Linked(sessions[t])
  BY DEF DriverInv, DriverTypeOK, LinkInv
<1>2. CASE UNCHANGED sessions
  BY <1>2 DEF LinkInv, Linked, RunsNumbered, LinkPending, IsSuperseded, SupersededRun
<1>3. ASSUME NEW t \in Tasks, NEW policy \in Policies, startTask(t, policy)
      PROVE  LinkInv'
  <2>1. sessions' = [sessions EXCEPT ![t] = Session(t, policy)] /\ Session(t, policy).started = TRUE
    BY <1>3 DEF startTask, Session
  <2>2. Linked(Session(t, policy))
    BY StartLinked
  <2> QED
    BY <2>1, <2>2, LinkOfSession
<1>4. ASSUME NEW t \in Tasks, NEW e \in TaskEvent, NEW at, Apply(t, e, at),
             \/ /\ e \in ParentEvent /\ sessions[t].at = "idle"
                /\ at = Continues(sessions[t].state,
                          After(sessions[t].state, e, sessions[t].policy, remainingBudgetCost(t)),
                          sessions[t].policy)
             \/ e.kind = "cancelled" /\ at = sessions[t].at
      PROVE  LinkInv'
  <2> DEFINE x == sessions[t]
             cost == remainingBudgetCost(t)
             n == After(x.state, e, x.policy, cost)
             y == [x EXCEPT !.state = n, !.at = at, !.sequence = @ + 1]
  <2>1. Accepts(x.state, e, x.policy, cost) /\ sessions' = [sessions EXCEPT ![t] = y]
    BY <1>4 DEF Apply
  <2>2. x \in TaskSession /\ Linked(x)
    BY <1>1
  <2>3. e \in ParentEvent => at = Continues(x.state, n, x.policy)
    BY <1>4 DEF ParentEvent
  <2>4. e \in ParentEvent => at \in {"idle", "annotating", "selecting"} /\ (at = "annotating" => n.name = "dispatch")
    <3>1. x.state \in TaskState /\ x.state.runIds \in Seq(Nat)
      BY <2>2, SessionFields
    <3> HIDE DEF x, cost
    <3>2. Continues(x.state, n, x.policy) = "annotating" => n.name = "dispatch"
      BY <2>1, <3>1, AnnotatesEscalation
    <3> HIDE DEF n
    <3>3. Continues(x.state, n, x.policy) \in {"idle", "annotating", "selecting"}
      BY <3>1, ContinuesAt
    <3> QED
      BY <2>3, <3>2, <3>3
  <2>5. \/ /\ e \in ParentEvent /\ x.at = "idle" /\ at \in {"idle", "annotating", "selecting"}
           /\ at = "annotating" => n.name = "dispatch"
        \/ e.kind = "cancelled" /\ at = x.at
    BY <1>4, <2>4
  <2> HIDE DEF x, cost
  <2>6. Linked(y)
    BY <2>1, <2>2, <2>5, ParentLinked
  <2> HIDE DEF y
  <2> QED
    BY <2>1, <2>6, LinkOfSession
<1>5. ASSUME NEW t \in Tasks, NEW e \in ParentEvents, applyEvent(t, e)
      PROVE  LinkInv'
  <2>1. e \in TaskEvent /\ e \in ParentEvent
    BY OrchestratorAssumption DEF TaskEvent
  <2> QED
    BY <1>4, <1>5, <2>1 DEF applyEvent
<1>6. ASSUME NEW t \in Tasks, Apply(t, [kind |-> "cancelled"], sessions[t].at)
      PROVE  LinkInv'
  <2> DEFINE e == [kind |-> "cancelled"]
  <2>1. e \in TaskEvent /\ e.kind = "cancelled"
    BY DEF TaskEvent
  <2> HIDE DEF e
  <2> QED
    BY <1>4, <1>6, <2>1 DEF e
<1>7. ASSUME NEW t \in Tasks, Tell(t)
      PROVE  LinkInv'
  BY <1>2, <1>6, <1>7 DEF Tell
<1>8. ASSUME NEW t \in Tasks, annotated(t)
      PROVE  LinkInv'
  <2> DEFINE x == sessions[t]
             y == [x EXCEPT !.at = "selecting", !.superseded = lastRunId(x.state),
                            !.pendingEscalationOf = lastRunId(x.state)]
  <2>1. sessions' = [sessions EXCEPT ![t] = y]
    BY <1>8 DEF annotated
  <2>2. x \in TaskSession /\ Linked(x) /\ x.at = "annotating" /\ x.state.runIds # <<>>
    BY <1>1, <1>8 DEF annotated, DriverInv, SessionsStarted
  <2>3. x.state.name \in {"dispatch", "cancelled"}
    BY <2>2 DEF Linked, LinkPending
  <2> HIDE DEF x
  <2>4. Linked(y)
    BY <2>2, <2>3, AnnotatedLinked
  <2> HIDE DEF y
  <2> QED
    BY <2>1, <2>4, LinkOfSession
<1>9. ASSUME NEW t \in Tasks, NEW stack \in Stacks, NEW c, NEW perms, dispatchSelected(t, stack, c, perms)
      PROVE  LinkInv'
  <2> DEFINE x == sessions[t]
             e == [kind |-> "dispatch-selected", stack |-> stack]
             cost == remainingBudgetCost(t)
             n == After(x.state, e, x.policy, cost)
             y == [x EXCEPT !.state = n, !.at = "executing", !.sequence = @ + 1, !.dispatches = @ + 1,
                            !.pendingEscalationOf = NoRun, !.escalationOf = x.pendingEscalationOf]
  <2>1. Accepts(x.state, e, x.policy, cost) /\ sessions' = [sessions EXCEPT ![t] = y]
    BY <1>9 DEF dispatchSelected
  <2>2. x \in TaskSession /\ Linked(x) /\ x.started /\ x.at \in {"idle", "selecting"}
    BY <1>1, <1>9 DEF dispatchSelected, MaySelect, DriverInv, SessionsStarted
  <2>3. n.name = x.state.name /\ n.runIds = x.state.runIds
    <3>1. x.state \in TaskState
      BY <2>2, SessionFields
    <3>2. n = Selected(x.state, stack)
      BY DEF After
    <3> QED
      BY <3>1, <3>2 DEF Selected, TaskState
  <2> HIDE DEF x, n
  <2>4. Linked(y)
    BY <2>2, <2>3, DispatchLinked
  <2> HIDE DEF y
  <2> QED
    BY <2>1, <2>4, LinkOfSession
<1>10. ASSUME NEW t \in Tasks, sessions' = IdleAgain(t), sessions[t].at # "annotating",
              sessions[t].at = "executing" => sessions[t].state.name # "dispatch"
       PROVE  LinkInv'
  <2> DEFINE y == [sessions[t] EXCEPT !.at = "idle"]
  <2>1. Linked(y) /\ sessions' = [sessions EXCEPT ![t] = y]
    BY <1>1, <1>10, IdleLinked DEF IdleAgain
  <2> HIDE DEF y
  <2> QED
    BY <2>1, LinkOfSession
<1>11. ASSUME NEW t \in Tasks, NEW c, NEW perms, NEW report,
              dispatchDenied(t, c, perms) \/ notSelected(t) \/ returnedCancelled(t, report)
       PROVE  LinkInv'
  BY <1>10, <1>11 DEF dispatchDenied, notSelected, returnedCancelled, MaySelect
<1>12. ASSUME NEW t \in Tasks, NEW disposition \in Dispositions, NEW report,
              returned(t, disposition, report)
       PROVE  LinkInv'
  <2> DEFINE x == sessions[t]
             e == [kind |-> "dispatch-completed", runId |-> x.dispatches, disposition |-> disposition]
             cost == remainingBudgetCost(t)
             n == After(x.state, e, x.policy, cost)
             at == Continues(x.state, n, x.policy)
             y == [x EXCEPT !.state = n, !.at = at, !.sequence = @ + 1]
  <2>1. x \in TaskSession /\ Linked(x) /\ x.started /\ x.at = "executing"
    BY <1>1, <1>12 DEF returned, DriverInv, SessionsStarted
  <2>2. CASE ~CanComplete(x.state)
    BY <1>10, <1>12, <2>1, <2>2 DEF returned, CanComplete
  <2>3. CASE CanComplete(x.state)
    <3>1. Accepts(x.state, e, x.policy, cost) /\ sessions' = [sessions EXCEPT ![t] = y]
      BY <1>12, <2>3 DEF returned, Apply
    <3>2. n.runIds = Append(x.state.runIds, x.dispatches)
      <4>1. n = Completed(x.state, x.dispatches, disposition, x.policy)
        BY DEF After
      <4>2. x.state \in TaskState
        BY <2>1, SessionFields
      <4> QED
        BY <4>1, <4>2 DEF Completed, TaskState
    <3>3. at \in {"idle", "selecting"}
      <4> HIDE DEF n
      <4> QED
        BY <2>3 DEF CanComplete, Continues
    <3> HIDE DEF x, n, at
    <3>4. Linked(y)
      BY <2>1, <3>2, <3>3, CompletedLinked
    <3> HIDE DEF y
    <3> QED
      BY <3>1, <3>4, LinkOfSession
  <2> QED
    BY <2>2, <2>3
<1>13. ASSUME NEW r \in Tasks, cancelRootAndTell(r)
       PROVE  LinkInv'
  <2>1. CASE UNCHANGED sessions
    BY <1>2, <2>1
  <2>2. ASSUME NEW first \in {u \in Cancellable(r) : Told(u)}, Tell(first)
        PROVE  LinkInv'
    <3>1. first \in Tasks
      BY DEF Cancellable, TrackedUnder
    <3> QED
      BY <1>7, <2>2, <3>1
  <2> QED
    BY <1>13, <2>1, <2>2 DEF cancelRootAndTell
<1>14. CASE UNCHANGED orchestratorVars
  BY <1>2, <1>14 DEF orchestratorVars
<1> QED
  BY <1>2, <1>3, <1>5, <1>6, <1>7, <1>8, <1>9, <1>11, <1>12, <1>13, <1>14
     DEF OrchestratorNext, applyCancelled, tellNext

LEMMA LinkInit == OrchestratorInit => LinkInv
<1> SUFFICES ASSUME OrchestratorInit, NEW t \in Tasks PROVE Linked(sessions[t])
  BY DEF LinkInv
<1> DEFINE policy == CHOOSE p \in Policies : TRUE
<1>1. sessions[t] = [Session(t, policy) EXCEPT !.started = FALSE]
  BY DEF OrchestratorInit
<1> HIDE DEF policy
<1> QED
  BY <1>1, StartLinked

LEMMA LinkInvariant == OrchestratorSpec => []LinkInv
BY LinkInit, LinkStep, DriverInvariant, PTL DEF OrchestratorSpec

\* The dispatch that follows an escalation names the run it supersedes, however
\* often its admission is refused and tried again, and no later dispatch names
\* it (task-orchestrator.ts:307-321, 375-380).
THEOREM EscalationLinkedHolds == OrchestratorSpec => []EscalationLinked
<1>1. DriverInv /\ LinkInv => EscalationLinked
  <2> SUFFICES ASSUME DriverInv, LinkInv, NEW t \in Tasks
      PROVE  LET x == sessions[t]
                 isSuperseded == x.state.runIds # <<>> /\ lastRunId(x.state) = x.superseded
             IN  /\ x.state.name = "dispatch" /\ x.at \notin {"annotating", "executing"} /\ isSuperseded =>
                      x.pendingEscalationOf = x.superseded
                 /\ x.state.name = "dispatch" /\ x.at = "executing" =>
                      x.escalationOf = IF isSuperseded THEN x.superseded ELSE NoRun
    BY DEF EscalationLinked
  <2>1. LinkPending(sessions[t]) /\ sessions[t].at \in {"idle", "selecting", "annotating", "executing"}
    BY SessionFields DEF DriverInv, DriverTypeOK, LinkInv, Linked
  <2> QED
    BY <2>1 DEF LinkPending, SupersededRun, IsSuperseded
<1> QED
  BY <1>1, DriverInvariant, LinkInvariant, PTL


----------------------------------------------------------------------------
(***************************************************************************)
(* Cancellations.  A task whose node the scheduler has cancelled learns of *)
(* it from its own cancellation or from cancelRoot.  A completion that     *)
(* uses up the wall time of its root cancels the rest of the root too, and *)
(* nobody tells those tasks: that is the one exception the theorem has.    *)
(***************************************************************************)

\* Who has a node was started, and so was who is to be told.
StartedInv ==
  /\ \A t \in Tasks : nodes[t].status # "absent" => sessions[t].started
  /\ \A t \in telling : t \in Tasks /\ sessions[t].started

\* A started session stays started, and a cancelled one cancelled.
SessionsStay ==
  \A u \in Tasks : sessions[u].started =>
    /\ sessions'[u].started
    /\ sessions[u].state.name = "cancelled" => sessions'[u].state.name = "cancelled"

LEMMA ApplyStays ==
  ASSUME DriverInv, NEW t \in Tasks, NEW e \in TaskEvent, NEW at, Apply(t, e, at)
  PROVE  /\ SessionsStay
         /\ e.kind = "cancelled" => sessions'[t].state.name = "cancelled"
<1> DEFINE x == sessions[t]
           cost == remainingBudgetCost(t)
           n == After(x.state, e, x.policy, cost)
           y == [x EXCEPT !.state = n, !.at = at, !.sequence = @ + 1]
<1>1. Accepts(x.state, e, x.policy, cost) /\ sessions' = [sessions EXCEPT ![t] = y]
  BY DEF Apply
<1>2. x \in TaskSession /\ x.state \in TaskState
  BY SessionFields DEF DriverInv, DriverTypeOK
<1>3. y.started = x.started /\ y.state = n
  BY <1>2 DEF TaskSession
<1> HIDE DEF cost, x
<1>4. x.state.name # "cancelled" /\ (e.kind = "cancelled" => n.name = "cancelled")
  BY <1>1, <1>2, AfterMoves
<1> HIDE DEF y, n
<1>5. \A u \in Tasks : sessions'[u] = IF u = t THEN y ELSE sessions[u]
  BY <1>1 DEF DriverInv, DriverTypeOK
<1> QED
  BY <1>3, <1>4, <1>5 DEF SessionsStay, x

LEMMA IdleStays ==
  ASSUME DriverInv, NEW t \in Tasks, sessions' = IdleAgain(t)
  PROVE  SessionsStay
BY DEF IdleAgain, SessionsStay, DriverInv, DriverTypeOK, TaskSession

LEMMA TellStays ==
  ASSUME DriverInv, NEW t \in Tasks, Tell(t)
  PROVE  SessionsStay /\ (sessions[t].started => sessions'[t].state.name = "cancelled")
<1> DEFINE e == [kind |-> "cancelled"]
<1>1. e \in TaskEvent /\ e.kind = "cancelled"
  BY DEF TaskEvent
<1> HIDE DEF e
<1>2. CASE Told(t)
  BY <1>1, <1>2, ApplyStays DEF Tell, e
<1>3. CASE ~Told(t)
  BY <1>3 DEF Tell, Told, SessionsStay
<1> QED
  BY <1>2, <1>3

\* What a step may do to u as far as cancellations go: what CancellationsTold says.
ToldNext(u) ==
  /\ isTaskTracked(u) /\ nodes'[u].status = "cancelled" =>
       \/ sessions'[u].state.name = "cancelled"
       \/ u \in telling'
       \/ cancelled'[nodes[u].root] = ROOT_WALL_TIME_EXHAUSTED_REASON
  /\ u \in telling /\ u \notin telling' => sessions'[u].state.name = "cancelled"

\* What a step has done with cancellations and starts, taken together.
CancellationStep == StartedInv' /\ \A u \in Tasks : ToldNext(u)

\* A call that ends t cancels others only by the cascade, which it records.
LEMMA FinishCascades ==
  ASSUME NEW t \in Tasks, NEW actuals, NEW terminal \in {"completed", "cancelled"},
         IndInv, finishDispatch(t, actuals, terminal)
  PROVE  /\ \A u \in Tasks : nodes'[u].status # "absent" => nodes[u].status # "absent"
         /\ \A u \in Tasks \ {t} :
              isTaskTracked(u) /\ nodes'[u].status = "cancelled" =>
                cancelled'[nodes[u].root] = ROOT_WALL_TIME_EXHAUSTED_REASON
<1> DEFINE r == nodes[t].root
           S == {t} \cup (IF WallExhaustedWithout(r, t) THEN Cancellable(r) \ {t} ELSE {})
           ends == [u \in Tasks |-> IF u = t THEN terminal ELSE "cancelled"]
<1>1. /\ nodes' = [u \in Tasks |->
           IF u \in S THEN [nodes[u] EXCEPT !.status = ends[u]] ELSE nodes[u]]
      /\ cancelled' = IF WallExhaustedWithout(r, t)
                      THEN [cancelled EXCEPT ![r] = ROOT_WALL_TIME_EXHAUSTED_REASON]
                      ELSE cancelled
      /\ nodes[t].status = "active"
  BY DEF finishDispatch, Leave
<1>2. r \in Tasks /\ NoTask \in ParentChoices[r]
  BY <1>1 DEF IndInv, RootsAreRoots
<1>3. ASSUME NEW u \in Cancellable(r) PROVE nodes[u].root = r
  <2>1. CASE u \in TrackedUnder(r)
    BY <2>1 DEF TrackedUnder
  <2>2. CASE u = r /\ isTaskTracked(r)
    <3>1. nodes[r].parent \in ParentChoices[r] /\ (nodes[r].parent = NoTask => nodes[r].root = r)
      BY <1>2, <2>2 DEF isTaskTracked, IndInv, RootsAreRoots
    <3>2. ParentChoices[r] = {NoTask}
      BY <1>2, ParentIsFixed DEF RootsStayRoots
    <3> QED
      BY <2>2, <3>1, <3>2
  <2> QED
    BY <2>1, <2>2 DEF Cancellable
<1>4. \A u \in S : nodes[u].status # "absent"
  BY <1>1, <1>2, CancellablePresent
<1>5. ASSUME NEW u \in Tasks \ {t}, isTaskTracked(u), nodes'[u].status = "cancelled"
      PROVE  cancelled'[nodes[u].root] = ROOT_WALL_TIME_EXHAUSTED_REASON
  <2>1. u \in S
    BY <1>1, <1>5 DEF isTaskTracked
  <2>2. WallExhaustedWithout(r, t) /\ u \in Cancellable(r)
    BY <1>5, <2>1
  <2>3. nodes[u].root = r
    BY <1>3, <2>2
  <2> HIDE DEF S, ends, r
  <2> QED
    BY <1>1, <1>2, <2>2, <2>3 DEF IndInv, ControlTypeOK
<1> HIDE DEF S, ends
<1>6. \A u \in Tasks : nodes'[u].status # "absent" => nodes[u].status # "absent"
  BY <1>1, <1>4
<1> QED
  BY <1>5, <1>6

\* Closing t, accepted or not, the same; and a completed t is not a cancelled one.
LEMMA CloseCascades ==
  ASSUME IndInv, NEW t \in Tasks, NEW actuals,
         CompleteIfTracked(t, actuals) \/ CancelIfTracked(t, actuals) \/ UNCHANGED vars
  PROVE  /\ \A u \in Tasks : nodes'[u].status # "absent" => nodes[u].status # "absent"
         /\ \A u \in Tasks \ {t} :
              isTaskTracked(u) /\ nodes'[u].status = "cancelled" =>
                cancelled'[nodes[u].root] = ROOT_WALL_TIME_EXHAUSTED_REASON
<1>1. CASE UNCHANGED vars
  BY <1>1 DEF vars, isTaskTracked
<1>2. CASE completeDispatch(t, actuals)
  BY <1>2, FinishCascades DEF completeDispatch
<1>3. CASE cancelDispatch(t, actuals)
  BY <1>3, FinishCascades DEF cancelDispatch
<1> QED
  BY <1>1, <1>2, <1>3 DEF CompleteIfTracked, CancelIfTracked

LEMMA CompletedNotCancelled ==
  ASSUME IndInv, NEW t \in Tasks, NEW actuals,
         CompleteIfTracked(t, actuals) \/ UNCHANGED vars
  PROVE  isTaskTracked(t) => nodes'[t].status # "cancelled"
<1>1. CASE UNCHANGED vars
  BY <1>1 DEF vars, isTaskTracked
<1>2. CASE completeDispatch(t, actuals)
  BY <1>2, FinishOthers DEF completeDispatch, IndInv, ControlTypeOK
<1> QED
  BY <1>1, <1>2 DEF CompleteIfTracked

\* Sessions that stay keep the invariant, where nothing is cancelled unheard.
LEMMA StartsStay ==
  ASSUME StartedInv, SessionsStay, telling' = telling,
         \A u \in Tasks : nodes'[u].status # "absent" =>
           nodes[u].status # "absent" \/ sessions'[u].started,
         \A u \in Tasks :
           isTaskTracked(u) /\ nodes'[u].status = "cancelled" =>
             \/ sessions'[u].state.name = "cancelled"
             \/ cancelled'[nodes[u].root] = ROOT_WALL_TIME_EXHAUSTED_REASON
  PROVE  CancellationStep
<1>1. StartedInv'
  BY DEF StartedInv, SessionsStay
<1>2. \A u \in Tasks : ToldNext(u)
  BY DEF ToldNext
<1> QED
  BY <1>1, <1>2 DEF CancellationStep

\* With the nodes as they are.
LEMMA StartsAlone ==
  ASSUME StartedInv, SessionsStay, telling' = telling, UNCHANGED nodes
  PROVE  CancellationStep
BY StartsStay DEF isTaskTracked

LEMMA ToldStep ==
  ASSUME DriverInv, StartedInv, IndInv, [OrchestratorNext]_orchestratorVars
  PROVE  CancellationStep
<1> nodes \in [Tasks -> SchedulerNode]
  BY DEF IndInv, ControlTypeOK
<1>1. CASE UNCHANGED <<nodes, sessions, telling>>
  BY <1>1, StartsAlone DEF SessionsStay
<1>2. ASSUME NEW t \in Tasks, NEW policy \in Policies, UNCHANGED vars, startTask(t, policy)
      PROVE  CancellationStep
  <2>1. SessionsStay
    BY <1>2 DEF startTask, SessionsStay, DriverInv, DriverTypeOK
  <2> QED
    BY <1>2, <2>1, StartsAlone DEF startTask, vars
<1>3. ASSUME NEW t \in Tasks, NEW e \in TaskEvent, NEW at, UNCHANGED <<vars, telling>>, Apply(t, e, at)
      PROVE  CancellationStep
  BY <1>3, ApplyStays, StartsAlone DEF vars
<1>4. ASSUME NEW t \in Tasks, NEW e \in ParentEvents, UNCHANGED vars, applyEvent(t, e)
      PROVE  CancellationStep
  <2>1. e \in TaskEvent
    BY OrchestratorAssumption DEF TaskEvent
  <2> QED
    BY <1>3, <1>4, <2>1 DEF applyEvent
<1>5. ASSUME NEW t \in Tasks, UNCHANGED vars, applyCancelled(t)
      PROVE  CancellationStep
  <2>1. [kind |-> "cancelled"] \in TaskEvent
    BY DEF TaskEvent
  <2> QED
    BY <1>3, <1>5, <2>1 DEF applyCancelled
<1>6. ASSUME NEW t \in Tasks, UNCHANGED vars, annotated(t)
      PROVE  CancellationStep
  <2>1. SessionsStay
    BY <1>6 DEF annotated, SessionsStay, DriverInv, DriverTypeOK, TaskSession
  <2> QED
    BY <1>6, <2>1, StartsAlone DEF annotated, vars
<1>7. ASSUME NEW t \in Tasks, NEW stack \in Stacks, NEW c, NEW perms, dispatchSelected(t, stack, c, perms)
      PROVE  CancellationStep
  <2> DEFINE n == QueuedNode(t, AdmittedUnder(t), c, perms)
  <2>1. nodes' = [nodes EXCEPT ![t] = [n EXCEPT !.status = "active"]]
    BY <1>7 DEF dispatchSelected, admitDispatch, Start
  <2>2. nodes'[t].status = "active" /\ \A u \in Tasks \ {t} : nodes'[u].status = nodes[u].status
    BY <2>1 DEF QueuedNode
  <2>3. SessionsStay /\ sessions'[t].started
    <3> DEFINE x == sessions[t]
               e == [kind |-> "dispatch-selected", stack |-> stack]
               m == After(x.state, e, x.policy, remainingBudgetCost(t))
               y == [x EXCEPT !.state = m, !.at = "executing", !.sequence = @ + 1, !.dispatches = @ + 1,
                              !.pendingEscalationOf = NoRun, !.escalationOf = x.pendingEscalationOf]
    <3>1. sessions' = [sessions EXCEPT ![t] = y] /\ CanSelect(x.state, x.policy)
      BY <1>7 DEF dispatchSelected, Accepts
    <3>2. x.started /\ x \in TaskSession
      BY <1>7 DEF dispatchSelected, MaySelect, DriverInv, DriverTypeOK, SessionsStarted
    <3>3. y.started
      BY <3>2 DEF TaskSession
    <3>4. x.state.name # "cancelled"
      BY <3>1 DEF CanSelect
    <3> HIDE DEF y
    <3> QED
      BY <3>1, <3>3, <3>4 DEF SessionsStay, DriverInv, DriverTypeOK
  <2>4. telling' = telling
    BY <1>7 DEF dispatchSelected
  <2> QED
    BY <2>2, <2>3, <2>4, StartsStay DEF isTaskTracked
<1>8. ASSUME NEW t \in Tasks, NEW c, NEW perms, dispatchDenied(t, c, perms)
      PROVE  CancellationStep
  <2>1. nodes'[t].status = "absent" /\ \A u \in Tasks \ {t} : nodes'[u].status = nodes[u].status
    BY <1>8 DEF dispatchDenied, admitDispatchDenied, NoNode
  <2>2. SessionsStay /\ telling' = telling
    BY <1>8, IdleStays DEF dispatchDenied
  <2> QED
    BY <2>1, <2>2, StartsStay DEF isTaskTracked
<1>9. ASSUME NEW t \in Tasks, notSelected(t)
      PROVE  CancellationStep
  BY <1>9, IdleStays, StartsAlone DEF notSelected, vars
<1>10. ASSUME NEW t \in Tasks, NEW report, returnedCancelled(t, report)
       PROVE  CancellationStep
  <2>1. SessionsStay /\ telling' = telling /\ CancelIfTracked(t, Actuals(report))
    BY <1>10, IdleStays DEF returnedCancelled
  <2>2. sessions'[t].state.name = "cancelled"
    BY <1>10, <2>1 DEF returnedCancelled, DriverInv, SessionsStarted, SessionsStay
  <2> QED
    BY <2>1, <2>2, CloseCascades, StartsStay
<1>11. ASSUME NEW t \in Tasks, NEW disposition \in Dispositions, NEW report, returned(t, disposition, report)
       PROVE  CancellationStep
  <2> DEFINE e == [kind |-> "dispatch-completed", runId |-> sessions[t].dispatches,
                   disposition |-> disposition]
             at == Continues(sessions[t].state,
                     After(sessions[t].state, e, sessions[t].policy, remainingBudgetCost(t)),
                     sessions[t].policy)
  <2>1. telling' = telling /\ (Apply(t, e, at) \/ sessions' = IdleAgain(t))
    BY <1>11 DEF returned
  <2>2. e \in TaskEvent
    BY OrchestratorAssumption DEF TaskEvent, DriverInv, DriverTypeOK, TaskSession
  <2> HIDE DEF e, at
  <2>3. SessionsStay
    BY <2>1, <2>2, ApplyStays, IdleStays
  <2>4. UNCHANGED vars \/ CompleteIfTracked(t, Actuals(report))
    BY <1>11 DEF returned
  <2> QED
    BY <2>1, <2>3, <2>4, CloseCascades, CompletedNotCancelled, StartsStay
<1>12. ASSUME NEW r \in Tasks, cancelRootAndTell(r)
       PROVE  CancellationStep
  <2> DEFINE gone == Cancellable(r)
             told == {u \in gone : Told(u)}
             ends == [u \in Tasks |-> "cancelled"]
  <2>1. nodes' = [u \in Tasks |-> IF u \in gone THEN [nodes[u] EXCEPT !.status = ends[u]] ELSE nodes[u]]
    BY <1>12 DEF cancelRootAndTell, cancelRoot, Leave
  <2>2. /\ \A u \in Tasks : nodes'[u].status = IF u \in gone THEN "cancelled" ELSE nodes[u].status
        /\ gone \subseteq Tasks /\ \A u \in gone : nodes[u].status # "absent"
    BY <2>1, CancellablePresent DEF SchedulerNode
  <2>3. \A u \in gone \ told : sessions[u].started /\ sessions[u].state.name = "cancelled"
    BY <2>2 DEF StartedInv, Told
  <2>4. \/ told = {} /\ UNCHANGED <<sessions, telling>>
        \/ \E first \in told : Tell(first) /\ telling' = telling \cup (told \ {first})
    BY <1>12 DEF cancelRootAndTell, ToldLater
  <2>5. told \subseteq Tasks /\ \A u \in told : sessions[u].started
    BY <2>2 DEF Told
  <2>6. ASSUME SessionsStay, telling \subseteq telling', telling' \subseteq telling \cup told,
               \A u \in told : u \in telling' \/ sessions'[u].state.name = "cancelled"
        PROVE  CancellationStep
    <3> HIDE DEF gone, told
    <3>1. StartedInv'
      BY <2>2, <2>5, <2>6 DEF StartedInv, SessionsStay
    <3>2. ASSUME NEW u \in gone PROVE u \in telling' \/ sessions'[u].state.name = "cancelled"
      <4>1. CASE u \in told
        BY <2>6, <4>1
      <4>2. CASE u \notin told
        BY <2>2, <2>3, <2>6, <4>2 DEF SessionsStay
      <4> QED
        BY <4>1, <4>2
    <3>3. \A u \in Tasks : ToldNext(u)
      BY <2>2, <2>6, <3>2 DEF ToldNext, isTaskTracked
    <3> QED
      BY <3>1, <3>3 DEF CancellationStep
  <2>7. CASE told = {} /\ UNCHANGED <<sessions, telling>>
    BY <2>6, <2>7 DEF SessionsStay
  <2>8. ASSUME NEW first \in told, Tell(first), telling' = telling \cup (told \ {first})
        PROVE  CancellationStep
    <3>1. first \in Tasks /\ sessions[first].started
      BY <2>5
    <3>2. SessionsStay /\ sessions'[first].state.name = "cancelled"
      BY <2>8, <3>1, TellStays
    <3> HIDE DEF told
    <3> QED
      BY <2>6, <2>8, <3>2
  <2> QED
    BY <2>4, <2>7, <2>8
<1>13. ASSUME NEW t \in Tasks, tellNext(t)
       PROVE  CancellationStep
  <2>1. /\ SessionsStay /\ telling' = telling \ {t} /\ nodes' = nodes
        /\ t \in telling /\ (sessions[t].started => sessions'[t].state.name = "cancelled")
    BY <1>13, TellStays DEF tellNext, vars
  <2>2. sessions'[t].state.name = "cancelled"
    BY <2>1 DEF StartedInv
  <2>3. StartedInv'
    BY <2>1 DEF StartedInv, SessionsStay
  <2>4. \A u \in Tasks : ToldNext(u)
    BY <2>1, <2>2 DEF ToldNext, isTaskTracked
  <2> QED
    BY <2>3, <2>4 DEF CancellationStep
<1>14. CASE Tick /\ UNCHANGED <<sessions, telling, log, execution>>
  BY <1>1, <1>14 DEF Tick
<1>15. CASE UNCHANGED orchestratorVars
  BY <1>1, <1>15 DEF orchestratorVars
<1> QED
  BY <1>2, <1>4, <1>5, <1>6, <1>7, <1>8, <1>9, <1>10, <1>11, <1>12, <1>13, <1>14, <1>15
     DEF OrchestratorNext

\* Whatever the wall time does, no cancellation is forgotten: a dispatch is cancelled
\* under a task that is cancelled or will be told, and nobody leaves the list of those to
\* be told without it, but for the cascade of an exhausted wall time
\* (task-orchestrator.ts:322-333, 479-500; delegation-scheduler.ts:600-640).
THEOREM CancellationsToldHolds == OrchestratorSpec => CancellationsTold
<1>1. OrchestratorInit => StartedInv
  BY DEF OrchestratorInit, Init, NoNode, StartedInv
<1>2. DriverInv /\ IndInv /\ StartedInv /\ [OrchestratorNext]_orchestratorVars => StartedInv'
  BY ToldStep DEF CancellationStep
<1>3. DriverInv /\ IndInv /\ StartedInv /\ [OrchestratorNext]_orchestratorVars
        => [\A t \in Tasks :
              /\ isTaskTracked(t) /\ nodes'[t].status = "cancelled" =>
                   \/ sessions'[t].state.name = "cancelled"
                   \/ t \in telling'
                   \/ cancelled'[nodes[t].root] = ROOT_WALL_TIME_EXHAUSTED_REASON
              /\ t \in telling /\ t \notin telling' => sessions'[t].state.name = "cancelled"
           ]_orchestratorVars
  BY ToldStep DEF CancellationStep, ToldNext
<1> QED
  BY <1>1, <1>2, <1>3, DriverInvariant, SchedulerInvariant, PTL
     DEF OrchestratorSpec, CancellationsTold

----------------------------------------------------------------------------
(***************************************************************************)
(* Charges.  The scheduler counts calls by ledger and the driver counts    *)
(* dispatches by session; they agree for each root where the sessions name *)
(* the root their parents name and a report is of one call.                *)
(***************************************************************************)

\* Each session names the root of its parent's session, and a root itself.
RootsNamed ==
  \A t \in Tasks : RootIdentity[t] = IF Parent[t] = NoTask THEN t ELSE RootIdentity[Parent[t]]

\* An executor reports one call, or none measured.
OneCallEach == \A a \in ActualsChoices : a["call"] \in {1, Unknown}

Team(r) == {t \in Tasks : RootIdentity[t] = r}
Dispatches(r) == SumFunctionOnSet([t \in Tasks |-> sessions[t].dispatches], Team(r))

\* Nodes hang under the root their session names, and the counts agree.
PlacedByName == \A t \in Tasks : nodes[t].status # "absent" => nodes[t].root = RootIdentity[t]
CountsAgree ==
  \A r \in Tasks : Calls(ledgers[r]) = Dispatches(r) /\ (~ledgers[r].open => Calls(ledgers[r]) = 0)

\* Whatever leaves, every ledger has the calls it had.
LEMMA LeaveCalls ==
  ASSUME LedgerInv, PlacedByName, CountsAgree, OneCallEach, NEW r \in Tasks, NEW S, NEW terminal,
         \A t \in S : nodes[t].status # "absent",
         NEW actuals \in [Tasks -> ActualsChoices \cup {UnknownActuals}],
         Leave(r, S, terminal, actuals),
         \A u \in Tasks : sessions'[u].dispatches = sessions[u].dispatches
  PROVE  PlacedByName' /\ CountsAgree'
<1> DEFINE L == ledgers[r]
           ended == (S \cap Active) \cap L.holders
           M == reconcileDispatch(L, ended, actuals)
<1>1. /\ ledgers \in [Tasks -> RootBudgetLedger] /\ nodes \in [Tasks -> SchedulerNode]
      /\ IsFiniteSet(Tasks) /\ \A q \in Tasks : LedgerOK(ledgers[q])
  BY SchedulerAssumption DEF LedgerInv, TypeOK, LedgersOK
<1>2. ledgers' = [ledgers EXCEPT ![r] = M]
  BY <1>1 DEF Leave
<1>3. LedgerOK(L) /\ ended \in SUBSET L.holders /\ ended \subseteq Tasks
  BY <1>1 DEF Active
<1>4. \A t \in ended : actuals[t]["call"] \in {1, Unknown}
  <2>1. UnknownActuals["call"] = 1
    BY DEF UnknownActuals
  <2> QED
    BY <1>3, <2>1 DEF OneCallEach
<1> HIDE DEF ended
<1>5. Calls(M) = Calls(L)
  BY <1>1, <1>3, <1>4, ReconcileCalls
<1>6. M.open = L.open
  BY DEF reconcileDispatch
<1> HIDE DEF M
<1>7. \A q \in Tasks : Calls(ledgers'[q]) = Calls(ledgers[q]) /\ ledgers'[q].open = ledgers[q].open
  BY <1>1, <1>2, <1>5, <1>6
<1>8. \A q : Dispatches(q)' = Dispatches(q)
  BY DEF Dispatches
<1>9. CountsAgree'
  BY <1>7, <1>8 DEF CountsAgree
<1>10. \A t \in Tasks : nodes'[t].root = nodes[t].root /\ (nodes'[t].status # "absent" => nodes[t].status # "absent")
  <2>1. nodes' = [t \in Tasks |-> IF t \in S THEN [nodes[t] EXCEPT !.status = terminal[t]] ELSE nodes[t]]
    BY DEF Leave
  <2> QED
    BY <1>1, <2>1 DEF SchedulerNode
<1> QED
  BY <1>9, <1>10 DEF PlacedByName

\* A dispatch that is admitted is one call more of its root, and one dispatch.
LEMMA DispatchCharges ==
  ASSUME RootsNamed, DriverInv, LedgerInv, PlacedByName, CountsAgree,
         NEW t \in Tasks, NEW stack \in Stacks, NEW c \in Checkouts, NEW perms \in PermissionChoices,
         dispatchSelected(t, stack, c, perms)
  PROVE  PlacedByName' /\ CountsAgree'
<1> DEFINE p == Parent[t]
           n == QueuedNode(t, p, c, perms)
           r == n.root
           L == ensureRootLedger(r)
           M == tryReserveDispatch(L, now, t)
<1>1. /\ validateDispatchAdmission(t, p, perms) /\ CanStart(t, n) /\ Start(t, n)
  BY DEF dispatchSelected, admitDispatch, AdmittedUnder
<1>2. /\ ledgers \in [Tasks -> RootBudgetLedger] /\ nodes \in [Tasks -> SchedulerNode]
      /\ IsFiniteSet(Tasks) /\ \A q \in Tasks : LedgerOK(ledgers[q])
      /\ now \in Nat /\ p \in Tasks \cup {NoTask} /\ RootIdentity \in [Tasks -> Tasks]
  BY SchedulerAssumption, OrchestratorAssumption DEF LedgerInv, TypeOK, LedgersOK
<1>3. r = RootIdentity[t] /\ r \in Tasks
  <2>1. r = RootUnder(t, p)
    BY DEF QueuedNode
  <2>2. CASE p = NoTask
    BY <1>2, <2>1, <2>2 DEF RootUnder, RootsNamed
  <2>3. CASE p # NoTask
    <3>1. p \in Tasks /\ nodes[p].status # "absent"
      BY <1>1, <1>2, <2>3 DEF validateDispatchAdmission
    <3>2. nodes[p].root = RootIdentity[p] /\ RootIdentity[t] = RootIdentity[p]
      BY <2>3, <3>1 DEF PlacedByName, RootsNamed
    <3> QED
      BY <1>2, <2>1, <2>3, <3>1, <3>2 DEF RootUnder
  <2> QED
    BY <2>2, <2>3
<1>4. nodes' = [nodes EXCEPT ![t] = [n EXCEPT !.status = "active"]] /\ ledgers' = [ledgers EXCEPT ![r] = M]
      /\ CanReserve(L, now, t)
  BY <1>1 DEF Start, CanStart
<1>5. [n EXCEPT !.status = "active"].root = r
  BY DEF QueuedNode
<1>6. PlacedByName'
  <2> HIDE DEF n, r
  <2>1. \A u \in Tasks : IF u = t THEN nodes'[u].root = r ELSE nodes'[u] = nodes[u]
    BY <1>2, <1>4, <1>5
  <2> QED
    BY <1>3, <2>1 DEF PlacedByName
<1> HIDE DEF n, r
<1>7. L \in RootBudgetLedger /\ L.open /\ Calls(L) = Calls(ledgers[r])
  <2>1. LedgerOK(createRootBudgetLedger(now)) /\ createRootBudgetLedger(now).open
    BY <1>2, CreateOK
  <2>2. Calls(createRootBudgetLedger(now)) = 0
    BY CreateCalls
  <2>3. ~ledgers[r].open => Calls(ledgers[r]) = 0
    BY <1>3 DEF CountsAgree
  <2> QED
    BY <1>2, <1>3, <2>1, <2>2, <2>3 DEF ensureRootLedger, LedgerOK
<1> HIDE DEF L
<1>8. Calls(M) = Calls(L) + 1
  BY <1>2, <1>4, <1>7, ReserveCalls
<1>9. M.open
  BY <1>7 DEF tryReserveDispatch
<1> HIDE DEF M
<1>10. \A q \in Tasks : IF q = r THEN Calls(ledgers'[q]) = Calls(ledgers[q]) + 1 /\ ledgers'[q].open
                                 ELSE ledgers'[q] = ledgers[q]
  BY <1>2, <1>3, <1>4, <1>7, <1>8, <1>9
<1> DEFINE f == [u \in Tasks |-> sessions[u].dispatches]
           g == [u \in Tasks |-> sessions'[u].dispatches]
<1>11. /\ \A u \in Tasks : f[u] \in Int
       /\ g[t] = f[t] + 1 /\ \A u \in Tasks \ {t} : g[u] = f[u]
  BY DEF dispatchSelected, DriverInv, DriverTypeOK, TaskSession
<1>12. \A q : Dispatches(q) = SumFunctionOnSet(f, Team(q)) /\ Dispatches(q)' = SumFunctionOnSet(g, Team(q))
  BY DEF Dispatches
<1> HIDE DEF f, g
<1>13. \A q \in Tasks : Team(q) \subseteq Tasks /\ IsFiniteSet(Team(q)) /\ (t \in Team(q) <=> q = r)
  <2>1. \A q \in Tasks : Team(q) \in SUBSET Tasks
    BY DEF Team
  <2>2. \A q \in Tasks : IsFiniteSet(Team(q))
    BY <1>2, <2>1, FS_Subset
  <2> QED
    BY <1>3, <2>1, <2>2 DEF Team
<1>14. ASSUME NEW q \in Tasks
       PROVE  Dispatches(q)' = IF q = r THEN Dispatches(q) + 1 ELSE Dispatches(q)
  <2> DEFINE S == Team(q)
  <2>1. S \subseteq Tasks /\ IsFiniteSet(S) /\ (t \in S <=> q = r)
    BY <1>13, <1>14
  <2> HIDE DEF S
  <2>2. CASE q = r
    <3>1. SumFunctionOnSet(g, S) = SumFunctionOnSet(f, S) + 1
      <4>1. t \in S /\ (\A u \in S : f[u] \in Int) /\ (\A u \in S \ {t} : g[u] = f[u]) /\ g[t] = f[t] + 1
        BY <1>11, <2>1, <2>2
      <4> QED
        BY <2>1, <4>1, SumIncrement
    <3> QED
      BY <1>12, <2>2, <3>1 DEF S
  <2>3. CASE q # r
    <3>1. SumFunctionOnSet(g, S) = SumFunctionOnSet(f, S)
      <4>1. \A u \in S : g[u] = f[u]
        BY <1>11, <2>1, <2>3
      <4> QED
        BY <2>1, <4>1, SumSame
    <3> QED
      BY <1>12, <2>3, <3>1 DEF S
  <2> QED
    BY <2>2, <2>3
<1>15. CountsAgree'
  BY <1>10, <1>14 DEF CountsAgree
<1> QED
  BY <1>6, <1>15


\* What changes neither the ledgers, nor where nodes hang, nor the dispatches.
LEMMA ChargesStay ==
  ASSUME PlacedByName, CountsAgree, UNCHANGED ledgers,
         \A t \in Tasks : nodes'[t].status # "absent" => nodes'[t] = nodes[t],
         \A u \in Tasks : sessions'[u].dispatches = sessions[u].dispatches
  PROVE  PlacedByName' /\ CountsAgree'
<1>1. \A q : Dispatches(q)' = Dispatches(q)
  BY DEF Dispatches
<1> QED
  BY <1>1 DEF PlacedByName, CountsAgree

LEMMA ApplyCounts ==
  ASSUME DriverInv, NEW t \in Tasks, NEW e, NEW at, Apply(t, e, at)
  PROVE  \A u \in Tasks : sessions'[u].dispatches = sessions[u].dispatches
BY DEF Apply, DriverInv, DriverTypeOK, TaskSession

LEMMA IdleCounts ==
  ASSUME DriverInv, NEW t \in Tasks, sessions' = IdleAgain(t)
  PROVE  \A u \in Tasks : sessions'[u].dispatches = sessions[u].dispatches
BY DEF IdleAgain, DriverInv, DriverTypeOK, TaskSession

\* A call that ends t charges what it ends.
LEMMA FinishCharges ==
  ASSUME LedgerInv, PlacedByName, CountsAgree, OneCallEach, NEW t \in Tasks, NEW a \in ActualsChoices,
         NEW terminal, finishDispatch(t, a, terminal),
         \A u \in Tasks : sessions'[u].dispatches = sessions[u].dispatches
  PROVE  PlacedByName' /\ CountsAgree'
<1> DEFINE r == nodes[t].root
           S == {t} \cup (IF WallExhaustedWithout(r, t) THEN Cancellable(r) \ {t} ELSE {})
           ends == [x \in Tasks |-> IF x = t THEN terminal ELSE "cancelled"]
           reported == [x \in Tasks |-> IF x = t THEN a ELSE UnknownActuals]
<1>1. nodes[t].status = "active" /\ Leave(r, S, ends, reported)
  BY DEF finishDispatch
<1>2. r \in Tasks
  BY <1>1 DEF LedgerInv, Rooted
<1>3. \A u \in S : nodes[u].status # "absent"
  BY <1>1, <1>2, CancellablePresent
<1>4. reported \in [Tasks -> ActualsChoices \cup {UnknownActuals}]
  OBVIOUS
<1> HIDE DEF r, S, ends, reported
<1> QED
  BY <1>1, <1>2, <1>3, <1>4, LeaveCalls

LEMMA ChargeStep ==
  ASSUME RootsNamed, OneCallEach, DriverInv, LinkInv, LedgerInv, PlacedByName, CountsAgree,
         [OrchestratorNext]_orchestratorVars
  PROVE  PlacedByName' /\ CountsAgree'
<1>1. ASSUME UNCHANGED vars, \A u \in Tasks : sessions'[u].dispatches = sessions[u].dispatches
      PROVE  PlacedByName' /\ CountsAgree'
  BY <1>1, ChargesStay DEF vars
<1>2. ASSUME NEW t \in Tasks, NEW policy \in Policies, UNCHANGED vars, startTask(t, policy)
      PROVE  PlacedByName' /\ CountsAgree'
  <2>1. \A u \in Tasks : sessions'[u].dispatches = sessions[u].dispatches
    BY <1>2 DEF startTask, Session, DriverInv, DriverTypeOK, LinkInv, Linked, RunsNumbered
  <2> QED
    BY <1>1, <1>2, <2>1
<1>3. ASSUME NEW t \in Tasks, NEW e, UNCHANGED vars, applyEvent(t, e) \/ applyCancelled(t)
      PROVE  PlacedByName' /\ CountsAgree'
  BY <1>1, <1>3, ApplyCounts DEF applyEvent, applyCancelled
<1>4. ASSUME NEW t \in Tasks, UNCHANGED vars, annotated(t)
      PROVE  PlacedByName' /\ CountsAgree'
  <2>1. \A u \in Tasks : sessions'[u].dispatches = sessions[u].dispatches
    BY <1>4 DEF annotated, DriverInv, DriverTypeOK, TaskSession
  <2> QED
    BY <1>1, <1>4, <2>1
<1>5. ASSUME NEW t \in Tasks, NEW c, NEW perms, dispatchDenied(t, c, perms)
      PROVE  PlacedByName' /\ CountsAgree'
  <2>1. UNCHANGED ledgers /\ nodes' = [nodes EXCEPT ![t] = NoNode] /\ NoNode.status = "absent"
    BY <1>5 DEF dispatchDenied, admitDispatchDenied, NoNode
  <2>2. \A u \in Tasks : nodes'[u].status # "absent" => nodes'[u] = nodes[u]
    BY <2>1 DEF LedgerInv, TypeOK
  <2>3. \A u \in Tasks : sessions'[u].dispatches = sessions[u].dispatches
    BY <1>5, IdleCounts DEF dispatchDenied
  <2> QED
    BY <2>1, <2>2, <2>3, ChargesStay
<1>6. ASSUME NEW t \in Tasks, notSelected(t)
      PROVE  PlacedByName' /\ CountsAgree'
  BY <1>1, <1>6, IdleCounts DEF notSelected
<1>7. ASSUME NEW t \in Tasks, NEW report \in Reports,
             \A u \in Tasks : sessions'[u].dispatches = sessions[u].dispatches,
             \/ CompleteIfTracked(t, Actuals(report)) \/ CancelIfTracked(t, Actuals(report))
             \/ UNCHANGED vars
      PROVE  PlacedByName' /\ CountsAgree'
  <2>1. \/ completeDispatch(t, Actuals(report)) \/ cancelDispatch(t, Actuals(report)) \/ UNCHANGED vars
    BY <1>7 DEF CompleteIfTracked, CancelIfTracked
  <2>2. Actuals(report) \in ActualsChoices
    BY ReportedActuals
  <2> QED
    BY <1>1, <1>7, <2>1, <2>2, FinishCharges DEF completeDispatch, cancelDispatch
<1>8. ASSUME NEW t \in Tasks, NEW report \in Reports, returnedCancelled(t, report)
      PROVE  PlacedByName' /\ CountsAgree'
  BY <1>7, <1>8, IdleCounts DEF returnedCancelled
<1>9. ASSUME NEW t \in Tasks, NEW disposition, NEW report \in Reports, returned(t, disposition, report)
      PROVE  PlacedByName' /\ CountsAgree'
  <2>1. \A u \in Tasks : sessions'[u].dispatches = sessions[u].dispatches
    BY <1>9, ApplyCounts, IdleCounts DEF returned
  <2> QED
    BY <1>7, <1>9, <2>1 DEF returned
<1>10. ASSUME NEW t \in Tasks, Tell(t)
       PROVE  \A u \in Tasks : sessions'[u].dispatches = sessions[u].dispatches
  BY <1>10, ApplyCounts DEF Tell
<1>11. ASSUME NEW r \in Tasks, cancelRootAndTell(r)
       PROVE  PlacedByName' /\ CountsAgree'
  <2> DEFINE ends == [t \in Tasks |-> "cancelled"]
             unknown == [t \in Tasks |-> UnknownActuals]
  <2>1. Leave(r, Cancellable(r), ends, unknown)
    BY <1>11 DEF cancelRootAndTell, cancelRoot
  <2>2. unknown \in [Tasks -> ActualsChoices \cup {UnknownActuals}]
    OBVIOUS
  <2> HIDE DEF ends, unknown
  <2>3. \A t \in Cancellable(r) : t \in Tasks /\ nodes[t].status # "absent"
    BY CancellablePresent
  <2>4. \A u \in Tasks : sessions'[u].dispatches = sessions[u].dispatches
    BY <1>10, <1>11, <2>3 DEF cancelRootAndTell
  <2> QED
    BY <2>1, <2>2, <2>3, <2>4, LeaveCalls
<1>12. ASSUME NEW t \in Tasks, tellNext(t)
       PROVE  PlacedByName' /\ CountsAgree'
  BY <1>1, <1>10, <1>12 DEF tellNext
<1>13. CASE Tick /\ UNCHANGED <<sessions, telling, log, execution>>
  BY <1>13, ChargesStay DEF Tick
<1>14. CASE UNCHANGED orchestratorVars
  BY <1>1, <1>14 DEF orchestratorVars, vars
<1> QED
  BY <1>2, <1>3, <1>4, <1>5, <1>6, <1>8, <1>9, <1>11, <1>12, <1>13, <1>14, DispatchCharges
     DEF OrchestratorNext

LEMMA ChargeInit == OrchestratorInit => PlacedByName /\ CountsAgree
<1> SUFFICES ASSUME OrchestratorInit PROVE PlacedByName /\ CountsAgree
  OBVIOUS
<1>1. \A t \in Tasks : nodes[t].status = "absent" /\ ledgers[t] = NoLedger /\ sessions[t].dispatches = 0
  BY DEF OrchestratorInit, Init, NoNode, Session
<1>2. ASSUME NEW r \in Tasks PROVE Dispatches(r) = 0
  <2> DEFINE f == [t \in Tasks |-> sessions[t].dispatches]
             S == Team(r)
  <2>1. S \in SUBSET Tasks
    BY DEF Team
  <2>2. IsFiniteSet(S) /\ \A t \in S : f[t] = 0
    BY <1>1, <2>1, SchedulerAssumption, FS_Subset
  <2>3. SumFunctionOnSet(f, S) = 0
    <3> HIDE DEF f, S
    <3> QED
      BY <2>2, SumOfZeros
  <2> QED
    BY <2>3 DEF Dispatches
<1> QED
  BY <1>1, <1>2, NoLedgerCalls DEF PlacedByName, CountsAgree

\* For executors that report one call, every admitted dispatch is charged to
\* its root once and nothing else is, whatever is refused, cancelled, tried
\* again or comes in late (task-orchestrator.ts:274-356, 479-500).
THEOREM DispatchesChargedHolds ==
  RootsNamed /\ OneCallEach => (OrchestratorSpec => []DispatchesCharged)
<1> SUFFICES ASSUME RootsNamed, OneCallEach PROVE OrchestratorSpec => []DispatchesCharged
  OBVIOUS
<1>1. OrchestratorInit => PlacedByName /\ CountsAgree
  BY ChargeInit
<1>2. DriverInv /\ LinkInv /\ LedgerInv /\ PlacedByName /\ CountsAgree /\ [OrchestratorNext]_orchestratorVars
        => PlacedByName' /\ CountsAgree'
  BY ChargeStep
<1>3. CountsAgree => DispatchesCharged
  BY DEF CountsAgree, DispatchesCharged, Calls, Dispatches, Team
<1> QED
  BY <1>1, <1>2, <1>3, DriverInvariant, LinkInvariant, SchedulerLedgers, PTL DEF OrchestratorSpec

\* A task of the driver has one parent, so the assumption of the scheduler's
\* theorem on its tree holds.
LEMMA ParentIsOne == OneParent
BY OrchestratorAssumption DEF OneParent

\* Under the driver the tree and the ledgers of the scheduler are sound with no
\* assumption about its callers (delegation-scheduler.ts:460-640).
THEOREM TreeUnderDriver == OrchestratorSpec => [](LedgersSound /\ TreeConsistent)
BY DriverSchedules, ParentIsOne, LedgersSoundHolds, TreeConsistentHolds, PTL
=============================================================================
