--------------------------- MODULE TaskLifecycle ---------------------------
(***************************************************************************)
(* The life of one task under the reducer of TaskMachine.  Its parent      *)
(* sends what events it likes, in any order; a worker that was dispatched  *)
(* ends in any way; the root may be cancelled at any time; and what other  *)
(* tasks leave of the root's cost is arbitrary at each step.  An event     *)
(* step refuses changes nothing and is not an action.                      *)
(*                                                                         *)
(* While a dispatch runs the parent waits for it (applyEvent awaits        *)
(* executeDispatch), so only a cancellation comes in between.              *)
(***************************************************************************)
EXTENDS TaskMachine, FiniteSets

CONSTANTS
  Policies,        \* policies a task may be started with
  Depths,          \* depths of a task
  Stacks,          \* stacks a selection may return: sequences of rungs
  CostChoices,     \* remaining cost of the root when an event arrives
  MaxRuns          \* bound: dispatches of the task

ASSUME TaskAssumption ==
  /\ NoRung \notin RungIds
  /\ DispatchCost \in Nat
  /\ Policies \subseteq TaskPolicy
  /\ Depths \subseteq Nat
  /\ Stacks \subseteq Seq(RungIds) \ {<<>>}
  /\ CostChoices \subseteq Int
  /\ MaxRuns \in Nat

VARIABLES
  task,            \* the TaskState
  policy,          \* its TaskPolicy
  running,         \* the dispatch being awaited, or Idle
  runs,            \* the dispatches that ended, in order: the run records
  annotations      \* the annotations written, in order

vars == <<task, policy, running, runs, annotations>>

Idle == [phase |-> "idle", floor |-> 0, stack |-> <<>>]

Rungs(stack) == {stack[i] : i \in 1..Len(stack)}

Init ==
  /\ policy \in Policies
  /\ \E depth \in Depths :
       task = [name |-> "intake", depth |-> depth, capabilityRoute |-> "other",
               capabilityFloor |-> 0, originalFloor |-> 0, escalationsUsed |-> 0,
               replansUsed |-> 0, runIds |-> <<>>, selectedRung |-> NoRung]
  /\ running = Idle
  /\ runs = <<>>
  /\ annotations = <<>>

\* The task moves to n and the annotations of the move are written.
Move(n) ==
  /\ task' = n
  /\ annotations' = annotations \o AnnotationOf(task, n)
  /\ UNCHANGED policy

classified(route, floor) ==
  /\ running = Idle
  /\ CanClassify(task)
  /\ Move(Classified(task, route, floor))
  /\ UNCHANGED <<running, runs>>

planned(criteria) ==
  /\ running = Idle
  /\ CanPlan(task, criteria)
  /\ Move(Planned(task))
  /\ UNCHANGED <<running, runs>>

decomposed(childTasks) ==
  /\ running = Idle
  /\ CanDecompose(task, childTasks)
  /\ Move(Decomposed(task))
  /\ UNCHANGED <<running, runs>>

\* A stack is selected, reserved and dispatched.  When the scheduler refuses
\* the reservation the selection is rolled back, which is no step at all.
dispatchSelected(stack) ==
  /\ running = Idle
  /\ Len(runs) < MaxRuns
  /\ CanSelect(task, policy)
  /\ ExcludedRung(task) \notin Rungs(stack)
  /\ Move(Selected(task, stack))
  /\ running' = [phase |-> task.name, floor |-> task.capabilityFloor, stack |-> stack]
  /\ UNCHANGED runs

\* The run record of the awaited dispatch, done by one rung of its stack: the
\* lead, or another one the fallback traversal went on to.
RunRecord(disposition, rung) ==
  [phase |-> running.phase, floor |-> running.floor, lead |-> running.stack[1], rung |-> rung,
   disposition |-> disposition, verdict |-> "none", verifier |-> NoRung]

dispatchCompleted(disposition, rung) ==
  /\ running # Idle
  /\ rung \in Rungs(running.stack)
  /\ CanComplete(task)
  /\ Move(Completed(task, Len(runs) + 1, disposition, policy))
  /\ runs' = Append(runs, RunRecord(disposition, rung))
  /\ running' = Idle

\* A check dispatched from verify, or work whose task was cancelled meanwhile:
\* the run ends and the task does not take note of it.
dispatchEnded(disposition, rung) ==
  /\ running # Idle
  /\ rung \in Rungs(running.stack)
  /\ ~CanComplete(task)
  /\ runs' = Append(runs, RunRecord(disposition, rung))
  /\ running' = Idle
  /\ UNCHANGED <<task, policy, annotations>>

\* A parent that had the check dispatched names the rung that did it.
Verifier ==
  LET last == runs[Len(runs)] IN
  IF last.phase = "verify" /\ last.disposition = "null" THEN last.rung ELSE NoRung

verified(verdict, mode, remainingCost) ==
  LET rung == IF mode = "dispatch" THEN Verifier ELSE NoRung IN
  /\ running = Idle
  /\ CanVerify(task, verdict, mode, rung, policy)
  /\ Move(Verified(task, verdict, policy, remainingCost))
  /\ runs' = [runs EXCEPT ![lastRunId(task)] =
                [@ EXCEPT !.verdict = verdict, !.verifier = rung]]
  /\ UNCHANGED running

escalationAuthorized(toBand, remainingCost) ==
  /\ running = Idle
  /\ CanAuthorizeEscalation(task, toBand, policy, remainingCost)
  /\ Move(EscalationAuthorized(task, toBand))
  /\ UNCHANGED <<running, runs>>

escalationDenied ==
  /\ running = Idle
  /\ CanDenyEscalation(task)
  /\ Move(EscalationDenied(task))
  /\ UNCHANGED <<running, runs>>

cancel ==
  /\ CanCancel(task)
  /\ Move(Cancelled(task))
  /\ UNCHANGED <<running, runs>>

shipAuthorized ==
  /\ running = Idle
  /\ CanShip(task)
  /\ Move(Shipped(task))
  /\ UNCHANGED <<running, runs>>

Next ==
  \/ \E route \in CapabilityRoute, floor \in CapabilityBand : classified(route, floor)
  \/ \E criteria \in BOOLEAN : planned(criteria)
  \/ \E childTasks \in 0..(MAX_DIRECT_FAN_OUT + 1) : decomposed(childTasks)
  \/ \E stack \in Stacks : dispatchSelected(stack)
  \/ \E disposition \in FailureDisposition, rung \in RungIds :
       \/ dispatchCompleted(disposition, rung)
       \/ dispatchEnded(disposition, rung)
  \/ \E verdict \in VerdictKind, mode \in {"parent", "dispatch"}, cost \in CostChoices :
       verified(verdict, mode, cost)
  \/ \E toBand \in CapabilityBand, cost \in CostChoices : escalationAuthorized(toBand, cost)
  \/ escalationDenied
  \/ cancel
  \/ shipAuthorized

Spec == Init /\ [][Next]_vars

----------------------------------------------------------------------------
\* Properties

RunRecords ==
  [phase       : {"dispatch", "verify", "code-review"},
   floor       : CapabilityBand,
   lead        : RungIds,
   rung        : RungIds,
   disposition : FailureDisposition,
   verdict     : VerdictKind \cup {"none"},
   verifier    : RungIds \cup {NoRung}]

TypeOK ==
  /\ task \in TaskState
  /\ policy \in TaskPolicy
  /\ running = Idle \/ /\ running.phase \in {"dispatch", "verify", "code-review"}
                       /\ running.floor \in CapabilityBand
                       /\ running.stack \in Seq(RungIds) \ {<<>>}
  /\ runs \in Seq(RunRecords)
  /\ annotations \in Seq([run : Nat, outcome : Outcome])

\* Escalation and replanning stay within the task's policy over its whole
\* life: the floor is the original one plus one band per escalation, neither
\* cap of the policy is passed by escalating, a child never escalates, and
\* neither counter passes its limit.
WithinPolicy ==
  /\ task.capabilityFloor = task.originalFloor + task.escalationsUsed
  /\ task.escalationsUsed <= policy.maxEscalations
  /\ task.replansUsed <= policy.maxReplans
  /\ task.escalationsUsed > 0 =>
       /\ task.depth = 0
       /\ task.capabilityFloor <= policy.floorCeiling
       /\ task.capabilityFloor <= policy.maxBand

\* The runs of the task's work that ended well, in order.
WorkRuns == {i \in 1..Len(runs) : runs[i].phase = "dispatch" /\ runs[i].disposition = "null"}

LastWorkRun == CHOOSE i \in WorkRuns : \A j \in WorkRuns : j <= i

\* Nothing is accepted on the strength of an earlier attempt: when a task is
\* accepted (or shipped), its last run of work ended well and, unless the
\* policy skips verification, that very run passed; a code review the policy
\* asks for ran after it and ended well.
AcceptedWasVerified ==
  task.name \in {"accepted", "ship"} =>
    /\ WorkRuns # {}
    /\ policy.verification # "skip" => runs[LastWorkRun].verdict = "pass"
    /\ policy.verification # "skip" /\ policy.codeReview = "dispatch" =>
         \E i \in LastWorkRun..Len(runs) :
           runs[i].phase = "code-review" /\ runs[i].disposition = "null"

\* Work is not repeated beyond what the policy pays for: one run, one more for
\* each escalation and one more for each replan.
WorkBounded ==
  Cardinality(WorkRuns) <= 1 + task.escalationsUsed + task.replansUsed

\* The two recovery edges stay apart (ADR 0011, section 3): the floor rises by
\* one band after a quality failure and by nothing after an approach failure,
\* a fallback or a retry.
RecoveryEdgesDistinct ==
  \A i, j \in {k \in 1..Len(runs) : runs[k].phase = "dispatch"} :
    i < j /\ (\A k \in (i+1)..(j-1) : runs[k].phase # "dispatch") =>
      runs[j].floor = runs[i].floor + (IF runs[i].verdict = "fail-quality" THEN 1 ELSE 0)

\* A check, by verification or by code review, never runs on the rung that led
\* the work under check, whatever was selected in between.
ChecksSpareLead ==
  \A i, j \in 1..Len(runs) :
    /\ i < j
    /\ runs[i].phase = "dispatch"
    /\ \A k \in (i+1)..j : runs[k].phase # "dispatch"
    => runs[j].rung # runs[i].lead

\* Each run gets at most one outcome; a task that ended with an outcome has
\* left it on its last run; and one run per escalation is marked escalated.
OutcomesRecorded ==
  /\ \A i, j \in 1..Len(annotations) : annotations[i].run = annotations[j].run => i = j
  /\ task.name \in (TerminalStateName \ {"cancelled"}) =>
       /\ annotations # <<>>
       /\ annotations[Len(annotations)] = [run |-> lastRunId(task), outcome |-> task.name]
  /\ Cardinality({i \in 1..Len(annotations) : annotations[i].outcome = "escalated"})
       = task.escalationsUsed

\* The rows of TASK_TRANSITION_TABLE that change the state.
TransitionTable ==
  {<<"intake", "plan">>, <<"plan", "decompose">>, <<"plan", "dispatch">>,
   <<"decompose", "dispatch">>, <<"dispatch", "rejected">>, <<"dispatch", "verify">>,
   <<"verify", "accepted">>, <<"verify", "code-review">>, <<"code-review", "rejected">>,
   <<"code-review", "accepted">>, <<"verify", "escalate">>,
   <<"verify", "verification-failed">>, <<"verify", "replan">>, <<"verify", "blocked">>,
   <<"escalate", "dispatch">>, <<"escalate", "verification-failed">>,
   <<"replan", "dispatch">>, <<"accepted", "ship">>}
  \cup (TaskStateName \X {"cancelled"})

\* Under a policy that verifies, the reducer moves only along the table declared
\* beside it.
FollowsTransitionTable ==
  [][policy.verification # "skip" /\ task'.name # task.name =>
       <<task.name, task'.name>> \in TransitionTable]_vars

\* A task keeps its type, repeats work only as often as it recovered, and recovers along
\* one edge at a time, whatever sequence of events it is given.
LifeInvariant == TypeOK /\ WorkBounded /\ RecoveryEdgesDistinct
=============================================================================
