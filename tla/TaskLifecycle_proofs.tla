------------------------ MODULE TaskLifecycle_proofs ------------------------
(***************************************************************************)
(* What a task never does, for every policy, depth, stack and history of   *)
(* its root's budget.  What the moves of the reducer return comes first.   *)
(* Inv keeps a task within its policy; LifeInv, after it, keeps its        *)
(* history of runs and annotations.                                        *)
(***************************************************************************)
EXTENDS TaskLifecycle, SequenceTheorems, FiniteSetTheorems, TLAPS

----------------------------------------------------------------------------
\* Moves that change the name of a state and little else

\* A move from s to n within the task states that leaves the floors and the
\* counters as they are.
Quiet(s, n) ==
  /\ n \in TaskState
  /\ n.depth = s.depth
  /\ n.capabilityFloor = s.capabilityFloor
  /\ n.originalFloor = s.originalFloor
  /\ n.escalationsUsed = s.escalationsUsed
  /\ n.replansUsed = s.replansUsed

\* A move that changes nothing but the name is quiet.
LEMMA RenamedQuiet ==
  ASSUME NEW s \in TaskState, NEW name \in TaskStateName
  PROVE  Quiet(s, [s EXCEPT !.name = name])
BY DEF Quiet, TaskState

LEMMA PlannedQuiet ==
  ASSUME NEW s \in TaskState
  PROVE  Quiet(s, Planned(s)) /\ Planned(s).name \notin {"intake", "verify"}
BY RenamedQuiet DEF Planned, TaskState, TaskStateName

LEMMA SelectedQuiet ==
  ASSUME NEW s \in TaskState, NEW stack \in Seq(RungIds) \ {<<>>}
  PROVE  Quiet(s, Selected(s, stack)) /\ Selected(s, stack).name = s.name
<1>1. stack[1] \in RungIds
  OBVIOUS
<1> QED
  BY <1>1 DEF Selected, Quiet, TaskState

LEMMA CompletedQuiet ==
  ASSUME NEW s \in TaskState, NEW runId \in Nat, NEW disposition \in FailureDisposition,
         NEW p \in TaskPolicy, CanComplete(s)
  PROVE  LET n == Completed(s, runId, disposition, p) IN Quiet(s, n) /\ n.name # "intake"
<1>1. CompletedName(s, disposition, p) \in TaskStateName \ {"intake"}
  BY DEF CanComplete, CompletedName, TaskStateName
<1>2. Append(s.runIds, runId) \in Seq(Nat)
  BY DEF TaskState
<1> QED
  BY <1>1, <1>2 DEF Completed, Quiet, TaskState

\* A verdict counts a replan, within the limit, and nothing else.
LEMMA VerifiedCounts ==
  ASSUME NEW s \in TaskState, NEW p \in TaskPolicy, NEW verdict \in VerdictKind,
         NEW cost \in Int, NEW mode, NEW rung, CanVerify(s, verdict, mode, rung, p),
         s.replansUsed <= p.maxReplans
  PROVE  LET n == Verified(s, verdict, p, cost) IN
         /\ n \in TaskState
         /\ n.name \notin {"intake", "verify"}
         /\ n.depth = s.depth
         /\ n.capabilityFloor = s.capabilityFloor
         /\ n.originalFloor = s.originalFloor
         /\ n.escalationsUsed = s.escalationsUsed
         /\ n.replansUsed <= p.maxReplans
<1>1. VerifiedName(s, verdict, p, cost) \in TaskStateName \ {"intake", "verify"}
  BY DEF VerifiedName, VerdictKind, TaskStateName
<1>2. /\ s.replansUsed \in Nat /\ p.maxReplans \in Nat
      /\ s.replansUsed + 1 \in Nat
  BY DEF TaskState, TaskPolicy
<1>3. verdict = "fail-approach" => s.replansUsed + 1 <= p.maxReplans
  BY <1>2 DEF CanVerify
<1> QED
  BY <1>1, <1>2, <1>3 DEF Verified, TaskState

\* The annotations of a move are annotations.
LEMMA AnnotationType ==
  ASSUME NEW s, NEW n \in TaskState
  PROVE  AnnotationOf(s, n) \in Seq([run : Nat, outcome : Outcome])
<1>1. CASE Len(n.runIds) = 0
  BY <1>1 DEF AnnotationOf
<1>2. CASE Len(n.runIds) > 0
  <2> DEFINE One(o) == <<[run |-> lastRunId(n), outcome |-> o]>>
  <2>1. lastRunId(n) \in Nat
    BY <1>2 DEF lastRunId, TaskState
  <2>2. \A o \in Outcome : One(o) \in Seq([run : Nat, outcome : Outcome])
    BY <2>1
  <2>3. CASE n.name \in TerminalStateName \ {"cancelled"}
    <3>1. AnnotationOf(s, n) = One(n.name)
      BY <1>2, <2>3 DEF AnnotationOf, TerminalStateName
    <3>2. n.name \in Outcome
      BY <2>3 DEF TerminalStateName, Outcome
    <3> QED
      BY <2>2, <3>1, <3>2
  <2>4. CASE n.name = "dispatch" /\ s.name = "escalate"
    <3>1. AnnotationOf(s, n) = One("escalated")
      BY <1>2, <2>4 DEF AnnotationOf, TerminalStateName
    <3> QED
      BY <2>2, <3>1 DEF Outcome
  <2>5. CASE ~(n.name \in TerminalStateName \ {"cancelled"}) /\ ~(n.name = "dispatch" /\ s.name = "escalate")
    <3>1. AnnotationOf(s, n) = <<>>
      BY <2>5 DEF AnnotationOf
    <3> QED
      BY <3>1
  <2> QED
    BY <2>3, <2>4, <2>5
<1> QED
  BY <1>1, <1>2 DEF TaskState

----------------------------------------------------------------------------
\* The inductive invariant

\* The task, within its policy: one that is not classified has used nothing.
StateOK ==
  /\ task \in TaskState
  /\ policy \in TaskPolicy
  /\ annotations \in Seq([run : Nat, outcome : Outcome])
  /\ task.name = "intake" => task.escalationsUsed = 0
  /\ WithinPolicy

\* Its runs: there is one by the time it is verified.
RunsOK ==
  /\ running = Idle \/ /\ running.phase \in {"dispatch", "verify", "code-review"}
                       /\ running.floor \in CapabilityBand
                       /\ running.stack \in Seq(RungIds) \ {<<>>}
  /\ runs \in Seq(RunRecords)
  /\ task.name = "verify" => runs # <<>>

Inv == StateOK /\ RunsOK

\* The invariant gives the type invariant.
LEMMA InvTypes == Inv => TypeOK
BY DEF Inv, StateOK, RunsOK, TypeOK

\* A task starts within its policy.
LEMMA InitInv == Init => Inv
<1> SUFFICES ASSUME Init PROVE Inv
  OBVIOUS
<1> USE TaskAssumption DEF Init
<1>1. policy \in TaskPolicy
  OBVIOUS
<1>2. task \in TaskState
  BY DEF TaskState, TaskStateName, CapabilityRoute, CapabilityBand
<1>3. WithinPolicy
  BY <1>1 DEF WithinPolicy, TaskPolicy, CapabilityBand
<1>4. RunsOK
  BY DEF RunsOK
<1> QED
  BY <1>1, <1>2, <1>3, <1>4 DEF Inv, StateOK

\* A move writes annotations.
LEMMA MoveAnnotates ==
  ASSUME StateOK, NEW n \in TaskState, Move(n)
  PROVE  annotations' \in Seq([run : Nat, outcome : Outcome])
<1> DEFINE A == [run : Nat, outcome : Outcome]
<1>1. AnnotationOf(task, n) \in Seq(A)
  BY AnnotationType
<1>2. annotations \in Seq(A) /\ annotations' = annotations \o AnnotationOf(task, n)
  BY DEF StateOK, Move
<1> HIDE DEF A
<1>3. annotations' \in Seq(A)
  BY <1>1, <1>2
<1> QED
  BY <1>3 DEF A

\* A quiet move keeps the task within its policy.
LEMMA QuietMove ==
  ASSUME StateOK, NEW n, Quiet(task, n), n.name # "intake" \/ n.name = task.name, Move(n)
  PROVE  StateOK'
<1>1. annotations' \in Seq([run : Nat, outcome : Outcome])
  BY MoveAnnotates DEF Quiet
<1> QED
  BY <1>1 DEF StateOK, Quiet, Move, WithinPolicy

\* A run that ends leaves a run record.
LEMMA RunEnds ==
  ASSUME RunsOK, running # Idle, NEW disposition \in FailureDisposition,
         NEW rung \in RungIds, runs' = Append(runs, RunRecord(disposition, rung)),
         running' = Idle
  PROVE  RunsOK'
<1>1. running.stack[1] \in RungIds
  BY DEF RunsOK
<1>2. RunRecord(disposition, rung) \in RunRecords
  BY <1>1 DEF RunsOK, RunRecord, RunRecords
<1>3. runs' \in Seq(RunRecords) /\ runs' # <<>>
  BY <1>2 DEF RunsOK
<1> QED
  BY <1>3 DEF RunsOK

\* A step that starts and ends no run, on a task it does not bring to verify.
LEMMA NoRun ==
  ASSUME RunsOK, UNCHANGED <<running, runs>>, task'.name = "verify" => task.name = "verify"
  PROVE  RunsOK'
BY DEF RunsOK

\* No event takes a task out of its policy, whichever state it arrives in.
LEMMA NextInv == Inv /\ [Next]_vars => Inv'
<1> SUFFICES ASSUME Inv, [Next]_vars PROVE Inv'
  OBVIOUS
<1>types. /\ StateOK
          /\ RunsOK
          /\ task \in TaskState
          /\ policy \in TaskPolicy
          /\ runs \in Seq(RunRecords)
  BY DEF Inv, StateOK, RunsOK
<1>1. ASSUME NEW route \in CapabilityRoute, NEW floor \in CapabilityBand,
             classified(route, floor)
      PROVE  Inv'
  <2> DEFINE n == Classified(task, route, floor)
  <2>1. /\ n \in TaskState
        /\ n.name = "plan"
        /\ n.capabilityFloor = floor
        /\ n.originalFloor = floor
        /\ n.escalationsUsed = task.escalationsUsed
        /\ n.replansUsed = task.replansUsed
    BY <1>types DEF Classified, TaskState, TaskStateName
  <2>2. task.escalationsUsed = 0
    BY <1>1 DEF classified, CanClassify, Inv, StateOK
  <2>3. Move(n) /\ UNCHANGED <<running, runs>>
    BY <1>1 DEF classified
  <2> HIDE DEF n
  <2>4. annotations' \in Seq([run : Nat, outcome : Outcome])
    BY <1>types, <2>1, <2>3, MoveAnnotates
  <2>5. WithinPolicy'
    BY <1>types, <2>1, <2>2, <2>3 DEF Move, StateOK, WithinPolicy, CapabilityBand
  <2>6. StateOK'
    BY <1>types, <2>1, <2>3, <2>4, <2>5 DEF Move, StateOK
  <2>7. RunsOK'
    BY <1>types, <2>1, <2>3, NoRun DEF Move
  <2> QED
    BY <2>6, <2>7 DEF Inv
<1>2. ASSUME NEW criteria \in BOOLEAN, planned(criteria)
      PROVE  Inv'
  <2>1. StateOK'
    BY <1>2, <1>types, PlannedQuiet, QuietMove DEF planned
  <2>2. RunsOK'
    BY <1>2, <1>types, PlannedQuiet, NoRun DEF planned, Move
  <2> QED
    BY <2>1, <2>2 DEF Inv
<1>3. ASSUME NEW childTasks \in 0..(MAX_DIRECT_FAN_OUT + 1), decomposed(childTasks)
      PROVE  Inv'
  <2>1. Quiet(task, Decomposed(task)) /\ Decomposed(task).name = "dispatch"
    BY <1>types, RenamedQuiet DEF Decomposed, TaskState, TaskStateName
  <2>2. StateOK'
    BY <1>3, <1>types, <2>1, QuietMove DEF decomposed
  <2>3. RunsOK'
    BY <1>3, <1>types, <2>1, NoRun DEF decomposed, Move
  <2> QED
    BY <2>2, <2>3 DEF Inv
<1>4. ASSUME NEW stack \in Stacks, dispatchSelected(stack)
      PROVE  Inv'
  <2>1. stack \in Seq(RungIds) \ {<<>>}
    BY TaskAssumption
  <2>2. Quiet(task, Selected(task, stack)) /\ Selected(task, stack).name = task.name
    BY <1>types, <2>1, SelectedQuiet
  <2>3. StateOK'
    BY <1>4, <1>types, <2>2, QuietMove DEF dispatchSelected
  <2>4. task.name \in {"dispatch", "verify", "code-review"}
    BY <1>4 DEF dispatchSelected, CanSelect
  <2>5. task.capabilityFloor \in CapabilityBand
    BY <1>types DEF TaskState
  <2>6. RunsOK'
    BY <1>4, <1>types, <2>1, <2>2, <2>4, <2>5 DEF dispatchSelected, Move, RunsOK
  <2> QED
    BY <2>3, <2>6 DEF Inv
<1>5. ASSUME NEW disposition \in FailureDisposition, NEW rung \in RungIds,
             dispatchCompleted(disposition, rung)
      PROVE  Inv'
  <2>1. Len(runs) + 1 \in Nat
    BY <1>types
  <2>2. CanComplete(task)
    BY <1>5 DEF dispatchCompleted
  <2>3. StateOK'
    BY <1>5, <1>types, <2>1, <2>2, CompletedQuiet, QuietMove DEF dispatchCompleted
  <2>4. RunsOK'
    BY <1>5, <1>types, RunEnds DEF dispatchCompleted
  <2> QED
    BY <2>3, <2>4 DEF Inv
<1>6. ASSUME NEW disposition \in FailureDisposition, NEW rung \in RungIds,
             dispatchEnded(disposition, rung)
      PROVE  Inv'
  <2>1. StateOK'
    BY <1>6, <1>types DEF dispatchEnded, StateOK, WithinPolicy
  <2>2. RunsOK'
    BY <1>6, <1>types, RunEnds DEF dispatchEnded
  <2> QED
    BY <2>1, <2>2 DEF Inv
<1>7. ASSUME NEW verdict \in VerdictKind, NEW mode \in {"parent", "dispatch"},
             NEW cost \in CostChoices, verified(verdict, mode, cost)
      PROVE  Inv'
  <2> DEFINE n == Verified(task, verdict, policy, cost)
             rung == IF mode = "dispatch" THEN Verifier ELSE NoRung
  <2>1. /\ task.name = "verify"
        /\ CanVerify(task, verdict, mode, rung, policy)
        /\ Move(n)
        /\ running' = running
        /\ runs' = [runs EXCEPT ![lastRunId(task)] =
                      [@ EXCEPT !.verdict = verdict, !.verifier = rung]]
    BY <1>7 DEF verified, CanVerify
  <2>2. rung \in RungIds \cup {NoRung}
    <3>1. runs # <<>>
      BY <1>types, <2>1 DEF RunsOK
    <3>2. runs[Len(runs)] \in RunRecords
      BY <1>types, <3>1
    <3> QED
      BY <3>2 DEF Verifier, RunRecords
  <2> HIDE DEF rung
  <2>3. /\ cost \in Int
        /\ task.replansUsed <= policy.maxReplans
    BY <1>types, TaskAssumption DEF StateOK, WithinPolicy
  <2>4. /\ n \in TaskState
        /\ n.name \notin {"intake", "verify"}
        /\ n.depth = task.depth
        /\ n.capabilityFloor = task.capabilityFloor
        /\ n.originalFloor = task.originalFloor
        /\ n.escalationsUsed = task.escalationsUsed
        /\ n.replansUsed <= policy.maxReplans
    BY <1>types, <2>1, <2>3, VerifiedCounts
  <2> HIDE DEF n
  <2>5. annotations' \in Seq([run : Nat, outcome : Outcome])
    BY <1>types, <2>1, <2>4, MoveAnnotates
  <2>6. StateOK'
    BY <1>types, <2>1, <2>4, <2>5 DEF StateOK, Move, WithinPolicy
  <2>7. runs' \in Seq(RunRecords)
    <3> DEFINE k == lastRunId(task)
               judged == [runs[k] EXCEPT !.verdict = verdict, !.verifier = rung]
    <3>1. runs' = [runs EXCEPT ![k] = judged]
      BY <2>1
    <3>2. CASE k \in 1..Len(runs)
      <4>1. runs[k] \in RunRecords
        BY <1>types, <3>2
      <4>2. judged \in RunRecords
        BY <2>2, <4>1 DEF RunRecords
      <4> HIDE DEF k, judged
      <4> QED
        BY <1>types, <3>1, <3>2, <4>2, ExceptSeq
    <3>3. CASE k \notin 1..Len(runs)
      <4> HIDE DEF k, judged
      <4>1. runs' = runs
        BY <1>types, <3>1, <3>3
      <4> QED
        BY <1>types, <4>1
    <3> QED
      BY <3>2, <3>3
  <2>8. RunsOK'
    BY <1>types, <2>1, <2>4, <2>7 DEF RunsOK, Move
  <2> QED
    BY <2>6, <2>8 DEF Inv
<1>8. ASSUME NEW toBand \in CapabilityBand, NEW cost \in CostChoices,
             escalationAuthorized(toBand, cost)
      PROVE  Inv'
  <2> DEFINE n == EscalationAuthorized(task, toBand)
  <2>1. task.escalationsUsed \in Nat /\ task.escalationsUsed + 1 \in Nat
    BY <1>types DEF TaskState
  <2>2. /\ n \in TaskState
        /\ n.name = "dispatch"
        /\ n.depth = task.depth
        /\ n.capabilityFloor = toBand
        /\ n.originalFloor = task.originalFloor
        /\ n.escalationsUsed = task.escalationsUsed + 1
        /\ n.replansUsed = task.replansUsed
    BY <1>types, <2>1 DEF EscalationAuthorized, TaskState, TaskStateName
  <2>3. /\ toBand = task.capabilityFloor + 1
        /\ task.depth = 0
        /\ task.escalationsUsed < policy.maxEscalations
        /\ toBand <= policy.floorCeiling
        /\ toBand <= policy.maxBand
    BY <1>8 DEF escalationAuthorized, CanAuthorizeEscalation, EscalationAllowed,
                nextEscalationBand
  <2>4. Move(n) /\ UNCHANGED <<running, runs>>
    BY <1>8 DEF escalationAuthorized
  <2>5. /\ task.originalFloor \in Int
        /\ task.capabilityFloor \in Int
        /\ policy.maxEscalations \in Nat
        /\ task.capabilityFloor = task.originalFloor + task.escalationsUsed
        /\ task.replansUsed <= policy.maxReplans
    BY <1>types DEF StateOK, WithinPolicy, TaskState, TaskPolicy, CapabilityBand
  <2> HIDE DEF n
  <2>6. WithinPolicy'
    BY <2>1, <2>2, <2>3, <2>4, <2>5 DEF WithinPolicy, Move
  <2>7. annotations' \in Seq([run : Nat, outcome : Outcome])
    BY <1>types, <2>2, <2>4, MoveAnnotates
  <2>8. StateOK'
    BY <1>types, <2>2, <2>4, <2>6, <2>7 DEF StateOK, Move
  <2>9. RunsOK'
    BY <1>types, <2>2, <2>4, NoRun DEF Move
  <2> QED
    BY <2>8, <2>9 DEF Inv
<1>9. CASE escalationDenied
  <2>1. Quiet(task, EscalationDenied(task)) /\ EscalationDenied(task).name = "verification-failed"
    BY <1>types, RenamedQuiet DEF EscalationDenied, TaskState, TaskStateName
  <2>2. StateOK'
    BY <1>9, <1>types, <2>1, QuietMove DEF escalationDenied
  <2>3. RunsOK'
    BY <1>9, <1>types, <2>1, NoRun DEF escalationDenied, Move
  <2> QED
    BY <2>2, <2>3 DEF Inv
<1>10. CASE cancel
  <2>1. Quiet(task, Cancelled(task)) /\ Cancelled(task).name = "cancelled"
    BY <1>types, RenamedQuiet DEF Cancelled, TaskState, TaskStateName
  <2>2. StateOK'
    BY <1>10, <1>types, <2>1, QuietMove DEF cancel
  <2>3. RunsOK'
    BY <1>10, <1>types, <2>1, NoRun DEF cancel, Move
  <2> QED
    BY <2>2, <2>3 DEF Inv
<1>11. CASE shipAuthorized
  <2>1. Quiet(task, Shipped(task)) /\ Shipped(task).name = "ship"
    BY <1>types, RenamedQuiet DEF Shipped, TaskState, TaskStateName
  <2>2. StateOK'
    BY <1>11, <1>types, <2>1, QuietMove DEF shipAuthorized
  <2>3. RunsOK'
    BY <1>11, <1>types, <2>1, NoRun DEF shipAuthorized, Move
  <2> QED
    BY <2>2, <2>3 DEF Inv
<1>12. CASE UNCHANGED vars
  BY <1>12 DEF vars, Inv, StateOK, RunsOK, WithinPolicy
<1> QED
  BY <1>1, <1>2, <1>3, <1>4, <1>5, <1>6, <1>7, <1>8, <1>9, <1>10, <1>11, <1>12 DEF Next

----------------------------------------------------------------------------
\* The task state, the run records and the annotations keep their types.
THEOREM TypeCorrect == Spec => []TypeOK
<1> QED
  BY InitInv, NextInv, InvTypes, PTL DEF Spec

\* Whatever the parent sends and whatever its siblings spend, a task escalates
\* and replans only within its policy (escalationGuardFailure, its recheck on
\* authorization, and the replan limit of step).
THEOREM WithinPolicyHolds == Spec => []WithinPolicy
<1>1. Inv => WithinPolicy
  BY DEF Inv, StateOK
<1> QED
  BY InitInv, NextInv, <1>1, PTL DEF Spec

----------------------------------------------------------------------------
(***************************************************************************)
(* The history of a task.  LifeInv says where each name of the reducer     *)
(* stands in the runs so far: which run the verdict will be about, on      *)
(* which floor and rung it ran, and whether another run of work is due.    *)
(***************************************************************************)

\* Run i is the last one of phase dispatch, whatever became of it.
LastDispatch(i) ==
  /\ i \in 1..Len(runs)
  /\ runs[i].phase = "dispatch"
  /\ \A k \in (i+1)..Len(runs) : runs[k].phase # "dispatch"

\* A run of work is awaited.
WorkAwaited == running # Idle /\ running.phase = "dispatch"

\* Work may still be dispatched before anything is verified.
WorkDue == task.name \in {"intake", "plan", "decompose", "dispatch", "replan"} \/ WorkAwaited

\* What is awaited was selected in this state of the task, or in the one that
\* was cancelled meanwhile.
AwaitedOK ==
  /\ task.name \in {"intake", "plan", "decompose"} => runs = <<>>
  /\ running # Idle =>
       /\ task.name \in {running.phase, "cancelled"}
       /\ running.floor = task.capabilityFloor
       /\ IF running.phase = "dispatch" THEN running.stack[1] = task.selectedRung
                                        ELSE task.selectedRung \notin Rungs(running.stack)

\* The rung a check must leave out is the lead of the last work.
LeadsOK ==
  /\ ChecksSpareLead
  /\ ~WorkAwaited => \A i \in 1..Len(runs) : LastDispatch(i) => runs[i].lead = task.selectedRung

NextFloor(run) == run.floor + (IF run.verdict = "fail-quality" THEN 1 ELSE 0)

FloorsOK ==
  /\ RecoveryEdgesDistinct
  /\ \A i \in 1..Len(runs) : LastDispatch(i) =>
       /\ WorkDue => task.capabilityFloor = NextFloor(runs[i])
       /\ task.name \in {"verify", "escalate"} => task.capabilityFloor = runs[i].floor
       /\ task.name = "escalate" => runs[i].verdict = "fail-quality"

WorkOK ==
  /\ WorkBounded
  /\ WorkDue => Cardinality(WorkRuns) <= task.escalationsUsed + task.replansUsed

IsLastWork(w) == w \in WorkRuns /\ \A j \in WorkRuns : j <= w

\* Run w of work passed, and the code review the policy asks for came after it.
Passed(w) == policy.verification # "skip" => runs[w].verdict = "pass"

Reviewed(w) ==
  policy.verification # "skip" /\ policy.codeReview = "dispatch" =>
    \E i \in w..Len(runs) : runs[i].phase = "code-review" /\ runs[i].disposition = "null"

JudgedOK ==
  /\ task.name = "verify" =>
       LastDispatch(lastRunId(task)) /\ runs[lastRunId(task)].disposition = "null"
  /\ task.name \in {"code-review", "accepted", "ship"} =>
       \E w \in 1..Len(runs) :
         /\ IsLastWork(w) /\ Passed(w)
         /\ task.name # "code-review" => Reviewed(w)

NotesOK ==
  /\ OutcomesRecorded
  /\ \A k \in 1..Len(annotations) : annotations[k].run \in 1..Len(runs)
  /\ \A k \in 1..Len(task.runIds) : task.runIds[k] \in 1..Len(runs)
  /\ task.name \in {"verify", "code-review", "escalate"} =>
       /\ task.runIds # <<>>
       /\ \A k \in 1..Len(annotations) : annotations[k].run # lastRunId(task)

LifeInv == Inv /\ AwaitedOK /\ LeadsOK /\ FloorsOK /\ WorkOK /\ JudgedOK /\ NotesOK


\* The annotations the life of a task leaves.
Annotation == [run : Nat, outcome : Outcome]

Escalations == {i \in 1..Len(annotations) : annotations[i].outcome = "escalated"}

\* A move that writes an annotation at all.
Annotates(s, n) ==
  n.name \in (TerminalStateName \ {"cancelled"}) \/ (s.name = "escalate" /\ n.name = "dispatch")

LEMMA NoAnnotation ==
  ASSUME NEW s, NEW n, ~Annotates(s, n) PROVE AnnotationOf(s, n) = <<>>
BY DEF Annotates, AnnotationOf

LEMMA OneAnnotation ==
  ASSUME NEW s, NEW n \in TaskState, n.runIds # <<>>, Annotates(s, n)
  PROVE  /\ AnnotationOf(s, n) =
              <<[run |-> lastRunId(n),
                 outcome |-> IF n.name = "dispatch" THEN "escalated" ELSE n.name]>>
         /\ n.name # "dispatch" => n.name \in Outcome \ {"escalated"}
         /\ lastRunId(n) \in Nat
<1>1. Len(n.runIds) > 0 /\ lastRunId(n) \in Nat
  BY DEF TaskState, lastRunId
<1>2. "dispatch" \notin TerminalStateName
  BY DEF TerminalStateName
<1> QED
  BY <1>1, <1>2 DEF Annotates, AnnotationOf, TerminalStateName, Outcome

\* Finite sets of indices of a sequence.
LEMMA IndexSets ==
  ASSUME NEW n \in Nat, NEW A \in SUBSET (1..n)
  PROVE  /\ IsFiniteSet(A) /\ Cardinality(A) \in Nat
         /\ n + 1 \notin A /\ Cardinality(A \cup {n + 1}) = Cardinality(A) + 1
<1>1. IsFiniteSet(1..n)
  BY FS_Interval
<1>2. IsFiniteSet(A)
  BY <1>1, FS_Subset
<1>3. n + 1 \notin A
  OBVIOUS
<1> QED
  BY <1>2, <1>3, FS_AddElement, FS_CardinalityType

\* One more annotation, about a run that had none.
LEMMA Annotated ==
  ASSUME annotations \in Seq(Annotation), NEW x \in Nat, NEW o \in Outcome,
         annotations' = annotations \o <<[run |-> x, outcome |-> o]>>,
         \A k \in 1..Len(annotations) : annotations[k].run # x,
         \A i, j \in 1..Len(annotations) : annotations[i].run = annotations[j].run => i = j
  PROVE  /\ annotations' # <<>> /\ annotations'[Len(annotations')] = [run |-> x, outcome |-> o]
         /\ \A k \in 1..Len(annotations') :
              (k \in 1..Len(annotations) /\ annotations'[k] = annotations[k]) \/ annotations'[k].run = x
         /\ \A i, j \in 1..Len(annotations') : annotations'[i].run = annotations'[j].run => i = j
         /\ Cardinality(Escalations') = Cardinality(Escalations) + (IF o = "escalated" THEN 1 ELSE 0)
<1> DEFINE a == [run |-> x, outcome |-> o]
           n == Len(annotations)
<1>1. a \in Annotation /\ a.run = x /\ a.outcome = o
  BY DEF Annotation
<1>2. annotations' = Append(annotations, a)
  BY <1>1, AppendIsConcat
<1> HIDE DEF a
<1>3. /\ n \in Nat /\ Len(annotations') = n + 1 /\ annotations' # <<>>
      /\ \A k \in 1..n : annotations'[k] = annotations[k]
      /\ annotations'[n + 1] = a
  BY <1>1, <1>2, AppendProperties
<1>4. \A k \in 1..n+1 : k \in 1..n \/ k = n + 1
  BY <1>3
<1>5. \A k \in 1..Len(annotations') :
        (k \in 1..n /\ annotations'[k] = annotations[k]) \/ (k = n + 1 /\ annotations'[k].run = x)
  BY <1>1, <1>3, <1>4
<1>6. \A i, j \in 1..Len(annotations') : annotations'[i].run = annotations'[j].run => i = j
  BY <1>5
<1>7. Cardinality(Escalations') = Cardinality(Escalations) + (IF o = "escalated" THEN 1 ELSE 0)
  <2>1. Escalations' = {k \in 1..n+1 : annotations'[k].outcome = "escalated"}
    BY <1>3 DEF Escalations
  <2>2. Escalations \in SUBSET (1..n)
    BY DEF Escalations
  <2>3. CASE o = "escalated"
    <3>1. Escalations' = Escalations \cup {n + 1}
      BY <1>1, <1>3, <1>4, <2>1, <2>3 DEF Escalations
    <3> QED
      BY <1>3, <2>2, <2>3, <3>1, IndexSets
  <2>4. CASE o # "escalated"
    <3>1. Escalations' = Escalations
      BY <1>1, <1>3, <1>4, <2>1, <2>4 DEF Escalations
    <3>2. Cardinality(Escalations) \in Nat
      BY <1>3, <2>2, IndexSets
    <3> QED
      BY <2>4, <3>1, <3>2
  <2> QED
    BY <2>3, <2>4
<1> QED
  BY <1>1, <1>3, <1>5, <1>6, <1>7 DEF a

\* A move keeps the annotations in order if it has a run to annotate that has
\* none yet, and counts an escalation when it is one.
LEMMA MoveNotes ==
  ASSUME NotesOK, task \in TaskState, annotations \in Seq(Annotation), Len(runs) \in Nat,
         NEW n \in TaskState, Move(n),
         Len(runs') \in Nat, Len(runs) <= Len(runs'),
         \A k \in 1..Len(n.runIds) : n.runIds[k] \in 1..Len(runs'),
         n.escalationsUsed = task.escalationsUsed
                             + (IF task.name = "escalate" /\ n.name = "dispatch" THEN 1 ELSE 0),
         Annotates(task, n) \/ n.name \in {"verify", "code-review", "escalate"} =>
           /\ n.runIds # <<>>
           /\ \A k \in 1..Len(annotations) : annotations[k].run # lastRunId(n)
  PROVE  NotesOK'
<1>1. task' = n /\ annotations' = annotations \o AnnotationOf(task, n)
  BY DEF Move
<1>2. /\ \A i, j \in 1..Len(annotations) : annotations[i].run = annotations[j].run => i = j
      /\ Cardinality(Escalations) = task.escalationsUsed
      /\ \A k \in 1..Len(annotations) : annotations[k].run \in 1..Len(runs)
  BY DEF NotesOK, OutcomesRecorded, Escalations
<1>3. task.escalationsUsed \in Nat
  BY DEF TaskState
<1>4. \A k \in 1..Len(annotations) : annotations[k].run \in 1..Len(runs')
  BY <1>2
<1>5. CASE ~Annotates(task, n)
  <2>1. annotations' = annotations
    BY <1>1, <1>5, NoAnnotation, ConcatEmptySeq
  <2>2. n.escalationsUsed = task.escalationsUsed /\ n.name \notin TerminalStateName \ {"cancelled"}
    BY <1>3, <1>5 DEF Annotates
  <2>3. Cardinality(Escalations') = n.escalationsUsed
    BY <1>2, <2>1, <2>2 DEF Escalations
  <2>4. OutcomesRecorded'
    BY <1>1, <1>2, <2>1, <2>2, <2>3 DEF OutcomesRecorded, Escalations
  <2> QED
    BY <1>1, <1>4, <2>1, <2>4 DEF NotesOK
<1>6. CASE Annotates(task, n)
  <2> DEFINE o == IF n.name = "dispatch" THEN "escalated" ELSE n.name
             x == lastRunId(n)
  <2>1. /\ AnnotationOf(task, n) = <<[run |-> x, outcome |-> o]>>
        /\ n.name # "dispatch" => n.name \in Outcome \ {"escalated"}
        /\ x \in Nat
    BY <1>6, OneAnnotation
  <2>2. o \in Outcome
    BY <2>1 DEF Outcome
  <2>3. x \in 1..Len(runs')
    BY <1>6 DEF lastRunId, TaskState
  <2>4. \A k \in 1..Len(annotations) : annotations[k].run # x
    BY <1>6
  <2>5. o = "escalated" <=> task.name = "escalate" /\ n.name = "dispatch"
    BY <1>6, <2>1 DEF Annotates, TerminalStateName
  <2>6. n.name # "dispatch" => o = n.name
    OBVIOUS
  <2>11. n.name \notin {"verify", "code-review", "escalate"}
    BY <1>6 DEF Annotates, TerminalStateName
  <2>12. n.name \in (TerminalStateName \ {"cancelled"}) => n.name # "dispatch"
    BY DEF TerminalStateName
  <2> HIDE DEF o, x
  <2>7. /\ annotations' # <<>> /\ annotations'[Len(annotations')] = [run |-> x, outcome |-> o]
        /\ \A k \in 1..Len(annotations') :
             (k \in 1..Len(annotations) /\ annotations'[k] = annotations[k]) \/ annotations'[k].run = x
        /\ \A i, j \in 1..Len(annotations') : annotations'[i].run = annotations'[j].run => i = j
        /\ Cardinality(Escalations') = Cardinality(Escalations) + (IF o = "escalated" THEN 1 ELSE 0)
    BY <1>1, <1>2, <2>1, <2>2, <2>4, Annotated
  <2>8. \A k \in 1..Len(annotations') : annotations'[k].run \in 1..Len(runs')
    BY <1>4, <2>3, <2>7
  <2>9. Cardinality(Escalations') = n.escalationsUsed
    BY <1>2, <2>5, <2>7
  <2>10. OutcomesRecorded'
    BY <1>1, <2>6, <2>7, <2>9, <2>12 DEF OutcomesRecorded, Escalations, x
  <2> QED
    BY <1>1, <2>8, <2>10, <2>11 DEF NotesOK
<1> QED
  BY <1>5, <1>6


----------------------------------------------------------------------------
\* What ends, and what is judged

\* The awaited run ends and r is put down for it.
RunEnded(r) ==
  /\ Len(runs) \in Nat /\ Len(runs') = Len(runs) + 1
  /\ \A k \in 1..Len(runs) : runs'[k] = runs[k]
  /\ runs'[Len(runs) + 1] = r
  /\ running # Idle /\ running' = Idle
  /\ r.phase = running.phase /\ r.floor = task.capabilityFloor /\ r.verdict = "none"
  /\ r.lead = running.stack[1] /\ r.rung \in Rungs(running.stack)

\* The verdict v is put down on run w and nothing else changes.
RunJudged(w, v) ==
  /\ Len(runs) \in Nat /\ w \in 1..Len(runs) /\ Len(runs') = Len(runs)
  /\ \A k \in 1..Len(runs) :
       /\ runs'[k].phase = runs[k].phase /\ runs'[k].floor = runs[k].floor
       /\ runs'[k].lead = runs[k].lead /\ runs'[k].rung = runs[k].rung
       /\ runs'[k].disposition = runs[k].disposition
       /\ runs'[k].verdict = IF k = w THEN v ELSE runs[k].verdict
  /\ running = Idle /\ running' = Idle

\* The last dispatch run after a run has ended.
LEMMA LastAfterRun ==
  ASSUME NEW r, RunEnded(r)
  PROVE  /\ r.phase = "dispatch" => \A i \in 1..Len(runs') : LastDispatch(i)' => i = Len(runs) + 1
         /\ r.phase = "dispatch" => \A i \in 1..Len(runs') : i = Len(runs) + 1 => LastDispatch(i)'
         /\ r.phase # "dispatch" =>
              /\ \A i \in 1..Len(runs') : LastDispatch(i)' => i \in 1..Len(runs) /\ LastDispatch(i)
              /\ \A i \in 1..Len(runs) : LastDispatch(i) => LastDispatch(i)'
<1> DEFINE m == Len(runs)
<1>1. /\ m \in Nat /\ Len(runs') = m + 1 /\ runs'[m + 1] = r
      /\ \A k \in 1..m : runs'[k] = runs[k]
      /\ \A k \in 1..m+1 : k \in 1..m \/ k = m + 1
  BY DEF RunEnded
<1> HIDE DEF m
<1>2. ASSUME r.phase = "dispatch", NEW i \in 1..m+1, LastDispatch(i)' PROVE i = m + 1
  <2>1. \A k \in (i+1)..(m+1) : runs'[k].phase # "dispatch"
    BY <1>1, <1>2 DEF LastDispatch
  <2> QED
    BY <1>1, <1>2, <2>1
<1>3. ASSUME r.phase = "dispatch", NEW i \in 1..m+1, i = m + 1 PROVE LastDispatch(i)'
  <2>1. (i + 1)..(m + 1) = {}
    BY <1>1, <1>3
  <2> QED
    BY <1>1, <1>3, <2>1 DEF LastDispatch
<1>4. ASSUME r.phase # "dispatch", NEW i \in 1..m+1, LastDispatch(i)'
      PROVE  i \in 1..m /\ LastDispatch(i)
  <2>1. runs'[i].phase = "dispatch" /\ \A k \in (i+1)..(m+1) : runs'[k].phase # "dispatch"
    BY <1>1, <1>4 DEF LastDispatch
  <2>2. i \in 1..m
    BY <1>1, <1>4, <2>1
  <2>3. \A k \in (i+1)..m : k \in (i+1)..(m+1) /\ runs'[k] = runs[k]
    BY <1>1, <2>2
  <2> QED
    BY <1>1, <2>1, <2>2, <2>3 DEF LastDispatch, m
<1>5. ASSUME r.phase # "dispatch", NEW i \in 1..m, LastDispatch(i) PROVE LastDispatch(i)'
  <2>1. runs[i].phase = "dispatch" /\ \A k \in (i+1)..m : runs[k].phase # "dispatch"
    BY <1>5 DEF LastDispatch, m
  <2>2. \A k \in (i+1)..(m+1) : k \in (i+1)..m \/ k = m + 1
    BY <1>1
  <2>3. \A k \in (i+1)..m : k \in 1..m
    BY <1>1
  <2>4. \A k \in (i+1)..(m+1) : runs'[k].phase # "dispatch"
    BY <1>1, <1>5, <2>1, <2>2, <2>3
  <2>5. i \in 1..m+1
    BY <1>1
  <2> QED
    BY <1>1, <2>1, <2>4, <2>5 DEF LastDispatch
<1> QED
  BY <1>1, <1>2, <1>3, <1>4, <1>5 DEF m

\* Checks spare the lead, also the check that just ended.
LEMMA RunLeads ==
  ASSUME LeadsOK, AwaitedOK, NEW r, RunEnded(r), task'.selectedRung = task.selectedRung
  PROVE  LeadsOK'
<1> DEFINE m == Len(runs)
<1>1. /\ m \in Nat /\ Len(runs') = m + 1 /\ runs'[m + 1] = r
      /\ \A k \in 1..m : runs'[k] = runs[k]
      /\ \A k \in 1..m+1 : k \in 1..m \/ k = m + 1
      /\ running # Idle /\ running' = Idle /\ r.phase = running.phase
      /\ r.lead = running.stack[1] /\ r.rung \in Rungs(running.stack)
  BY DEF RunEnded
<1>2. ASSUME r.phase # "dispatch", NEW i \in 1..m, LastDispatch(i)
      PROVE  runs[i].lead = task.selectedRung /\ r.rung # runs[i].lead
  BY <1>1, <1>2 DEF LeadsOK, AwaitedOK, WorkAwaited
<1>3. \A i \in 1..m+1 : LastDispatch(i)' => runs'[i].lead = task.selectedRung
  <2>1. CASE r.phase = "dispatch"
    BY <1>1, <2>1, LastAfterRun DEF AwaitedOK
  <2>2. CASE r.phase # "dispatch"
    BY <1>1, <1>2, <2>2, LastAfterRun
  <2> QED
    BY <2>1, <2>2
<1>4. ChecksSpareLead'
  <2> SUFFICES ASSUME NEW i \in 1..m+1, NEW j \in 1..m+1, i < j, runs'[i].phase = "dispatch",
                      \A k \in (i+1)..j : runs'[k].phase # "dispatch"
               PROVE  runs'[j].rung # runs'[i].lead
    BY <1>1 DEF ChecksSpareLead
  <2>1. i \in 1..m
    BY <1>1
  <2>2. CASE j \in 1..m
    <3>1. \A k \in (i+1)..j : k \in 1..m
      BY <1>1, <2>1, <2>2
    <3>2. \A k \in (i+1)..j : runs[k].phase # "dispatch"
      BY <1>1, <3>1
    <3> QED
      BY <1>1, <2>1, <2>2, <3>2 DEF LeadsOK, ChecksSpareLead, m
  <2>3. CASE j = m + 1
    <3>1. r.phase # "dispatch"
      BY <1>1, <2>1, <2>3
    <3>2. LastDispatch(i)'
      BY <1>1, <2>3 DEF LastDispatch
    <3>3. LastDispatch(i)
      BY <1>1, <3>1, <3>2, LastAfterRun
    <3> QED
      BY <1>1, <1>2, <2>1, <2>3, <3>1, <3>3
  <2> QED
    BY <1>1, <2>2, <2>3
<1> QED
  BY <1>1, <1>3, <1>4 DEF LeadsOK

\* Work that ends ran on the floor its predecessor left; what comes next runs
\* on the same one.
LEMMA RunFloors ==
  ASSUME FloorsOK, AwaitedOK, task.capabilityFloor \in Nat, NEW r, RunEnded(r),
         task'.capabilityFloor = task.capabilityFloor,
         task'.name # "escalate", task'.name = "verify" => r.phase = "dispatch" \/ task.name = "verify",
         task'.name \in {"intake", "plan", "decompose", "dispatch", "replan"} => r.phase = "dispatch"
  PROVE  FloorsOK'
<1> DEFINE m == Len(runs)
<1>1. /\ m \in Nat /\ Len(runs') = m + 1 /\ runs'[m + 1] = r
      /\ \A k \in 1..m : runs'[k] = runs[k]
      /\ \A k \in 1..m+1 : k \in 1..m \/ k = m + 1
      /\ running # Idle /\ running' = Idle /\ r.phase = running.phase
      /\ r.floor = task.capabilityFloor /\ r.verdict = "none"
  BY DEF RunEnded
<1>2. RecoveryEdgesDistinct'
  <2> SUFFICES ASSUME NEW i \in 1..m+1, NEW j \in 1..m+1, i < j,
                      runs'[i].phase = "dispatch", runs'[j].phase = "dispatch",
                      \A k \in (i+1)..(j-1) : runs'[k].phase # "dispatch"
               PROVE  runs'[j].floor = NextFloor(runs'[i])
    BY <1>1 DEF RecoveryEdgesDistinct, NextFloor
  <2>1. i \in 1..m
    BY <1>1
  <2>2. \A k \in (i+1)..(j-1) : k \in 1..m
    BY <1>1, <2>1
  <2>3. \A k \in (i+1)..(j-1) : runs[k].phase # "dispatch"
    BY <1>1, <2>2
  <2>4. CASE j \in 1..m
    BY <1>1, <2>1, <2>3, <2>4 DEF FloorsOK, RecoveryEdgesDistinct, NextFloor, m
  <2>5. CASE j = m + 1
    <3>1. (m + 1) - 1 = m
      BY <1>1
    <3>2. LastDispatch(i)
      BY <1>1, <2>1, <2>3, <2>5, <3>1 DEF LastDispatch, m
    <3>3. WorkDue
      BY <1>1, <2>5 DEF WorkDue, WorkAwaited
    <3> QED
      BY <1>1, <2>1, <2>5, <3>2, <3>3 DEF FloorsOK
  <2> QED
    BY <1>1, <2>4, <2>5
<1>3. ASSUME NEW i \in 1..m+1, LastDispatch(i)'
      PROVE  /\ WorkDue' => task'.capabilityFloor = NextFloor(runs'[i])
             /\ task'.name \in {"verify", "escalate"} => task'.capabilityFloor = runs'[i].floor
             /\ task'.name = "escalate" => runs'[i].verdict = "fail-quality"
  <2>1. CASE r.phase = "dispatch"
    <3>1. runs'[i] = r
      BY <1>1, <1>3, <2>1, LastAfterRun
    <3>2. NextFloor(r) = task.capabilityFloor
      BY <1>1 DEF NextFloor
    <3> QED
      BY <1>1, <3>1, <3>2
  <2>2. CASE r.phase # "dispatch"
    <3>1. i \in 1..m /\ LastDispatch(i) /\ runs'[i] = runs[i]
      BY <1>1, <1>3, <2>2, LastAfterRun
    <3>2. ~WorkDue'
      BY <1>1, <2>2 DEF WorkDue, WorkAwaited
    <3> QED
      BY <1>1, <2>2, <3>1, <3>2 DEF FloorsOK
  <2> QED
    BY <2>1, <2>2
<1> QED
  BY <1>1, <1>2, <1>3 DEF FloorsOK

\* A run of work that ends well uses up what was due.
LEMMA RunWork ==
  ASSUME WorkOK, NEW r, RunEnded(r),
         task.escalationsUsed \in Nat, task.replansUsed \in Nat,
         task'.escalationsUsed = task.escalationsUsed, task'.replansUsed = task.replansUsed,
         task'.name \in {"intake", "plan", "decompose", "dispatch", "replan"} =>
           r.phase = "dispatch" /\ r.disposition # "null"
  PROVE  /\ WorkOK'
         /\ WorkRuns' = WorkRuns \cup (IF r.phase = "dispatch" /\ r.disposition = "null"
                                       THEN {Len(runs) + 1} ELSE {})
<1> DEFINE m == Len(runs)
<1>1. /\ m \in Nat /\ Len(runs') = m + 1 /\ runs'[m + 1] = r
      /\ \A k \in 1..m : runs'[k] = runs[k]
      /\ \A k \in 1..m+1 : k \in 1..m \/ k = m + 1
      /\ \A k \in 1..m : k \in 1..m+1
      /\ m + 1 \in 1..m+1
      /\ running # Idle /\ running' = Idle /\ r.phase = running.phase
  BY DEF RunEnded
<1>2. WorkRuns' = WorkRuns \cup (IF r.phase = "dispatch" /\ r.disposition = "null"
                                 THEN {m + 1} ELSE {})
  <2>1. WorkRuns' = {i \in 1..m+1 : runs'[i].phase = "dispatch" /\ runs'[i].disposition = "null"}
    BY <1>1 DEF WorkRuns
  <2>2. WorkRuns = {i \in 1..m : runs[i].phase = "dispatch" /\ runs[i].disposition = "null"}
    BY DEF WorkRuns
  <2> HIDE DEF m
  <2> QED
    BY <1>1, <2>1, <2>2
<1>3. /\ Cardinality(WorkRuns) \in Nat
      /\ Cardinality(WorkRuns \cup {m + 1}) = Cardinality(WorkRuns) + 1
  <2>1. WorkRuns \in SUBSET (1..m)
    BY DEF WorkRuns
  <2> QED
    BY <1>1, <2>1, IndexSets
<1>4. CASE r.phase = "dispatch" /\ r.disposition = "null"
  <2>1. WorkDue
    BY <1>1, <1>4 DEF WorkDue, WorkAwaited
  <2>2. ~WorkDue'
    BY <1>1, <1>4 DEF WorkDue, WorkAwaited
  <2>3. Cardinality(WorkRuns') = Cardinality(WorkRuns) + 1
    BY <1>2, <1>3, <1>4
  <2> HIDE DEF m
  <2> QED
    BY <1>2, <1>3, <2>1, <2>2, <2>3 DEF WorkOK, WorkBounded, m
<1>5. CASE ~(r.phase = "dispatch" /\ r.disposition = "null")
  <2>1. WorkRuns' = WorkRuns
    BY <1>2, <1>5
  <2>2. WorkDue' => WorkDue
    BY <1>1 DEF WorkDue, WorkAwaited
  <2> QED
    BY <1>2, <2>1, <2>2 DEF WorkOK, WorkBounded
<1> QED
  BY <1>4, <1>5


\* What the ended run means for the verdict and for acceptance.
LEMMA RunJudgements ==
  ASSUME JudgedOK, NEW r, RunEnded(r), policy' = policy,
         WorkRuns' = WorkRuns \cup (IF r.phase = "dispatch" /\ r.disposition = "null"
                                    THEN {Len(runs) + 1} ELSE {}),
         task'.name = "verify" =>
           \/ r.phase = "dispatch" /\ r.disposition = "null" /\ lastRunId(task') = Len(runs) + 1
           \/ task.name = "verify" /\ r.phase # "dispatch" /\ lastRunId(task') = lastRunId(task),
         task'.name \in {"code-review", "accepted", "ship"} =>
           \/ r.phase = "dispatch" /\ r.disposition = "null" /\ policy.verification = "skip"
           \/ /\ task.name = "code-review" /\ r.phase = "code-review"
              /\ task'.name # "code-review" => r.disposition = "null"
  PROVE  JudgedOK'
<1> DEFINE m == Len(runs)
<1>1. /\ m \in Nat /\ Len(runs') = m + 1 /\ runs'[m + 1] = r
      /\ \A k \in 1..m : runs'[k] = runs[k] /\ k \in 1..m+1
      /\ \A k \in 1..m+1 : k \in 1..m \/ k = m + 1
      /\ m + 1 \in 1..m+1
  BY DEF RunEnded
<1>2. \A j \in WorkRuns : j \in 1..m
  BY DEF WorkRuns
<1>3. ASSUME task'.name = "verify"
      PROVE  LastDispatch(lastRunId(task))' /\ runs'[lastRunId(task')].disposition = "null"
  <2> DEFINE w == lastRunId(task')
  <2>1. CASE r.phase = "dispatch" /\ r.disposition = "null" /\ w = m + 1
    <3>1. \A i \in 1..Len(runs') : i = m + 1 => LastDispatch(i)'
      BY <2>1, LastAfterRun
    <3>2. w \in 1..Len(runs')
      BY <1>1, <2>1
    <3>3. \A i \in 1..Len(runs') : i = w => LastDispatch(lastRunId(task))'
      BY <2>1, <3>1 DEF LastDispatch
    <3> QED
      BY <1>1, <2>1, <3>2, <3>3
  <2>2. CASE task.name = "verify" /\ r.phase # "dispatch" /\ w = lastRunId(task)
    <3>1. LastDispatch(w) /\ runs[w].disposition = "null"
      BY <2>2 DEF JudgedOK
    <3>2. w \in 1..m
      BY <3>1 DEF LastDispatch
    <3>3. \A i \in 1..m : LastDispatch(i) => LastDispatch(i)'
      BY <2>2, LastAfterRun
    <3>4. \A i \in 1..m : i = w => LastDispatch(lastRunId(task))'
      BY <2>2, <3>1, <3>3 DEF LastDispatch
    <3> QED
      BY <1>1, <3>1, <3>2, <3>4
  <2> QED
    BY <1>3, <2>1, <2>2
<1>4. ASSUME task'.name \in {"code-review", "accepted", "ship"}
      PROVE  \E w \in 1..m+1 :
               /\ IsLastWork(w)' /\ Passed(w)'
               /\ task'.name # "code-review" => Reviewed(w)'
  <2>1. CASE r.phase = "dispatch" /\ r.disposition = "null" /\ policy.verification = "skip"
    <3>1. \A w \in 1..m+1 : w = m + 1 => IsLastWork(w)'
      BY <1>1, <1>2, <2>1 DEF IsLastWork
    <3>2. \A w \in 1..m+1 : Passed(w)' /\ Reviewed(w)'
      BY <2>1 DEF Passed, Reviewed
    <3> QED
      BY <1>1, <3>1, <3>2
  <2>2. CASE /\ task.name = "code-review" /\ r.phase = "code-review"
             /\ task'.name # "code-review" => r.disposition = "null"
    <3>1. PICK w \in 1..m : IsLastWork(w) /\ Passed(w)
      BY <2>2 DEF JudgedOK
    <3>2. IsLastWork(w)'
      BY <2>2, <3>1 DEF IsLastWork
    <3>3. Passed(w)'
      BY <1>1, <3>1 DEF Passed
    <3>4. ASSUME task'.name # "code-review" PROVE Reviewed(w)'
      <4>1. m + 1 \in w..m+1
        BY <1>1, <3>1
      <4> QED
        BY <1>1, <2>2, <3>4, <4>1 DEF Reviewed
    <3> QED
      BY <1>1, <3>1, <3>2, <3>3, <3>4
  <2> QED
    BY <1>4, <2>1, <2>2
<1> QED
  BY <1>1, <1>3, <1>4 DEF JudgedOK

LEMMA OneLastDispatch ==
  ASSUME Len(runs) \in Nat, NEW i \in 1..Len(runs), NEW w \in 1..Len(runs),
         LastDispatch(i), LastDispatch(w)
  PROVE  i = w
BY DEF LastDispatch

\* A verdict leaves every run where it was.
LEMMA LastAfterVerdict ==
  ASSUME NEW w, NEW v, RunJudged(w, v)
  PROVE  /\ \A i \in 1..Len(runs) : LastDispatch(i)' <=> LastDispatch(i)
         /\ WorkRuns' = WorkRuns
<1>1. \A i \in 1..Len(runs) : \A k \in (i+1)..Len(runs) : k \in 1..Len(runs)
  BY DEF RunJudged
<1> QED
  BY <1>1 DEF RunJudged, LastDispatch, WorkRuns

\* A verdict is about the last run of work, and only a failure of approach or
\* of quality makes more work due.
LEMMA VerdictHistory ==
  ASSUME AwaitedOK, LeadsOK, FloorsOK, WorkOK, JudgedOK, task.name = "verify",
         NEW w, NEW v \in VerdictKind, w = lastRunId(task), RunJudged(w, v), policy' = policy,
         task.capabilityFloor \in Nat, task.escalationsUsed \in Nat, task.replansUsed \in Nat,
         task'.selectedRung = task.selectedRung, task'.capabilityFloor = task.capabilityFloor,
         task'.escalationsUsed = task.escalationsUsed,
         task'.replansUsed = task.replansUsed + (IF v = "fail-approach" THEN 1 ELSE 0),
         task'.name \in CASE v = "pass" -> IF policy.codeReview = "dispatch"
                                           THEN {"code-review"} ELSE {"accepted"}
                          [] v = "fail-quality" -> {"escalate", "verification-failed"}
                          [] v = "fail-approach" -> {"replan"}
                          [] v = "fail-blocked" -> {"blocked"}
  PROVE  AwaitedOK' /\ LeadsOK' /\ FloorsOK' /\ WorkOK' /\ JudgedOK'
<1>names. /\ task'.name \in {"code-review", "accepted", "escalate", "verification-failed", "replan", "blocked"}
          /\ task'.name = "replan" => v = "fail-approach"
          /\ task'.name = "escalate" => v = "fail-quality"
          /\ task'.name \in {"code-review", "accepted"} => v = "pass"
          /\ task'.name = "accepted" => policy.codeReview # "dispatch"
  BY DEF VerdictKind
<1>1. /\ Len(runs) \in Nat /\ w \in 1..Len(runs) /\ Len(runs') = Len(runs)
      /\ \A k \in 1..Len(runs) :
           /\ runs'[k].phase = runs[k].phase /\ runs'[k].floor = runs[k].floor
           /\ runs'[k].lead = runs[k].lead /\ runs'[k].rung = runs[k].rung
           /\ runs'[k].disposition = runs[k].disposition
           /\ runs'[k].verdict = IF k = w THEN v ELSE runs[k].verdict
      /\ running = Idle /\ running' = Idle
  BY DEF RunJudged
<1>2. LastDispatch(w) /\ runs[w].disposition = "null"
  BY DEF JudgedOK
<1>3. /\ \A i \in 1..Len(runs) : LastDispatch(i)' <=> LastDispatch(i)
      /\ WorkRuns' = WorkRuns
  BY LastAfterVerdict
<1>4. \A i \in 1..Len(runs) : LastDispatch(i) => i = w
  BY <1>1, <1>2, OneLastDispatch
<1>5. AwaitedOK'
  BY <1>1, <1>names DEF AwaitedOK
<1>6. LeadsOK'
  <2>1. \A i, j \in 1..Len(runs) : \A k \in (i+1)..j : k \in 1..Len(runs)
    BY <1>1
  <2>2. ChecksSpareLead'
    <3> SUFFICES ASSUME NEW i \in 1..Len(runs), NEW j \in 1..Len(runs), i < j,
                        runs'[i].phase = "dispatch",
                        \A k \in (i+1)..j : runs'[k].phase # "dispatch"
                 PROVE  runs'[j].rung # runs'[i].lead
      BY <1>1 DEF ChecksSpareLead
    <3>1. runs[i].phase = "dispatch" /\ \A k \in (i+1)..j : runs[k].phase # "dispatch"
      BY <1>1, <2>1
    <3>2. runs[j].rung # runs[i].lead
      BY <3>1 DEF LeadsOK, ChecksSpareLead
    <3> QED
      BY <1>1, <3>2
  <2>3. \A i \in 1..Len(runs) : LastDispatch(i) => runs[i].lead = task.selectedRung
    BY <1>1 DEF LeadsOK, WorkAwaited
  <2> QED
    BY <1>1, <1>3, <2>2, <2>3 DEF LeadsOK
<1>7. FloorsOK'
  <2>1. \A i, j \in 1..Len(runs) : \A k \in (i+1)..(j-1) : k \in 1..Len(runs)
    BY <1>1
  <2>2. \A j \in 1..Len(runs) : w < j => runs[j].phase # "dispatch"
    BY <1>1, <1>2 DEF LastDispatch
  <2>3. RecoveryEdgesDistinct'
    <3> SUFFICES ASSUME NEW i \in 1..Len(runs), NEW j \in 1..Len(runs), i < j,
                        runs'[i].phase = "dispatch", runs'[j].phase = "dispatch",
                        \A k \in (i+1)..(j-1) : runs'[k].phase # "dispatch"
                 PROVE  runs'[j].floor = NextFloor(runs'[i])
      BY <1>1 DEF RecoveryEdgesDistinct, NextFloor
    <3>1. i # w
      BY <1>1, <2>2
    <3>2. NextFloor(runs'[i]) = NextFloor(runs[i])
      BY <1>1, <3>1 DEF NextFloor
    <3>3. runs[j].floor = NextFloor(runs[i])
      <4>1. /\ runs[i].phase = "dispatch" /\ runs[j].phase = "dispatch"
            /\ \A k \in (i+1)..(j-1) : runs[k].phase # "dispatch"
        BY <1>1, <2>1
      <4> QED
        BY <4>1 DEF FloorsOK, RecoveryEdgesDistinct, NextFloor
    <3> QED
      BY <1>1, <3>2, <3>3
  <2>4. task.capabilityFloor = runs'[w].floor /\ runs'[w].verdict = v
    BY <1>1, <1>2 DEF FloorsOK
  <2>5. WorkDue' => v = "fail-approach"
    BY <1>1, <1>names DEF WorkDue, WorkAwaited
  <2>6. v = "fail-approach" => NextFloor(runs'[w]) = task.capabilityFloor
    BY <2>4 DEF NextFloor
  <2>7. \A i \in 1..Len(runs') : LastDispatch(i)' => i = w
    BY <1>1, <1>3, <1>4
  <2>8. /\ WorkDue' => task'.capabilityFloor = NextFloor(runs'[w])
        /\ task'.name \in {"verify", "escalate"} => task'.capabilityFloor = runs'[w].floor
        /\ task'.name = "escalate" => runs'[w].verdict = "fail-quality"
    BY <1>names, <2>4, <2>5, <2>6
  <2> QED
    BY <2>3, <2>7, <2>8 DEF FloorsOK
<1>8. WorkOK'
  <2>1. Cardinality(WorkRuns) <= 1 + task.escalationsUsed + task.replansUsed
    BY DEF WorkOK, WorkBounded
  <2>2. Cardinality(WorkRuns) \in Nat
    <3>1. WorkRuns \in SUBSET (1..Len(runs))
      BY DEF WorkRuns
    <3> QED
      BY <1>1, <3>1, IndexSets
  <2>3. WorkDue' => v = "fail-approach"
    BY <1>1, <1>names DEF WorkDue, WorkAwaited
  <2> QED
    BY <1>3, <2>1, <2>2, <2>3 DEF WorkOK, WorkBounded
<1>9. JudgedOK'
  <2>1. w \in WorkRuns /\ \A j \in WorkRuns : j <= w
    BY <1>1, <1>2 DEF WorkRuns, LastDispatch
  <2>2. IsLastWork(w)'
    BY <1>3, <2>1 DEF IsLastWork
  <2>3. v = "pass" => Passed(w)'
    BY <1>1 DEF Passed
  <2>4. task'.name = "accepted" => Reviewed(w)'
    BY <1>names DEF Reviewed
  <2> QED
    BY <1>1, <1>names, <2>2, <2>3, <2>4 DEF JudgedOK
<1> QED
  BY <1>5, <1>6, <1>7, <1>8, <1>9

\* The moves that leave the runs alone.
Renames ==
  {<<"plan", "decompose">>, <<"plan", "dispatch">>, <<"decompose", "dispatch">>,
   <<"replan", "dispatch">>, <<"accepted", "ship">>, <<"escalate", "verification-failed">>}

LEMMA MoveHistory ==
  ASSUME AwaitedOK, LeadsOK, FloorsOK, WorkOK, JudgedOK,
         UNCHANGED <<running, runs, policy>>,
         task.capabilityFloor \in Nat, task.escalationsUsed \in Nat, task.replansUsed \in Nat,
         Len(runs) \in Nat, task'.selectedRung = task.selectedRung, task'.replansUsed = task.replansUsed,
         \/ /\ task'.name = "cancelled" \/ (running = Idle /\ <<task.name, task'.name>> \in Renames)
            /\ task'.escalationsUsed = task.escalationsUsed
            /\ task'.capabilityFloor = task.capabilityFloor
         \/ /\ running = Idle /\ task.name = "intake" /\ task'.name = "plan"
            /\ task'.escalationsUsed = task.escalationsUsed
         \/ /\ running = Idle /\ task.name = "escalate" /\ task'.name = "dispatch"
            /\ task'.escalationsUsed = task.escalationsUsed + 1
            /\ task'.capabilityFloor = task.capabilityFloor + 1
  PROVE  AwaitedOK' /\ LeadsOK' /\ FloorsOK' /\ WorkOK' /\ JudgedOK'
<1>1. /\ \A i : LastDispatch(i)' <=> LastDispatch(i)
      /\ WorkRuns' = WorkRuns /\ (WorkAwaited' <=> WorkAwaited)
  BY DEF LastDispatch, WorkRuns, WorkAwaited
<1>2. AwaitedOK'
  BY DEF AwaitedOK, Renames
<1>3. LeadsOK'
  BY <1>1 DEF LeadsOK, ChecksSpareLead
<1>4. RecoveryEdgesDistinct'
  BY DEF FloorsOK, RecoveryEdgesDistinct
<1>5. FloorsOK'
  <2> SUFFICES ASSUME NEW i \in 1..Len(runs), LastDispatch(i)
               PROVE  /\ WorkDue' => task'.capabilityFloor = NextFloor(runs[i])
                      /\ task'.name \in {"verify", "escalate"} => task'.capabilityFloor = runs[i].floor
                      /\ task'.name = "escalate" => runs[i].verdict = "fail-quality"
    BY <1>1, <1>4 DEF FloorsOK
  <2>1. /\ WorkDue => task.capabilityFloor = NextFloor(runs[i])
        /\ task.name = "escalate" => /\ task.capabilityFloor = runs[i].floor
                                     /\ runs[i].verdict = "fail-quality"
        /\ task.name \notin {"intake", "plan", "decompose"}
    <3>1. runs # <<>>
      OBVIOUS
    <3> QED
      BY <3>1 DEF FloorsOK, AwaitedOK
  <2>2. CASE task'.name = "cancelled" /\ task'.capabilityFloor = task.capabilityFloor
    <3>1. WorkDue' => WorkDue
      BY <1>1, <2>2 DEF WorkDue
    <3> QED
      BY <2>1, <2>2, <3>1
  <2>3. CASE <<task.name, task'.name>> \in Renames /\ task'.capabilityFloor = task.capabilityFloor
    <3>1. WorkDue' => WorkDue
      BY <1>1, <2>3 DEF WorkDue, Renames
    <3>2. task'.name \notin {"verify", "escalate"}
      BY <2>3 DEF Renames
    <3> QED
      BY <2>1, <2>3, <3>1, <3>2
  <2>4. CASE task.name = "escalate" /\ task'.name = "dispatch" /\ task'.capabilityFloor = task.capabilityFloor + 1
    BY <2>1, <2>4 DEF NextFloor
  <2> QED
    BY <2>1, <2>2, <2>3, <2>4
<1>6. WorkOK'
  <2>1. Cardinality(WorkRuns) \in Nat
    <3>1. WorkRuns \in SUBSET (1..Len(runs))
      BY DEF WorkRuns
    <3> QED
      BY <3>1, IndexSets
  <2>2. WorkDue' => WorkDue \/ (task.name = "escalate" /\ task'.escalationsUsed = task.escalationsUsed + 1)
    BY <1>1 DEF WorkDue, Renames
  <2>3. task'.escalationsUsed \in {task.escalationsUsed, task.escalationsUsed + 1}
    OBVIOUS
  <2> QED
    BY <1>1, <2>1, <2>2, <2>3 DEF WorkOK, WorkBounded
<1>7. JudgedOK'
  <2>1. task'.name \notin {"verify", "code-review", "accepted"}
    BY DEF Renames
  <2>2. task'.name = "ship" => task.name = "accepted"
    BY DEF Renames
  <2>3. \A w : /\ IsLastWork(w)' <=> IsLastWork(w)
               /\ Passed(w)' <=> Passed(w)
               /\ Reviewed(w)' <=> Reviewed(w)
    BY <1>1 DEF IsLastWork, Passed, Reviewed
  <2> QED
    BY <2>1, <2>2, <2>3 DEF JudgedOK
<1> QED
  BY <1>2, <1>3, <1>5, <1>6, <1>7


\* The record of an awaited run.
LEMMA RecordEnded ==
  ASSUME Inv, AwaitedOK, running # Idle, running' = Idle, NEW disposition \in FailureDisposition,
         NEW rung \in RungIds, rung \in Rungs(running.stack),
         runs' = Append(runs, RunRecord(disposition, rung))
  PROVE  LET r == RunRecord(disposition, rung) IN
         /\ RunEnded(r)
         /\ r.phase = running.phase /\ r.disposition = disposition
         /\ task.name \in {r.phase, "cancelled"} /\ r.phase \in {"dispatch", "verify", "code-review"}
<1> DEFINE r == RunRecord(disposition, rung)
<1>1. /\ r.phase = running.phase /\ r.floor = running.floor /\ r.lead = running.stack[1]
      /\ r.rung = rung /\ r.disposition = disposition /\ r.verdict = "none"
  BY DEF RunRecord
<1>2. r \in RunRecords
  <2>1. running.stack[1] \in RungIds
    BY DEF Inv, RunsOK
  <2> QED
    BY <2>1 DEF RunRecord, RunRecords, Inv, RunsOK
<1> HIDE DEF r
<1>3. /\ Len(runs) \in Nat /\ Len(runs') = Len(runs) + 1 /\ runs'[Len(runs) + 1] = r
      /\ \A k \in 1..Len(runs) : runs'[k] = runs[k]
  <2>1. runs \in Seq(RunRecords) /\ runs' = Append(runs, r)
    BY DEF Inv, RunsOK, r
  <2> QED
    BY <1>2, <2>1, AppendProperties
<1>4. /\ running.floor = task.capabilityFloor /\ task.name \in {r.phase, "cancelled"}
      /\ r.phase \in {"dispatch", "verify", "code-review"}
  BY <1>1 DEF AwaitedOK, Inv, RunsOK
<1>5. RunEnded(r)
  BY <1>1, <1>3, <1>4 DEF RunEnded
<1> QED
  BY <1>1, <1>4, <1>5 DEF r

\* What a completion changes of the task.
LEMMA CompletedFields ==
  ASSUME NEW s \in TaskState, NEW runId \in Nat, NEW disposition \in FailureDisposition,
         NEW p \in TaskPolicy, CanComplete(s)
  PROVE  LET n == Completed(s, runId, disposition, p) IN
         /\ n \in TaskState
         /\ n.selectedRung = s.selectedRung /\ n.capabilityFloor = s.capabilityFloor
         /\ n.escalationsUsed = s.escalationsUsed /\ n.replansUsed = s.replansUsed
         /\ n.runIds # <<>> /\ lastRunId(n) = runId
         /\ \A k \in 1..Len(n.runIds) : (\E i \in 1..Len(s.runIds) : n.runIds[k] = s.runIds[i])
                                        \/ n.runIds[k] = runId
         /\ n.name \in {"dispatch", "code-review", "verify", "accepted", "rejected"}
         /\ n.name = "dispatch" => s.name = "dispatch" /\ disposition # "null"
         /\ n.name = "verify" => s.name = "dispatch" /\ disposition = "null"
         /\ n.name = "code-review" => s.name = "code-review"
         /\ n.name = "accepted" => /\ disposition = "null"
                                   /\ s.name = "dispatch" => p.verification = "skip"
<1> DEFINE n == Completed(s, runId, disposition, p)
           ids == Append(s.runIds, runId)
<1>1. s.runIds \in Seq(Nat)
  BY DEF TaskState
<1>2. /\ ids \in Seq(Nat) /\ ids # <<>> /\ Len(ids) = Len(s.runIds) + 1 /\ Len(s.runIds) \in Nat
      /\ \A k \in 1..Len(s.runIds) : ids[k] = s.runIds[k]
      /\ ids[Len(s.runIds) + 1] = runId
  BY <1>1, AppendProperties
<1> HIDE DEF ids
<1>3. /\ n.runIds = ids /\ n.name = CompletedName(s, disposition, p)
      /\ n.selectedRung = s.selectedRung /\ n.capabilityFloor = s.capabilityFloor
      /\ n.escalationsUsed = s.escalationsUsed /\ n.replansUsed = s.replansUsed
  BY DEF Completed, TaskState, ids
<1>4. n \in TaskState
  BY CompletedQuiet DEF Quiet
<1> HIDE DEF n
<1>5. lastRunId(n) = runId
  BY <1>2, <1>3 DEF lastRunId
<1>6. \A k \in 1..Len(ids) : k \in 1..Len(s.runIds) \/ k = Len(s.runIds) + 1
  BY <1>2
<1>7. \A k \in 1..Len(ids) : (\E i \in 1..Len(s.runIds) : ids[k] = s.runIds[i]) \/ ids[k] = runId
  BY <1>2, <1>6
<1>8. /\ n.name \in {"dispatch", "code-review", "verify", "accepted", "rejected"}
      /\ n.name = "dispatch" => s.name = "dispatch" /\ disposition # "null"
      /\ n.name = "verify" => s.name = "dispatch" /\ disposition = "null"
      /\ n.name = "code-review" => s.name = "code-review"
      /\ n.name = "accepted" => /\ disposition = "null"
                                /\ s.name = "dispatch" => p.verification = "skip"
  BY <1>3 DEF CompletedName, CanComplete
<1> QED
  BY <1>2, <1>3, <1>4, <1>5, <1>7, <1>8 DEF n

\* A run the task takes note of.
LEMMA CompletedLife ==
  ASSUME LifeInv, NEW disposition \in FailureDisposition, NEW rung \in RungIds,
         dispatchCompleted(disposition, rung)
  PROVE  AwaitedOK' /\ LeadsOK' /\ FloorsOK' /\ WorkOK' /\ JudgedOK' /\ NotesOK'
<1> DEFINE n == Completed(task, Len(runs) + 1, disposition, policy)
           r == RunRecord(disposition, rung)
<1>1. /\ running # Idle /\ rung \in Rungs(running.stack) /\ CanComplete(task) /\ Move(n)
      /\ runs' = Append(runs, r) /\ running' = Idle
  BY DEF dispatchCompleted
<1>2. /\ task \in TaskState /\ policy \in TaskPolicy /\ annotations \in Seq(Annotation)
      /\ Len(runs) \in Nat /\ Len(runs) + 1 \in Nat
  BY DEF LifeInv, Inv, StateOK, RunsOK, Annotation
<1>3. /\ RunEnded(r) /\ r.phase = running.phase /\ r.disposition = disposition
      /\ task.name \in {r.phase, "cancelled"} /\ r.phase \in {"dispatch", "verify", "code-review"}
  BY <1>1, RecordEnded DEF LifeInv
<1>4. /\ n \in TaskState
      /\ n.selectedRung = task.selectedRung /\ n.capabilityFloor = task.capabilityFloor
      /\ n.escalationsUsed = task.escalationsUsed /\ n.replansUsed = task.replansUsed
      /\ n.runIds # <<>> /\ lastRunId(n) = Len(runs) + 1
      /\ \A k \in 1..Len(n.runIds) : (\E i \in 1..Len(task.runIds) : n.runIds[k] = task.runIds[i])
                                     \/ n.runIds[k] = Len(runs) + 1
      /\ n.name \in {"dispatch", "code-review", "verify", "accepted", "rejected"}
      /\ n.name = "dispatch" => task.name = "dispatch" /\ disposition # "null"
      /\ n.name = "verify" => task.name = "dispatch" /\ disposition = "null"
      /\ n.name = "code-review" => task.name = "code-review"
      /\ n.name = "accepted" => /\ disposition = "null"
                                /\ task.name = "dispatch" => policy.verification = "skip"
  BY <1>1, <1>2, CompletedFields
<1>5. task' = n /\ policy' = policy
  BY <1>1 DEF Move
<1>6. task.name = r.phase /\ r.phase \in {"dispatch", "code-review"}
  BY <1>1, <1>3 DEF CanComplete
<1> HIDE DEF n, r
<1>7. AwaitedOK'
  BY <1>1, <1>4, <1>5 DEF AwaitedOK
<1>8. LeadsOK'
  BY <1>3, <1>4, <1>5, RunLeads DEF LifeInv
<1>9. task.capabilityFloor \in Nat /\ task.escalationsUsed \in Nat /\ task.replansUsed \in Nat
  BY <1>2 DEF TaskState, CapabilityBand
<1>10. FloorsOK'
  BY <1>3, <1>4, <1>5, <1>6, <1>9, RunFloors DEF LifeInv
<1>11. /\ WorkOK'
       /\ WorkRuns' = WorkRuns \cup (IF r.phase = "dispatch" /\ r.disposition = "null"
                                     THEN {Len(runs) + 1} ELSE {})
  BY <1>3, <1>4, <1>5, <1>6, <1>9, RunWork DEF LifeInv
<1>12. JudgedOK'
  BY <1>3, <1>4, <1>5, <1>6, <1>11, RunJudgements DEF LifeInv
<1>13. NotesOK'
  <2>1. Len(runs') = Len(runs) + 1
    BY <1>3 DEF RunEnded
  <2>2. /\ \A k \in 1..Len(annotations) : annotations[k].run \in 1..Len(runs)
        /\ \A k \in 1..Len(task.runIds) : task.runIds[k] \in 1..Len(runs)
    BY DEF LifeInv, NotesOK
  <2>3. \A k \in 1..Len(annotations) : annotations[k].run # lastRunId(n)
    BY <1>2, <1>4, <2>2
  <2>4. \A k \in 1..Len(n.runIds) : n.runIds[k] \in 1..Len(runs')
    BY <1>2, <1>4, <2>1, <2>2
  <2>5. ~ (task.name = "escalate" /\ n.name = "dispatch")
    BY <1>4
  <2>6. n.escalationsUsed = task.escalationsUsed
                            + (IF task.name = "escalate" /\ n.name = "dispatch" THEN 1 ELSE 0)
    BY <1>4, <1>9, <2>5
  <2>7. Len(runs') \in Nat /\ Len(runs) <= Len(runs')
    BY <1>2, <2>1
  <2> QED
    BY <1>1, <1>2, <1>4, <2>3, <2>4, <2>6, <2>7, MoveNotes DEF LifeInv
<1> QED
  BY <1>7, <1>8, <1>10, <1>11, <1>12, <1>13

\* A run the task takes no note of: a check, or work that was cancelled.
LEMMA EndedLife ==
  ASSUME LifeInv, NEW disposition \in FailureDisposition, NEW rung \in RungIds,
         dispatchEnded(disposition, rung)
  PROVE  AwaitedOK' /\ LeadsOK' /\ FloorsOK' /\ WorkOK' /\ JudgedOK' /\ NotesOK'
<1> DEFINE r == RunRecord(disposition, rung)
<1>1. /\ running # Idle /\ rung \in Rungs(running.stack) /\ ~CanComplete(task)
      /\ runs' = Append(runs, r) /\ running' = Idle
      /\ task' = task /\ policy' = policy /\ annotations' = annotations
  BY DEF dispatchEnded
<1>2. /\ task \in TaskState /\ policy \in TaskPolicy /\ Len(runs) \in Nat
  BY DEF LifeInv, Inv, StateOK, RunsOK
<1>3. /\ RunEnded(r) /\ r.phase = running.phase /\ r.disposition = disposition
      /\ task.name \in {r.phase, "cancelled"} /\ r.phase \in {"dispatch", "verify", "code-review"}
  BY <1>1, RecordEnded DEF LifeInv
<1>4. task.name = "cancelled" \/ (task.name = "verify" /\ r.phase = "verify")
  BY <1>1, <1>3 DEF CanComplete
<1> HIDE DEF r
<1>5. AwaitedOK'
  BY <1>1, <1>4 DEF AwaitedOK
<1>6. LeadsOK'
  BY <1>1, <1>3, RunLeads DEF LifeInv
<1>7. task.capabilityFloor \in Nat /\ task.escalationsUsed \in Nat /\ task.replansUsed \in Nat
  BY <1>2 DEF TaskState, CapabilityBand
<1>8. FloorsOK'
  BY <1>1, <1>3, <1>4, <1>7, RunFloors DEF LifeInv
<1>9. /\ WorkOK'
      /\ WorkRuns' = WorkRuns \cup (IF r.phase = "dispatch" /\ r.disposition = "null"
                                    THEN {Len(runs) + 1} ELSE {})
  BY <1>1, <1>3, <1>4, <1>7, RunWork DEF LifeInv
<1>10. JudgedOK'
  BY <1>1, <1>3, <1>4, <1>9, RunJudgements DEF LifeInv
<1>11. NotesOK'
  <2>1. \A k \in 1..Len(runs) : k \in 1..Len(runs')
    BY <1>2, <1>3 DEF RunEnded
  <2>2. OutcomesRecorded'
    BY <1>1 DEF LifeInv, NotesOK, OutcomesRecorded
  <2> QED
    BY <1>1, <2>1, <2>2 DEF LifeInv, NotesOK
<1> QED
  BY <1>5, <1>6, <1>8, <1>9, <1>10, <1>11

\* Selecting a stack leaves the history as it is.
LEMMA SelectedLife ==
  ASSUME LifeInv, NEW stack \in Stacks, dispatchSelected(stack)
  PROVE  AwaitedOK' /\ LeadsOK' /\ FloorsOK' /\ WorkOK' /\ JudgedOK' /\ NotesOK'
<1> DEFINE n == Selected(task, stack)
<1>1. /\ running = Idle /\ CanSelect(task, policy) /\ ExcludedRung(task) \notin Rungs(stack)
      /\ Move(n) /\ runs' = runs
      /\ running' = [phase |-> task.name, floor |-> task.capabilityFloor, stack |-> stack]
  BY DEF dispatchSelected
<1>2. /\ task \in TaskState /\ annotations \in Seq(Annotation) /\ Len(runs) \in Nat
      /\ stack \in Seq(RungIds) \ {<<>>}
  BY TaskAssumption DEF LifeInv, Inv, StateOK, RunsOK, Annotation
<1>3. /\ task.name \in {"dispatch", "verify", "code-review"}
      /\ n \in TaskState /\ n.name = task.name /\ n.capabilityFloor = task.capabilityFloor
      /\ n.escalationsUsed = task.escalationsUsed /\ n.replansUsed = task.replansUsed
  BY <1>1, <1>2, SelectedQuiet DEF CanSelect, Quiet
<1>4. /\ n.runIds = task.runIds
      /\ n.selectedRung = IF task.name = "dispatch" THEN stack[1] ELSE task.selectedRung
  BY <1>2 DEF Selected, TaskState
<1>5. task' = n /\ policy' = policy
  BY <1>1 DEF Move
<1> HIDE DEF n
<1>6. running'.phase = task.name /\ running'.floor = task.capabilityFloor /\ running'.stack = stack
  BY <1>1
<1>7. running' # Idle
  BY <1>3, <1>6 DEF Idle
<1>8. task.name # "dispatch" => task.selectedRung \notin Rungs(stack)
  BY <1>1 DEF ExcludedRung
<1>9. AwaitedOK'
  BY <1>3, <1>4, <1>5, <1>6, <1>8 DEF AwaitedOK
<1>10. /\ \A i : LastDispatch(i)' <=> LastDispatch(i)
       /\ WorkRuns' = WorkRuns /\ ~WorkAwaited /\ (WorkAwaited' <=> task.name = "dispatch")
       /\ (WorkDue' <=> task.name = "dispatch") /\ (WorkDue <=> task.name = "dispatch")
  BY <1>1, <1>3, <1>5, <1>6, <1>7 DEF LastDispatch, WorkRuns, WorkAwaited, WorkDue
<1>11. LeadsOK'
  BY <1>1, <1>4, <1>5, <1>10 DEF LifeInv, LeadsOK, ChecksSpareLead
<1>12. FloorsOK'
  <2>1. RecoveryEdgesDistinct'
    BY <1>1 DEF LifeInv, FloorsOK, RecoveryEdgesDistinct
  <2> QED
    BY <1>1, <1>3, <1>5, <1>10, <2>1 DEF LifeInv, FloorsOK
<1>13. WorkOK'
  BY <1>3, <1>5, <1>10 DEF LifeInv, WorkOK, WorkBounded
<1>14. JudgedOK'
  <2>1. \A w : /\ IsLastWork(w)' <=> IsLastWork(w)
               /\ Passed(w)' <=> Passed(w)
               /\ Reviewed(w)' <=> Reviewed(w)
    BY <1>1, <1>5, <1>10 DEF IsLastWork, Passed, Reviewed
  <2>2. lastRunId(n) = lastRunId(task)
    BY <1>4 DEF lastRunId
  <2>3. LastDispatch(lastRunId(task))' <=> LastDispatch(lastRunId(task))
    BY <1>1, <1>5, <2>2 DEF LastDispatch
  <2> QED
    BY <1>1, <1>3, <1>5, <2>1, <2>2, <2>3 DEF LifeInv, JudgedOK
<1>15. NotesOK'
  <2>1. ~ (task.name = "escalate" /\ n.name = "dispatch") /\ ~Annotates(task, n)
    BY <1>3 DEF Annotates, TerminalStateName
  <2>2. task.escalationsUsed \in Nat /\ lastRunId(n) = lastRunId(task)
    BY <1>2, <1>4 DEF TaskState, lastRunId
  <2>3. /\ \A k \in 1..Len(n.runIds) : n.runIds[k] \in 1..Len(runs')
        /\ n.name \in {"verify", "code-review", "escalate"} =>
             /\ n.runIds # <<>>
             /\ \A k \in 1..Len(annotations) : annotations[k].run # lastRunId(n)
    BY <1>1, <1>3, <1>4, <2>2 DEF LifeInv, NotesOK
  <2>4. n.escalationsUsed = task.escalationsUsed
                            + (IF task.name = "escalate" /\ n.name = "dispatch" THEN 1 ELSE 0)
    BY <1>3, <2>1, <2>2
  <2>5. Len(runs') \in Nat /\ Len(runs) <= Len(runs')
    BY <1>1, <1>2
  <2> QED
    BY <1>1, <1>2, <1>3, <2>1, <2>3, <2>4, <2>5, MoveNotes DEF LifeInv
<1> QED
  BY <1>9, <1>11, <1>12, <1>13, <1>14, <1>15


\* A verdict on the last run of work.
LEMMA VerifiedLife ==
  ASSUME LifeInv, NEW verdict \in VerdictKind, NEW mode \in {"parent", "dispatch"},
         NEW cost \in CostChoices, verified(verdict, mode, cost)
  PROVE  AwaitedOK' /\ LeadsOK' /\ FloorsOK' /\ WorkOK' /\ JudgedOK' /\ NotesOK'
<1> DEFINE n == Verified(task, verdict, policy, cost)
           rung == IF mode = "dispatch" THEN Verifier ELSE NoRung
           w == lastRunId(task)
           judged == [runs[w] EXCEPT !.verdict = verdict, !.verifier = rung]
<1>1. /\ running = Idle /\ running' = Idle /\ task.name = "verify" /\ Move(n)
      /\ runs' = [runs EXCEPT ![w] = judged]
  BY DEF verified, CanVerify
<1>2. /\ task \in TaskState /\ policy \in TaskPolicy /\ annotations \in Seq(Annotation)
      /\ Len(runs) \in Nat /\ runs \in Seq(RunRecords)
  BY DEF LifeInv, Inv, StateOK, RunsOK, Annotation
<1>3. task' = n /\ policy' = policy
  BY <1>1 DEF Move
<1>4. w \in 1..Len(runs) /\ runs[w] \in RunRecords
  BY <1>1, <1>2 DEF LifeInv, JudgedOK, LastDispatch
<1>5. /\ judged.phase = runs[w].phase /\ judged.floor = runs[w].floor
      /\ judged.lead = runs[w].lead /\ judged.rung = runs[w].rung
      /\ judged.disposition = runs[w].disposition /\ judged.verdict = verdict
  BY <1>4 DEF RunRecords
<1> HIDE DEF w, judged
<1>6. Len(runs') = Len(runs) /\ \A k \in 1..Len(runs) : runs'[k] = IF k = w THEN judged ELSE runs[k]
  BY <1>1, <1>2, <1>4
<1>7. RunJudged(w, verdict)
  BY <1>1, <1>2, <1>4, <1>5, <1>6 DEF RunJudged
<1>8. /\ n.name = VerifiedName(task, verdict, policy, cost)
      /\ n.replansUsed = IF verdict = "fail-approach" THEN task.replansUsed + 1 ELSE task.replansUsed
      /\ n.selectedRung = task.selectedRung /\ n.capabilityFloor = task.capabilityFloor
      /\ n.escalationsUsed = task.escalationsUsed /\ n.runIds = task.runIds
  BY <1>2 DEF Verified, TaskState
<1>9. n \in TaskState
  <2>1. VerifiedName(task, verdict, policy, cost) \in TaskStateName
    BY DEF VerifiedName, VerdictKind, TaskStateName
  <2>2. task.replansUsed + 1 \in Nat
    BY <1>2 DEF TaskState
  <2> QED
    BY <1>2, <2>1, <2>2 DEF Verified, TaskState
<1>10. task.capabilityFloor \in Nat /\ task.escalationsUsed \in Nat /\ task.replansUsed \in Nat
  BY <1>2 DEF TaskState, CapabilityBand
<1> HIDE DEF n
<1>11. /\ n.name \in CASE verdict = "pass" -> IF policy.codeReview = "dispatch"
                                            THEN {"code-review"} ELSE {"accepted"}
                      [] verdict = "fail-quality" -> {"escalate", "verification-failed"}
                      [] verdict = "fail-approach" -> {"replan"}
                      [] verdict = "fail-blocked" -> {"blocked"}
       /\ n.replansUsed = task.replansUsed + (IF verdict = "fail-approach" THEN 1 ELSE 0)
       /\ n.name # "dispatch"
  BY <1>8, <1>10 DEF VerifiedName, VerdictKind
<1>12. AwaitedOK' /\ LeadsOK' /\ FloorsOK' /\ WorkOK' /\ JudgedOK'
  BY <1>1, <1>3, <1>7, <1>8, <1>10, <1>11, VerdictHistory DEF LifeInv, w
<1>13. NotesOK'
  <2>1. lastRunId(n) = lastRunId(task)
    BY <1>8 DEF lastRunId
  <2>2. /\ n.runIds # <<>> /\ \A k \in 1..Len(annotations) : annotations[k].run # lastRunId(n)
        /\ \A k \in 1..Len(n.runIds) : n.runIds[k] \in 1..Len(runs')
    BY <1>1, <1>6, <1>8, <2>1 DEF LifeInv, NotesOK
  <2>3. n.escalationsUsed = task.escalationsUsed
                            + (IF task.name = "escalate" /\ n.name = "dispatch" THEN 1 ELSE 0)
    BY <1>8, <1>10, <1>11
  <2>4. Len(runs') \in Nat /\ Len(runs) <= Len(runs')
    BY <1>2, <1>6
  <2> QED
    BY <1>1, <1>2, <1>9, <2>2, <2>3, <2>4, MoveNotes DEF LifeInv
<1> QED
  BY <1>12, <1>13

\* A move that leaves the runs alone.
LEMMA MoveLife ==
  ASSUME LifeInv, NEW n \in TaskState, Move(n), UNCHANGED <<running, runs>>,
         n.selectedRung = task.selectedRung, n.replansUsed = task.replansUsed,
         n.runIds = task.runIds,
         \/ /\ n.name = "cancelled" \/ (running = Idle /\ <<task.name, n.name>> \in Renames)
            /\ n.escalationsUsed = task.escalationsUsed
            /\ n.capabilityFloor = task.capabilityFloor
         \/ /\ running = Idle /\ task.name = "intake" /\ n.name = "plan"
            /\ n.escalationsUsed = task.escalationsUsed
         \/ /\ running = Idle /\ task.name = "escalate" /\ n.name = "dispatch"
            /\ n.escalationsUsed = task.escalationsUsed + 1
            /\ n.capabilityFloor = task.capabilityFloor + 1
  PROVE  AwaitedOK' /\ LeadsOK' /\ FloorsOK' /\ WorkOK' /\ JudgedOK' /\ NotesOK'
<1>1. task' = n /\ policy' = policy
  BY DEF Move
<1>2. /\ task \in TaskState /\ annotations \in Seq(Annotation) /\ Len(runs) \in Nat
  BY DEF LifeInv, Inv, StateOK, RunsOK, Annotation
<1>3. task.capabilityFloor \in Nat /\ task.escalationsUsed \in Nat /\ task.replansUsed \in Nat
  BY <1>2 DEF TaskState, CapabilityBand
<1>4. AwaitedOK' /\ LeadsOK' /\ FloorsOK' /\ WorkOK' /\ JudgedOK'
  BY <1>1, <1>2, <1>3, MoveHistory DEF LifeInv
<1>5. NotesOK'
  <2>1. lastRunId(n) = lastRunId(task)
    BY DEF lastRunId
  <2>2. n.escalationsUsed = task.escalationsUsed
                            + (IF task.name = "escalate" /\ n.name = "dispatch" THEN 1 ELSE 0)
    BY <1>3 DEF Renames
  <2>3. Annotates(task, n) \/ n.name \in {"verify", "code-review", "escalate"} => task.name = "escalate"
    BY DEF Annotates, TerminalStateName, Renames
  <2>4. /\ \A k \in 1..Len(n.runIds) : n.runIds[k] \in 1..Len(runs')
        /\ task.name = "escalate" =>
             n.runIds # <<>> /\ \A k \in 1..Len(annotations) : annotations[k].run # lastRunId(n)
    BY <2>1 DEF LifeInv, NotesOK
  <2>5. Len(runs') \in Nat /\ Len(runs) <= Len(runs')
    BY <1>2
  <2> QED
    BY <1>2, <2>2, <2>3, <2>4, <2>5, MoveNotes DEF LifeInv
<1> QED
  BY <1>4, <1>5

LEMMA RenamedFields ==
  ASSUME NEW s \in TaskState, NEW name \in TaskStateName
  PROVE  LET n == [s EXCEPT !.name = name] IN
         /\ n \in TaskState /\ n.name = name
         /\ n.selectedRung = s.selectedRung /\ n.replansUsed = s.replansUsed
         /\ n.escalationsUsed = s.escalationsUsed /\ n.capabilityFloor = s.capabilityFloor
         /\ n.runIds = s.runIds
BY DEF TaskState

LEMMA NextLife == LifeInv /\ [Next]_vars => LifeInv'
<1> SUFFICES ASSUME LifeInv, [Next]_vars
             PROVE  AwaitedOK' /\ LeadsOK' /\ FloorsOK' /\ WorkOK' /\ JudgedOK' /\ NotesOK'
  BY NextInv DEF LifeInv
<1> DEFINE Goal == AwaitedOK' /\ LeadsOK' /\ FloorsOK' /\ WorkOK' /\ JudgedOK' /\ NotesOK'
<1>types. task \in TaskState
  BY DEF LifeInv, Inv, StateOK
<1>0. ASSUME NEW name \in TaskStateName, Move([task EXCEPT !.name = name]), UNCHANGED <<running, runs>>,
             name = "cancelled" \/ (running = Idle /\ <<task.name, name>> \in Renames)
      PROVE  Goal
  <2> DEFINE n == [task EXCEPT !.name = name]
  <2>1. /\ n \in TaskState /\ n.name = name
        /\ n.selectedRung = task.selectedRung /\ n.replansUsed = task.replansUsed
        /\ n.escalationsUsed = task.escalationsUsed /\ n.capabilityFloor = task.capabilityFloor
        /\ n.runIds = task.runIds
    BY <1>types, RenamedFields
  <2>2. Move(n)
    BY <1>0
  <2> HIDE DEF n
  <2> QED
    BY <1>0, <2>1, <2>2, MoveLife
<1>1. ASSUME NEW route \in CapabilityRoute, NEW floor \in CapabilityBand, classified(route, floor)
      PROVE  Goal
  <2> DEFINE n == Classified(task, route, floor)
  <2>1. /\ n \in TaskState /\ n.name = "plan" /\ n.selectedRung = task.selectedRung
        /\ n.replansUsed = task.replansUsed /\ n.escalationsUsed = task.escalationsUsed
        /\ n.runIds = task.runIds
    BY <1>types DEF Classified, TaskState, TaskStateName
  <2>2. Move(n) /\ UNCHANGED <<running, runs>> /\ running = Idle /\ task.name = "intake"
    BY <1>1 DEF classified, CanClassify
  <2> HIDE DEF n
  <2> QED
    BY <2>1, <2>2, MoveLife
<1>2. ASSUME NEW criteria \in BOOLEAN, planned(criteria) PROVE Goal
  <2> DEFINE name == IF task.name = "plan" /\ task.capabilityRoute = "implement"
                     THEN "decompose" ELSE "dispatch"
  <2>1. name \in TaskStateName /\ <<task.name, name>> \in Renames /\ running = Idle
    BY <1>2 DEF planned, CanPlan, TaskStateName, Renames
  <2>2. Move([task EXCEPT !.name = name]) /\ UNCHANGED <<running, runs>>
    BY <1>2 DEF planned, Planned
  <2> HIDE DEF name
  <2> QED
    BY <1>0, <2>1, <2>2
<1>3. ASSUME NEW childTasks \in 0..(MAX_DIRECT_FAN_OUT + 1), decomposed(childTasks) PROVE Goal
  <2>1. /\ <<task.name, "dispatch">> \in Renames /\ running = Idle
        /\ Move([task EXCEPT !.name = "dispatch"]) /\ UNCHANGED <<running, runs>>
    BY <1>3 DEF decomposed, CanDecompose, Decomposed, Renames
  <2> QED
    BY <1>0, <2>1 DEF TaskStateName
<1>4. ASSUME NEW stack \in Stacks, dispatchSelected(stack) PROVE Goal
  BY <1>4, SelectedLife
<1>5. ASSUME NEW disposition \in FailureDisposition, NEW rung \in RungIds,
             dispatchCompleted(disposition, rung)
      PROVE  Goal
  BY <1>5, CompletedLife
<1>6. ASSUME NEW disposition \in FailureDisposition, NEW rung \in RungIds,
             dispatchEnded(disposition, rung)
      PROVE  Goal
  BY <1>6, EndedLife
<1>7. ASSUME NEW verdict \in VerdictKind, NEW mode \in {"parent", "dispatch"},
             NEW cost \in CostChoices, verified(verdict, mode, cost)
      PROVE  Goal
  BY <1>7, VerifiedLife
<1>8. ASSUME NEW toBand \in CapabilityBand, NEW cost \in CostChoices,
             escalationAuthorized(toBand, cost)
      PROVE  Goal
  <2> DEFINE n == EscalationAuthorized(task, toBand)
  <2>1. task.escalationsUsed + 1 \in Nat
    BY <1>types DEF TaskState
  <2>2. /\ n \in TaskState /\ n.name = "dispatch" /\ n.selectedRung = task.selectedRung
        /\ n.replansUsed = task.replansUsed /\ n.escalationsUsed = task.escalationsUsed + 1
        /\ n.runIds = task.runIds /\ n.capabilityFloor = toBand
    BY <1>types, <2>1 DEF EscalationAuthorized, TaskState, TaskStateName
  <2>3. /\ Move(n) /\ UNCHANGED <<running, runs>> /\ running = Idle /\ task.name = "escalate"
        /\ toBand = task.capabilityFloor + 1
    BY <1>8 DEF escalationAuthorized, CanAuthorizeEscalation, nextEscalationBand
  <2> HIDE DEF n
  <2> QED
    BY <2>2, <2>3, MoveLife
<1>9. CASE escalationDenied
  <2>1. /\ <<task.name, "verification-failed">> \in Renames /\ running = Idle
        /\ Move([task EXCEPT !.name = "verification-failed"]) /\ UNCHANGED <<running, runs>>
    BY <1>9 DEF escalationDenied, CanDenyEscalation, EscalationDenied, Renames
  <2> QED
    BY <1>0, <2>1 DEF TaskStateName
<1>10. CASE cancel
  <2>1. Move([task EXCEPT !.name = "cancelled"]) /\ UNCHANGED <<running, runs>>
    BY <1>10 DEF cancel, Cancelled
  <2> QED
    BY <1>0, <2>1 DEF TaskStateName
<1>11. CASE shipAuthorized
  <2>1. /\ <<task.name, "ship">> \in Renames /\ running = Idle
        /\ Move([task EXCEPT !.name = "ship"]) /\ UNCHANGED <<running, runs>>
    BY <1>11 DEF shipAuthorized, CanShip, Shipped, Renames
  <2> QED
    BY <1>0, <2>1 DEF TaskStateName
<1>12. CASE UNCHANGED vars
  <2>1. AwaitedOK' /\ WorkOK'
    BY <1>12 DEF vars, LifeInv, AwaitedOK, WorkOK, WorkBounded, WorkRuns, WorkDue, WorkAwaited
  <2>2. LeadsOK' /\ FloorsOK'
    BY <1>12 DEF vars, LifeInv, LeadsOK, ChecksSpareLead, FloorsOK, RecoveryEdgesDistinct,
                 LastDispatch, WorkDue, WorkAwaited
  <2>3. JudgedOK' /\ NotesOK'
    BY <1>12 DEF vars, LifeInv, JudgedOK, NotesOK, OutcomesRecorded, LastDispatch, IsLastWork,
                 WorkRuns, Passed, Reviewed
  <2> QED
    BY <2>1, <2>2, <2>3
<1> QED
  BY <1>1, <1>2, <1>3, <1>4, <1>5, <1>6, <1>7, <1>8, <1>9, <1>10, <1>11, <1>12 DEF Next

LEMMA InitLife == Init => LifeInv
<1> SUFFICES ASSUME Init PROVE LifeInv
  OBVIOUS
<1>1. /\ Inv /\ runs = <<>> /\ annotations = <<>> /\ running = Idle /\ task.name = "intake"
      /\ task.escalationsUsed = 0 /\ task.replansUsed = 0 /\ task.runIds = <<>>
  BY InitInv DEF Init
<1>2. WorkRuns = {} /\ Escalations = {} /\ Cardinality({}) = 0
  BY <1>1, FS_EmptySet DEF WorkRuns, Escalations
<1>3. AwaitedOK /\ WorkOK
  BY <1>1, <1>2 DEF AwaitedOK, WorkOK, WorkBounded
<1>4. LeadsOK /\ FloorsOK
  BY <1>1 DEF LeadsOK, ChecksSpareLead, FloorsOK, RecoveryEdgesDistinct
<1>5. JudgedOK
  BY <1>1 DEF JudgedOK
<1>6. NotesOK
  <2>1. "intake" \notin TerminalStateName
    BY DEF TerminalStateName
  <2> QED
    BY <1>1, <1>2, <2>1 DEF NotesOK, OutcomesRecorded, Escalations
<1> QED
  BY <1>1, <1>3, <1>4, <1>5, <1>6 DEF LifeInv

LEMMA SpecLife == Spec => []LifeInv
BY InitLife, NextLife, PTL DEF Spec

\* Work is repeated only as often as an escalation or a replan pays for it,
\* and the floor rises between two runs of work by one band after a quality
\* failure and by nothing otherwise (task-machine.ts:802-1008).
THEOREM LifeInvariantHolds == Spec => []LifeInvariant
<1>1. LifeInv => LifeInvariant
  BY InvTypes DEF LifeInv, LifeInvariant, WorkOK, FloorsOK
<1> QED
  BY <1>1, SpecLife, PTL

\* Nothing is accepted on the strength of an earlier attempt, whatever was
\* retried, replanned, escalated or reviewed before (task-machine.ts:802-901).
THEOREM AcceptedWasVerifiedHolds == Spec => []AcceptedWasVerified
<1>1. LifeInv => AcceptedWasVerified
  <2> SUFFICES ASSUME LifeInv, task.name \in {"accepted", "ship"}
               PROVE  /\ WorkRuns # {}
                      /\ policy.verification # "skip" => runs[LastWorkRun].verdict = "pass"
                      /\ policy.verification # "skip" /\ policy.codeReview = "dispatch" =>
                           \E i \in LastWorkRun..Len(runs) :
                             runs[i].phase = "code-review" /\ runs[i].disposition = "null"
    BY DEF AcceptedWasVerified
  <2>1. PICK w \in 1..Len(runs) : IsLastWork(w) /\ Passed(w) /\ Reviewed(w)
    BY DEF LifeInv, JudgedOK
  <2>2. w \in WorkRuns /\ (\A j \in WorkRuns : j <= w) /\ WorkRuns \subseteq Int
    BY <2>1 DEF IsLastWork, WorkRuns
  <2>3. LastWorkRun = w
    <3>1. \A i \in WorkRuns : (\A j \in WorkRuns : j <= i) => i = w
      BY <2>2
    <3> QED
      BY <2>2, <3>1 DEF LastWorkRun
  <2> QED
    BY <2>1, <2>2, <2>3 DEF Passed, Reviewed
<1> QED
  BY <1>1, SpecLife, PTL

\* No check ever runs on the rung that led the work under check, whatever was
\* selected, retried or refused in between (task-machine.ts:557-580).
THEOREM ChecksSpareLeadHolds == Spec => []ChecksSpareLead
<1>1. LifeInv => ChecksSpareLead
  BY DEF LifeInv, LeadsOK
<1> QED
  BY <1>1, SpecLife, PTL

\* Each run is annotated at most once, the last run of an ended task carries its
\* outcome, and one run per escalation is marked as superseded
\* (task-machine.ts:589-608).
THEOREM OutcomesRecordedHolds == Spec => []OutcomesRecorded
<1>1. LifeInv => OutcomesRecorded
  BY DEF LifeInv, NotesOK
<1> QED
  BY <1>1, SpecLife, PTL

\* Where the policy verifies, the reducer leaves no state by a row that its
\* transition table does not have.
THEOREM FollowsTransitionTableHolds == Spec => FollowsTransitionTable
<1> DEFINE Follows == policy.verification # "skip" /\ task'.name # task.name =>
                        <<task.name, task'.name>> \in TransitionTable
<1>1. Inv /\ [Next]_vars => [Follows]_vars
  <2> SUFFICES ASSUME Inv, Next, policy.verification # "skip", task'.name # task.name
               PROVE  <<task.name, task'.name>> \in TransitionTable
    OBVIOUS
  <2>1. /\ task \in TaskState /\ task.name \in TaskStateName
    BY DEF Inv, StateOK, TaskState
  <2>2. \A name : [task EXCEPT !.name = name].name = name
    BY <2>1 DEF TaskState
  <2>3. ASSUME NEW route \in CapabilityRoute, NEW floor \in CapabilityBand, classified(route, floor)
        PROVE  task.name = "intake" /\ task'.name = "plan"
    BY <2>1, <2>3 DEF classified, CanClassify, Move, Classified, TaskState
  <2>4. ASSUME NEW criteria \in BOOLEAN, planned(criteria)
        PROVE  <<task.name, task'.name>> \in TransitionTable
    <3>1. task'.name \in {"decompose", "dispatch"} /\ (task'.name = "decompose" => task.name = "plan")
      BY <2>2, <2>4 DEF planned, Move, Planned
    <3>2. task.name \in {"plan", "replan"}
      BY <2>4 DEF planned, CanPlan
    <3> QED
      BY <3>1, <3>2 DEF TransitionTable
  <2>5. ASSUME NEW childTasks \in 0..(MAX_DIRECT_FAN_OUT + 1), decomposed(childTasks)
        PROVE  task.name = "decompose" /\ task'.name = "dispatch"
    BY <2>2, <2>5 DEF decomposed, CanDecompose, Move, Decomposed
  <2>6. ASSUME NEW stack \in Stacks, dispatchSelected(stack) PROVE task'.name = task.name
    <3>1. stack \in Seq(RungIds) \ {<<>>}
      BY TaskAssumption
    <3> QED
      BY <2>1, <2>6, <3>1, SelectedQuiet DEF dispatchSelected, Move
  <2>7. ASSUME NEW disposition \in FailureDisposition, NEW rung \in RungIds,
               dispatchCompleted(disposition, rung)
        PROVE  <<task.name, task'.name>> \in TransitionTable
    <3> DEFINE n == Completed(task, Len(runs) + 1, disposition, policy)
    <3>1. task' = n /\ CanComplete(task)
      BY <2>7 DEF dispatchCompleted, Move
    <3>2. policy \in TaskPolicy /\ Len(runs) + 1 \in Nat
      BY DEF Inv, StateOK, RunsOK
    <3>3. /\ n.name \in {"dispatch", "code-review", "verify", "accepted", "rejected"}
          /\ n.name = "dispatch" => task.name = "dispatch"
          /\ n.name = "verify" => task.name = "dispatch"
          /\ n.name = "code-review" => task.name = "code-review"
          /\ n.name = "accepted" => task.name # "dispatch"
      BY <2>1, <3>1, <3>2, CompletedFields
    <3>4. task.name \in {"dispatch", "code-review"}
      BY <3>1 DEF CanComplete
    <3> HIDE DEF n
    <3> QED
      BY <3>1, <3>3, <3>4 DEF TransitionTable
  <2>8. ASSUME NEW verdict \in VerdictKind, NEW mode, NEW cost, verified(verdict, mode, cost)
        PROVE  <<task.name, task'.name>> \in TransitionTable
    <3>1. task.name = "verify" /\ task'.name = VerifiedName(task, verdict, policy, cost)
      BY <2>1, <2>8 DEF verified, CanVerify, Move, Verified, TaskState
    <3>2. VerifiedName(task, verdict, policy, cost) \in
            {"code-review", "accepted", "escalate", "verification-failed", "replan", "blocked"}
      BY DEF VerifiedName, VerdictKind
    <3> QED
      BY <3>1, <3>2 DEF TransitionTable
  <2>9. ASSUME NEW toBand, NEW cost, escalationAuthorized(toBand, cost)
        PROVE  task.name = "escalate" /\ task'.name = "dispatch"
    BY <2>1, <2>9 DEF escalationAuthorized, CanAuthorizeEscalation, Move, EscalationAuthorized, TaskState
  <2>10. ASSUME escalationDenied PROVE task.name = "escalate" /\ task'.name = "verification-failed"
    BY <2>2, <2>10 DEF escalationDenied, CanDenyEscalation, Move, EscalationDenied
  <2>11. ASSUME cancel PROVE <<task.name, task'.name>> \in TaskStateName \X {"cancelled"}
    BY <2>1, <2>2, <2>11 DEF cancel, Move, Cancelled
  <2>12. ASSUME shipAuthorized PROVE task.name = "accepted" /\ task'.name = "ship"
    BY <2>2, <2>12 DEF shipAuthorized, CanShip, Move, Shipped
  <2>13. ASSUME NEW disposition, NEW rung, dispatchEnded(disposition, rung) PROVE task'.name = task.name
    BY <2>13 DEF dispatchEnded
  <2>14. /\ TaskStateName \X {"cancelled"} \subseteq TransitionTable
         /\ {<<"intake", "plan">>, <<"decompose", "dispatch">>, <<"escalate", "dispatch">>,
             <<"escalate", "verification-failed">>, <<"accepted", "ship">>} \subseteq TransitionTable
    BY DEF TransitionTable
  <2> QED
    BY <2>3, <2>4, <2>5, <2>6, <2>7, <2>8, <2>9, <2>10, <2>11, <2>12, <2>13, <2>14 DEF Next
<1>2. Spec => []Inv
  BY InitInv, NextInv, PTL DEF Spec
<1>3. Spec => [][Follows]_vars
  BY <1>1, <1>2, PTL DEF Spec
<1> QED
  BY <1>3 DEF FollowsTransitionTable
==============================================================================
