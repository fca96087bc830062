---------------------------- MODULE TaskMachine ----------------------------
(***************************************************************************)
(* The reducer step() of task-machine.ts as operators on task states: for  *)
(* each kind of event when step accepts it, and the state it then returns. *)
(* Whatever step refuses leaves the state as it is.                        *)
(*                                                                         *)
(* The effects step returns follow from the move: a dispatch or a check is *)
(* selected on entering the state it belongs to, and a run is annotated    *)
(* with AnnotationOf.                                                      *)
(***************************************************************************)
EXTENDS Integers, Sequences, DelegationLimits

CONSTANTS
  RungIds,
  NoRung,           \* null
  DispatchCost      \* BUDGET_LIMITS_V1.dispatch.cost

TaskStateName == {"intake", "plan", "decompose", "dispatch", "verify", "code-review",
                  "escalate", "replan", "accepted", "rejected", "blocked",
                  "verification-failed", "cancelled", "ship"}

TerminalStateName == {"accepted", "rejected", "blocked", "verification-failed", "cancelled"}

CapabilityBand == 0..4

\* Of the routes only whether it is implement.workspace-write.v1 matters.
CapabilityRoute == {"implement", "other"}

TaskState ==
  [name            : TaskStateName,
   depth           : Nat,
   capabilityRoute : CapabilityRoute,
   capabilityFloor : CapabilityBand,
   originalFloor   : CapabilityBand,
   escalationsUsed : Nat,
   replansUsed     : Nat,
   runIds          : Seq(Nat),
   selectedRung    : RungIds \cup {NoRung}]

\* Authorization by the parent or the user caps no band: maxBand is then 4.
\* escalationCostFraction is in percent.
TaskPolicy ==
  [maxEscalations         : Nat,
   maxReplans             : Nat,
   escalationCostFraction : Nat,
   floorCeiling           : CapabilityBand,
   maxBand                : CapabilityBand,
   verification           : {"parent", "dispatch", "skip"},
   codeReview             : {"dispatch", "skip"}]

FailureDisposition == {"null", "retryable", "terminal", "terminal-unclassified",
                       "terminal-completed-low-quality"}

VerdictKind == {"pass", "fail-quality", "fail-approach", "fail-blocked"}

----------------------------------------------------------------------------
\* Planning

CanClassify(s) == s.name = "intake"

Classified(s, route, floor) ==
  [s EXCEPT !.name = "plan", !.capabilityRoute = route,
            !.capabilityFloor = floor, !.originalFloor = floor]

\* criteria: are there acceptance criteria?
CanPlan(s, criteria) ==
  /\ s.name \in {"plan", "replan"}
  /\ s.capabilityRoute = "implement" => criteria

Planned(s) ==
  [s EXCEPT !.name = IF s.name = "plan" /\ s.capabilityRoute = "implement"
                     THEN "decompose" ELSE "dispatch"]

CanDecompose(s, childTasks) ==
  /\ s.name = "decompose"
  /\ s.depth < MAX_DELEGATION_DEPTH
  /\ childTasks <= MAX_DIRECT_FAN_OUT

Decomposed(s) == [s EXCEPT !.name = "dispatch"]

----------------------------------------------------------------------------
\* Dispatch

CanSelect(s, policy) ==
  \/ s.name \in {"dispatch", "code-review"}
  \/ s.name = "verify" /\ policy.verification = "dispatch"

\* Slip: the selection of a check replaces the rung under review too.
SelectedAlways(s, stack) == [s EXCEPT !.selectedRung = stack[1]]

\* Only a work selection names the rung under review.
Selected(s, stack) ==
  IF s.name = "dispatch" THEN [s EXCEPT !.selectedRung = stack[1]] ELSE s

\* The rung a selection made for a check must leave out.
ExcludedRung(s) == IF s.name = "dispatch" THEN NoRung ELSE s.selectedRung

CanComplete(s) == s.name \in {"dispatch", "code-review"}

\* Slip: work that nobody checked is accepted.
CompletedUnchecked(s, disposition, policy) ==
  CASE disposition = "retryable" -> s.name
    [] disposition = "null"      -> "accepted"
    [] OTHER                     -> "rejected"

CompletedName(s, disposition, policy) ==
  CASE disposition = "retryable" -> s.name
    [] disposition = "null"      -> IF s.name = "dispatch" /\ policy.verification # "skip"
                                    THEN "verify" ELSE "accepted"
    [] OTHER                     -> "rejected"

Completed(s, runId, disposition, policy) ==
  [s EXCEPT !.name = CompletedName(s, disposition, policy),
            !.runIds = Append(@, runId)]

----------------------------------------------------------------------------
\* Escalation

nextEscalationBand(s) == s.capabilityFloor + 1

Affordable(remainingCost, policy) ==
  /\ DispatchCost <= remainingCost
  /\ 100 * DispatchCost <= remainingCost * policy.escalationCostFraction

\* Slip: the caps on the band are forgotten.
EscalationUncapped(s, policy, remainingCost) ==
  /\ s.depth = 0
  /\ s.escalationsUsed < policy.maxEscalations
  /\ nextEscalationBand(s) \in CapabilityBand
  /\ Affordable(remainingCost, policy)

\* escalationGuardFailure finds nothing.
EscalationAllowed(s, policy, remainingCost) ==
  /\ s.depth = 0
  /\ s.escalationsUsed < policy.maxEscalations
  /\ nextEscalationBand(s) \in CapabilityBand
  /\ nextEscalationBand(s) <= policy.floorCeiling
  /\ nextEscalationBand(s) <= policy.maxBand
  /\ Affordable(remainingCost, policy)

CanAuthorizeEscalation(s, toBand, policy, remainingCost) ==
  /\ s.name = "escalate"
  /\ toBand = nextEscalationBand(s)
  /\ EscalationAllowed(s, policy, remainingCost)

EscalationAuthorized(s, toBand) ==
  [s EXCEPT !.name = "dispatch", !.capabilityFloor = toBand,
            !.escalationsUsed = @ + 1]

CanDenyEscalation(s) == s.name = "escalate"

EscalationDenied(s) == [s EXCEPT !.name = "verification-failed"]

----------------------------------------------------------------------------
\* Verification

\* validateVerificationEvidence: who checked, in which mode.  Evidence out of
\* its size bounds is refused as well and left out here.
ValidEvidence(s, policy, mode, rung) ==
  /\ mode \in {"parent", "dispatch"}
  /\ mode = policy.verification
  /\ mode = "parent" => rung = NoRung
  /\ mode = "dispatch" => rung \notin {NoRung, s.selectedRung}

CanVerify(s, verdict, mode, rung, policy) ==
  /\ s.name = "verify"
  /\ verdict # "fail-blocked" => ValidEvidence(s, policy, mode, rung)
  /\ verdict = "fail-approach" => s.replansUsed < policy.maxReplans

VerifiedName(s, verdict, policy, remainingCost) ==
  CASE verdict = "pass"          -> IF policy.codeReview = "dispatch"
                                    THEN "code-review" ELSE "accepted"
    [] verdict = "fail-quality"  -> IF EscalationAllowed(s, policy, remainingCost)
                                    THEN "escalate" ELSE "verification-failed"
    [] verdict = "fail-approach" -> "replan"
    [] verdict = "fail-blocked"  -> "blocked"

\* Slip: a replan is not counted.
VerifiedUncounted(s, verdict, policy, remainingCost) ==
  [s EXCEPT !.name = VerifiedName(s, verdict, policy, remainingCost)]

Verified(s, verdict, policy, remainingCost) ==
  [s EXCEPT !.name = VerifiedName(s, verdict, policy, remainingCost),
            !.replansUsed = IF verdict = "fail-approach" THEN @ + 1 ELSE @]

----------------------------------------------------------------------------
\* The end

CanCancel(s) == s.name # "cancelled"

Cancelled(s) == [s EXCEPT !.name = "cancelled"]

CanShip(s) == s.name = "accepted"

Shipped(s) == [s EXCEPT !.name = "ship"]

Outcome == {"accepted", "rejected", "blocked", "verification-failed", "escalated"}

lastRunId(s) == s.runIds[Len(s.runIds)]

\* Slip: an escalation leaves the run it supersedes as it is.
AnnotationTerminal(s, n) ==
  IF n.name \in (TerminalStateName \ {"cancelled"}) /\ Len(n.runIds) > 0
  THEN <<[run |-> lastRunId(n), outcome |-> n.name]>> ELSE <<>>

\* The annotate effects of a move from s to n.
AnnotationOf(s, n) ==
  CASE Len(n.runIds) > 0 /\ n.name \in TerminalStateName \ {"cancelled"} ->
         <<[run |-> lastRunId(n), outcome |-> n.name]>>
    [] Len(n.runIds) > 0 /\ s.name = "escalate" /\ n.name = "dispatch" ->
         <<[run |-> lastRunId(n), outcome |-> "escalated"]>>
    [] OTHER -> <<>>
=============================================================================
