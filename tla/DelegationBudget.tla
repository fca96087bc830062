-------------------------- MODULE DelegationBudget --------------------------
(***************************************************************************)
(* The root-owned budget ledger of delegation-budget.ts: the vector of     *)
(* limits a root run starts with, the reservation a dispatch takes from    *)
(* what remains, and the reconciliation of a reservation to what the       *)
(* dispatch used.  A ledger is one record and every operation is an        *)
(* operator from ledgers to ledgers; DelegationScheduler holds one ledger  *)
(* per root and calls them inside its own steps.                           *)
(*                                                                         *)
(* Wall time has no counter of its own in the code: every read of          *)
(* remaining.wallTimeMs comes right after refreshRootWallTime, which       *)
(* recomputes it from the clock and the outstanding reservations.  It is   *)
(* therefore a derived value here (WallRemaining) and not a field.         *)
(***************************************************************************)
EXTENDS Integers, FiniteSets, Functions

CONSTANTS
  Tasks,            \* task identities; a root identity is a task identity
  Metered,          \* the dimensions charged at a measured amount
  RootLimits,       \* BUDGET_LIMITS_V1.root
  DispatchCeiling,  \* BUDGET_LIMITS_V1.dispatch
  Unknown           \* an actual that was not measured

SlotDimensions == {"call", "concurrency"}

ContinuousDimensions == Metered \cup {"wallTimeMs"}

Dimensions == SlotDimensions \cup ContinuousDimensions

\* The dimensions whose remaining balance is stored in the ledger.
Pooled == SlotDimensions \cup Metered

\* A fresh ledger can always supply a whole reservation, and one dispatch is
\* one call and one concurrency slot (budget.ts:19-34).
ASSUME BudgetAssumption ==
  /\ Metered \subseteq {"token", "cost"}
  /\ RootLimits \in [Dimensions -> Nat]
  /\ DispatchCeiling \in [Dimensions -> Nat]
  /\ \A d \in Dimensions : 0 < DispatchCeiling[d] /\ DispatchCeiling[d] <= RootLimits[d]
  /\ \A d \in SlotDimensions : DispatchCeiling[d] = 1
  /\ Unknown \notin Nat

Vector == [Dimensions -> Nat]

zeroVector == [d \in Dimensions |-> 0]

\* What a runner reports of one dispatch.  A wall-time actual leaves no trace:
\* reconcileDispatch ends in refreshRootWallTime, and concurrency is charged 0.
BudgetActuals == [Metered \cup {"call"} -> Nat \cup {Unknown}]

\* The actuals of a dispatch whose consumption nobody measured.
UnknownActuals ==
  [d \in Metered \cup {"call"} |-> IF d = "call" THEN 1 ELSE Unknown]

RootBudgetLedger ==
  [open      : BOOLEAN,
   createdAt : Nat,
   consumed  : [Pooled -> Nat],
   remaining : [Pooled -> Int],
   holders   : SUBSET Tasks,          \* keys of the reservations map
   reserved  : [Tasks -> Vector]]

NoLedger ==
  [open |-> FALSE, createdAt |-> 0,
   consumed  |-> [d \in Pooled |-> 0],
   remaining |-> [d \in Pooled |-> 0],
   holders   |-> {},
   reserved  |-> [t \in Tasks |-> zeroVector]]

createRootBudgetLedger(now) ==
  [open |-> TRUE, createdAt |-> now,
   consumed  |-> [d \in Pooled |-> 0],
   remaining |-> [d \in Pooled |-> RootLimits[d]],
   holders   |-> {},
   reserved  |-> [t \in Tasks |-> zeroVector]]

Elapsed(L, now) == now - L.createdAt

\* Outstanding reservations of S in dimension d, summed.
ReservedBy(L, S, d) == SumFunctionOnSet([t \in Tasks |-> L.reserved[t][d]], S)

activeReservedWallTimeMs(L) == ReservedBy(L, L.holders, "wallTimeMs")

WallRemaining(L, now) ==
  RootLimits["wallTimeMs"] - Elapsed(L, now) - activeReservedWallTimeMs(L)

Remaining(L, now, d) ==
  IF d = "wallTimeMs" THEN WallRemaining(L, now) ELSE L.remaining[d]

----------------------------------------------------------------------------
\* Reservation.  A slot is all or nothing, any other dimension shrinks to what
\* remains.

\* Slip: the ceiling is granted whatever remains.
reserveCeiling(d, remaining) == DispatchCeiling[d]

reserveAmount(d, remaining) ==
  LET ceiling == DispatchCeiling[d] IN
  IF remaining >= ceiling THEN ceiling
  ELSE IF d \in SlotDimensions THEN 0 ELSE remaining

Reservation(L, now) ==
  [d \in Dimensions |-> reserveAmount(d, Remaining(L, now, d))]

CanReserve(L, now, t) ==
  /\ t \notin L.holders
  /\ \A d \in Dimensions : Reservation(L, now)[d] > 0

\* Slip: the pool pays the ceiling and not what was reserved.
tryReserveAtCeiling(L, now, t) ==
  [L EXCEPT !.holders     = @ \cup {t},
            !.reserved[t] = Reservation(L, now),
            !.remaining   = [d \in Pooled |-> @[d] - DispatchCeiling[d]]]

tryReserveDispatch(L, now, t) ==
  [open      |-> L.open,
   createdAt |-> L.createdAt,
   consumed  |-> L.consumed,
   holders   |-> L.holders \cup {t},
   reserved  |-> [L.reserved EXCEPT ![t] = Reservation(L, now)],
   remaining |-> [d \in Pooled |-> L.remaining[d] - Reservation(L, now)[d]]]

----------------------------------------------------------------------------
\* Reconciliation.  A metered dimension is charged what was measured, even
\* above the reservation; an unmeasured one is charged the whole reservation.

reconcileDimensionActual(d, reserved, actuals) ==
  IF d = "concurrency" THEN 0
  ELSE IF actuals[d] = Unknown THEN reserved
  ELSE IF d = "call" /\ actuals[d] > reserved THEN reserved
  ELSE actuals[d]

Charged(L, S, d, actuals) ==
  SumFunctionOnSet([t \in Tasks |-> reconcileDimensionActual(d, L.reserved[t][d], actuals[t])], S)

\* Slip: a reconciled reservation stays in the map.
reconcileAndKeep(L, S, actuals) ==
  [L EXCEPT !.consumed  = [d \in Pooled |-> @[d] + Charged(L, S, d, actuals)],
            !.remaining = [d \in Pooled |->
                             @[d] + ReservedBy(L, S, d) - Charged(L, S, d, actuals)]]

\* The reservations of the tasks in S reconciled one after another, each to
\* its own actuals; the order does not matter.
reconcileDispatch(L, S, actuals) ==
  [open      |-> L.open,
   createdAt |-> L.createdAt,
   consumed  |-> [d \in Pooled |-> L.consumed[d] + Charged(L, S, d, actuals)],
   holders   |-> L.holders \ S,
   reserved  |-> [t \in Tasks |-> IF t \in S THEN zeroVector ELSE L.reserved[t]],
   remaining |-> [d \in Pooled |->
                    L.remaining[d] + ReservedBy(L, S, d) - Charged(L, S, d, actuals)]]

isRootBudgetExhausted(L, now) == \E d \in Dimensions : Remaining(L, now, d) <= 0
============================================================================
