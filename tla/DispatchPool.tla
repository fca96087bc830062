----------------------------- MODULE DispatchPool -----------------------------
(***************************************************************************)
(* What the scheduler promises about running dispatches, with no counters, *)
(* queue, ledger or lock tables: a pool of running tasks, each working for *)
(* one root and holding at most one checkout for writing.  The limits are  *)
(* on the pool itself, a cancelled root leaves the pool at once and never  *)
(* comes back to it.  DelegationScheduler implements this specification.   *)
(***************************************************************************)
EXTENDS Naturals, FiniteSets

CONSTANTS Tasks, NoTask, Checkouts, NoCheckout, MaxPool, MaxTeam

VARIABLES
  worksFor,   \* the root a running task works for, NoTask when it is not running
  writes,     \* the checkout a running task may write, or NoCheckout
  dead        \* roots that were cancelled

poolVars == <<worksFor, writes, dead>>

Team(r) == {t \in Tasks : worksFor[t] = r}

Pool == {t \in Tasks : worksFor[t] # NoTask}

Init ==
  /\ worksFor = [t \in Tasks |-> NoTask]
  /\ writes = [t \in Tasks |-> NoCheckout]
  /\ dead = {}

\* A task joins the pool while there is room in it and in its root's team.
Join(t, r, c) ==
  /\ t \notin Pool
  /\ r \notin dead
  /\ Cardinality(Pool) < MaxPool
  /\ Cardinality(Team(r)) < MaxTeam
  /\ c # NoCheckout => \A u \in Tasks : writes[u] # c
  /\ worksFor' = [worksFor EXCEPT ![t] = r]
  /\ writes' = [writes EXCEPT ![t] = c]
  /\ UNCHANGED dead

Quit(t) ==
  /\ t \in Pool
  /\ worksFor' = [worksFor EXCEPT ![t] = NoTask]
  /\ writes' = [writes EXCEPT ![t] = NoCheckout]
  /\ UNCHANGED dead

\* A root dies: its whole team quits in the same step.
Disband(r) ==
  /\ worksFor' = [t \in Tasks |-> IF t \in Team(r) THEN NoTask ELSE worksFor[t]]
  /\ writes' = [t \in Tasks |-> IF t \in Team(r) THEN NoCheckout ELSE writes[t]]
  /\ dead' = dead \cup {r}

Next ==
  \/ \E t, r \in Tasks, c \in Checkouts \cup {NoCheckout} : Join(t, r, c)
  \/ \E t \in Tasks : Quit(t)
  \/ \E r \in Tasks : Disband(r)

Spec == Init /\ [][Next]_poolVars
==============================================================================
