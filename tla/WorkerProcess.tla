---------------------------- MODULE WorkerProcess ----------------------------
(***************************************************************************)
(* The worker processes of one runner (spawn-adapter.ts): each attempt of  *)
(* a run spawns one provider CLI, which may start a helper of its own, and *)
(* awaits its exit and the end of its output, under an optional deadline.  *)
(* A signal sent to the runner alone is forwarded to the process trees of  *)
(* the workers alive at that moment; after a grace the survivors are       *)
(* killed and the runner exits.  The processes are the environment: they   *)
(* exit when they like, and a deaf one exits for no signal but SIGKILL.    *)
(***************************************************************************)
EXTENDS Integers, FiniteSets

CONSTANTS
  MaxAttempts,    \* bound: attempts the run makes
  Signals,        \* of FORWARDED_SIGNALS
  Grace           \* WORKER_TERMINATION_GRACE_MS, in polls

ASSUME ProcessAssumption ==
  /\ MaxAttempts \in Nat /\ Grace \in Nat
  /\ Signals \cap {"no", "run", "default"} = {}

Attempts == 1..MaxAttempts
Procs == Attempts \X {"worker", "helper"}
Worker(k) == <<k, "worker">>
Helper(k) == <<k, "helper">>

VARIABLES
  life,         \* of each process: "unborn", "alive", "dead"
  deaf,         \* live processes that ignore the forwarded signals
  piped,        \* live helpers that inherited their worker's output
  told,         \* live processes sent a terminating signal
  liveWorkers,  \* the registry: attempts whose worker is not known to have exited
  spawned,      \* attempts made so far
  invocation,   \* collectWithDeadline of the last attempt: "none", "open", "settled"
  timed,        \* whether it has a duration budget
  deadlineHit,
  over,         \* the run makes no further attempt
  sweeps,       \* per signal: {} or {stopLiveWorkers under way}
  exit          \* "no", "run" when the run ended, "default", or the signal served

vars == <<life, deaf, piped, told, liveWorkers, spawned, invocation, timed, deadlineHit,
          over, sweeps, exit>>

Init ==
  /\ life = [p \in Procs |-> "unborn"]
  /\ deaf = {} /\ piped = {} /\ told = {}
  /\ liveWorkers = {} /\ spawned = 0
  /\ invocation = "none" /\ timed = FALSE /\ deadlineHit = FALSE
  /\ over = FALSE
  /\ sweeps = [s \in Signals |-> {}]
  /\ exit = "no"

Alive(p) == life[p] = "alive"
Last == Worker(spawned)
Running == exit = "no"

(* The runner. *)

\* An attempt is awaited before the next.
awaited == invocation # "open"
Spawn ==
  /\ Running /\ ~ over /\ awaited /\ spawned < MaxAttempts
  /\ LET w == Worker(spawned + 1)
     IN  /\ life' = [life EXCEPT ![w] = "alive"]
         /\ deaf' \in {deaf, deaf \cup {w}}
  /\ spawned' = spawned + 1
  /\ liveWorkers' = liveWorkers \cup {spawned + 1}
  /\ invocation' = "open" /\ timed' \in BOOLEAN /\ deadlineHit' = FALSE
  /\ UNCHANGED <<piped, told, over, sweeps, exit>>

\* child.exited settles: the worker leaves the registry.
Exited(k) ==
  /\ Running /\ k \in liveWorkers /\ life[Worker(k)] = "dead"
  /\ liveWorkers' = liveWorkers \ {k}
  /\ UNCHANGED <<life, deaf, piped, told, spawned, invocation, timed, deadlineHit, over, sweeps, exit>>

\* Slip: a worker past its deadline is given up and leaves the registry.
untrackAtDeadline(live) == live \ {spawned}
trackedAtDeadline(live) == live
\* setTimeout: the worker, not its helpers, is sent the default signal, once.
DeadlineFires ==
  /\ Running /\ invocation = "open" /\ timed /\ ~ deadlineHit
  /\ deadlineHit' = TRUE
  /\ told' = IF Alive(Last) THEN told \cup {Last} ELSE told
  /\ liveWorkers' = trackedAtDeadline(liveWorkers)
  /\ UNCHANGED <<life, deaf, piped, spawned, invocation, timed, over, sweeps, exit>>

\* Promise.all: both outputs at their end, and the exit.
collected == life[Last] = "dead" /\ ~ (Helper(spawned) \in piped)
\* The deadline makes it a budget stop, which ends the run; otherwise the run ends
\* with it, or its failure is one the next attempt may retry.
Settle ==
  /\ Running /\ invocation = "open" /\ collected
  /\ invocation' = "settled"
  /\ over' \in IF deadlineHit THEN {TRUE} ELSE BOOLEAN
  /\ UNCHANGED <<life, deaf, piped, told, liveWorkers, spawned, timed, deadlineHit, sweeps, exit>>

\* Nothing is left to wait for: the process ends by itself.
RunEnds ==
  /\ Running /\ invocation = "settled" /\ (over \/ spawned = MaxAttempts)
  /\ \A s \in Signals : sweeps[s] = {}
  /\ exit' = "run"
  /\ UNCHANGED <<life, deaf, piped, told, liveWorkers, spawned, invocation, timed, deadlineHit, over, sweeps>>

(* stopLiveWorkers. *)

\* A helper is found through its worker only while that is alive.
descendantPids(k) == {h \in {Helper(k)} : Alive(h) /\ Alive(Worker(k))}
trees == UNION {{Worker(k)} \cup descendantPids(k) : k \in liveWorkers}
Sweep(snapshot, left) == [snapshot |-> snapshot, survivors |-> {p \in snapshot : Alive(p)}, left |-> left]

\* Slip: the loop waits until nobody survives.
pollsWhileAnySurvives(w) == w.survivors # {}
polls(w) == w.survivors # {} /\ w.left > 0
\* Slip: the trees are looked up again, now that the workers are gone.
killTreesAgain(w) == trees
killed(w) == w.survivors
\* The loop goes on, or the survivors are killed and the runner exits.
Continue(s, w) ==
  IF polls(w) THEN UNCHANGED <<life, exit>>
  ELSE /\ life' = [p \in Procs |-> IF p \in killed(w) /\ Alive(p) THEN "dead" ELSE life[p]]
       /\ exit' = s

\* The handlers are there from the first spawn on, each for one signal (process.once).
Forward(s) ==
  /\ Running /\ spawned > 0 /\ sweeps[s] = {}
  /\ sweeps' = [sweeps EXCEPT ![s] = {Sweep(trees, Grace)}]
  /\ told' = told \cup {p \in trees : Alive(p)}
  /\ Continue(s, Sweep(trees, Grace))
  /\ UNCHANGED <<deaf, piped, liveWorkers, spawned, invocation, timed, deadlineHit, over>>
stillAlive(w) == {p \in w.survivors : Alive(p)}
Poll(s) ==
  /\ Running
  /\ \E w \in sweeps[s] :
       LET next == [w EXCEPT !.survivors = stillAlive(w), !.left = IF w.left > 0 THEN w.left - 1 ELSE 0]
       IN  sweeps' = [sweeps EXCEPT ![s] = {next}] /\ Continue(s, next)
  /\ UNCHANGED <<deaf, piped, told, liveWorkers, spawned, invocation, timed, deadlineHit, over>>

\* A signal nobody listens for ends the process.
DefaultSignal(s) ==
  /\ Running /\ (spawned = 0 \/ sweeps[s] # {})
  /\ exit' = "default"
  /\ UNCHANGED <<life, deaf, piped, told, liveWorkers, spawned, invocation, timed, deadlineHit, over, sweeps>>

(* The processes. *)

StartsHelper(k) ==
  /\ Alive(Worker(k)) /\ life[Helper(k)] = "unborn"
  /\ life' = [life EXCEPT ![Helper(k)] = "alive"]
  /\ deaf' \in {deaf, deaf \cup {Helper(k)}}
  /\ piped' \in {piped, piped \cup {Helper(k)}}
  /\ UNCHANGED <<told, liveWorkers, spawned, invocation, timed, deadlineHit, over, sweeps, exit>>
Ends(p) ==
  /\ Alive(p)
  /\ life' = [life EXCEPT ![p] = "dead"]
  /\ deaf' = deaf \ {p} /\ piped' = piped \ {p} /\ told' = told \ {p}
  /\ UNCHANGED <<liveWorkers, spawned, invocation, timed, deadlineHit, over, sweeps, exit>>
Obeys(p) == p \in told \ deaf /\ Ends(p)

RunnerSteps == Spawn \/ (\E k \in Attempts : Exited(k)) \/ Settle \/ RunEnds
SweepSteps == \E s \in Signals : Poll(s)
Next ==
  \/ RunnerSteps \/ SweepSteps \/ DeadlineFires
  \/ \E s \in Signals : Forward(s) \/ DefaultSignal(s)
  \/ \E k \in Attempts : StartsHelper(k)
  \/ \E p \in Procs : Ends(p)

Spec == Init /\ [][Next]_vars
\* The event loop runs on, and a process that hears a signal ends.
FairSpec ==
  /\ Spec /\ WF_vars(Settle) /\ WF_vars(SweepSteps)
  /\ \A p \in Procs : WF_vars(Obeys(p))

(* Properties. *)

ProcessTypeOK ==
  /\ life \in [Procs -> {"unborn", "alive", "dead"}]
  /\ deaf \cup told \subseteq Procs /\ piped \subseteq {Helper(k) : k \in Attempts}
  /\ liveWorkers \subseteq 1..spawned /\ spawned \in 0..MaxAttempts
  /\ invocation \in {"none", "open", "settled"}
  /\ \A s \in Signals : \A w \in sweeps[s] :
       w.survivors \subseteq w.snapshot /\ w.left \in 0..Grace
  /\ exit \in {"no", "run", "default"} \cup Signals

\* However the run goes on after a failure or a deadline, two provider CLIs of one
\* run never work in the checkout at the same time.
OneWorkerAtATime == \A j, k \in Attempts : Alive(Worker(j)) /\ Alive(Worker(k)) => j = k

\* As long as the runner lives, every provider CLI it started that is still alive can
\* be reached by a signal: a slow death does not take it off the registry.
LiveWorkersReachable == Running => \A k \in Attempts : Alive(Worker(k)) => k \in liveWorkers

\* When a forwarded signal ends the runner, no process of the trees it found is left,
\* helpers of workers that were gone before them included.
SweptTreesAreGone ==
  \A s \in Signals : exit = s => \A w \in sweeps[s] : \A p \in w.snapshot : ~ Alive(p)

\* A signal ends the runner, however deaf the processes are.
ShutdownEnds == \A s \in Signals : (sweeps[s] # {}) ~> ~ Running

\* A worker that hears the deadline's signal settles its attempt: past that, only a
\* helper it leaves behind on its output can hold the attempt up.
DeadlineSettles ==
  (invocation = "open" /\ deadlineHit /\ Last \notin deaf)
    ~> (invocation # "open" \/ ~ Running \/ Alive(Helper(spawned)))

\* The comment on liveWorkers says a signal sent to the runner's pid alone no longer
\* leaves a provider CLI editing the workspace as an orphan.
ShutdownLeavesNoWorker == exit \in Signals => \A k \in Attempts : ~ Alive(Worker(k))

\* The registry and the run's awaits agree with the processes.
ProcessInvariant == ProcessTypeOK /\ OneWorkerAtATime /\ LiveWorkersReachable

\* A runner that is signalled ends, and an attempt past its deadline does, as long as
\* what hears a signal ends.
StopsSettle == ShutdownEnds /\ DeadlineSettles
==============================================================================
