------------------------ MODULE WorkerProcess_proofs -------------------------
(***************************************************************************)
(* For any number of attempts, any signals and any grace: one provider CLI *)
(* at a time, each reachable while it lives, and no process of a swept     *)
(* tree left when a forwarded signal has ended the runner.                 *)
(***************************************************************************)
EXTENDS WorkerProcess, TLAPS

(* The inductive invariant. *)

Lives == {"unborn", "alive", "dead"}
Sweeps == [snapshot : SUBSET Procs, survivors : SUBSET Procs, left : 0..Grace]
Controls ==
  /\ life \in [Procs -> Lives]
  /\ deaf \subseteq Procs /\ told \subseteq Procs /\ piped \subseteq {Helper(k) : k \in Attempts}
  /\ liveWorkers \subseteq 1..spawned /\ spawned \in 0..MaxAttempts
  /\ invocation \in {"none", "open", "settled"} /\ (invocation = "none" \/ spawned > 0)
  /\ sweeps \in [Signals -> SUBSET Sweeps]
  /\ exit \in {"no", "run", "default"} \cup Signals

\* A worker is born when its attempt is made.
BornWithAttempt ==
  \A k \in Attempts : (life[Worker(k)] = "unborn") <=> (k > spawned)
\* Only the worker of the attempt under way can be alive.
OnlyLastAlive ==
  \A k \in Attempts : Alive(Worker(k)) => k = spawned /\ invocation = "open"
\* A sweep is about processes that were born, and as long as it is under way those of
\* them still alive are among its survivors; when it has ended the runner none is.
SweepsTrack ==
  \A s \in Signals : \A w \in sweeps[s] :
    /\ w.survivors \subseteq w.snapshot
    /\ \A p \in w.snapshot :
         /\ life[p] # "unborn"
         /\ (Running /\ Alive(p)) => p \in w.survivors
         /\ exit = s => ~ Alive(p)
IInv == Controls /\ BornWithAttempt /\ OnlyLastAlive /\ LiveWorkersReachable /\ SweepsTrack

(* Processes. *)

LEMMA ProcessFacts ==
  /\ \A k \in Attempts : Worker(k) \in Procs /\ Helper(k) \in Procs
  /\ \A j, k \in Attempts : (Worker(j) = Worker(k)) => (j = k)
  /\ \A j, k \in Attempts : Worker(j) # Helper(k)
  /\ Attempts = 1..MaxAttempts
BY DEF Procs, Worker, Helper, Attempts

\* The invariant holds of what it says.
LEMMA Consequences == IInv => ProcessInvariant /\ SweptTreesAreGone
<1> SUFFICES ASSUME IInv PROVE ProcessInvariant /\ SweptTreesAreGone
  OBVIOUS
<1>1. ProcessTypeOK
  <2>1. \A s \in Signals : \A w \in sweeps[s] : w \in Sweeps
    BY DEF IInv, Controls
  <2>2. \A s \in Signals : \A w \in sweeps[s] : w.survivors \subseteq w.snapshot /\ w.left \in 0..Grace
    BY <2>1 DEF IInv, SweepsTrack, Sweeps
  <2> QED
    BY <2>2 DEF IInv, Controls, ProcessTypeOK, Lives
<1>2. OneWorkerAtATime
  BY DEF IInv, OnlyLastAlive, OneWorkerAtATime
<1>3. SweptTreesAreGone
  BY DEF IInv, SweepsTrack, SweptTreesAreGone
<1> QED
  BY <1>1, <1>2, <1>3 DEF IInv, ProcessInvariant

LEMMA InitIInv == Init => IInv
<1> SUFFICES ASSUME Init PROVE IInv
  OBVIOUS
<1> USE ProcessAssumption, ProcessFacts
<1>1. Controls
  BY DEF Init, Controls, Lives
<1>2. BornWithAttempt
  BY DEF Init, BornWithAttempt
<1>3. OnlyLastAlive /\ LiveWorkersReachable
  BY DEF Init, OnlyLastAlive, LiveWorkersReachable, Alive
<1>4. SweepsTrack
  BY DEF Init, SweepsTrack
<1> QED
  BY <1>1, <1>2, <1>3, <1>4 DEF IInv

(* What keeps the sweeps. *)

\* A step after which processes are only older, that leaves the sweeps alone and ends
\* the runner with no signal, keeps them.
LEMMA SweepsKept ==
  ASSUME IInv, life' \in [Procs -> Lives],
         \A p \in Procs : life[p] # "unborn" => life'[p] # "unborn" /\ (life'[p] = "alive" => life[p] = "alive"),
         UNCHANGED sweeps, exit' = exit \/ (Running /\ exit' \in {"run", "default"})
  PROVE  SweepsTrack'
<1> SUFFICES ASSUME NEW s \in Signals, NEW w \in sweeps[s], NEW p \in w.snapshot
             PROVE  /\ w.survivors \subseteq w.snapshot
                    /\ life'[p] # "unborn"
                    /\ (Running' /\ Alive(p)') => p \in w.survivors
                    /\ exit' = s => ~ Alive(p)'
  BY DEF SweepsTrack, IInv
<1>1. p \in Procs
  BY DEF IInv, Controls, Sweeps
<1>2. /\ w.survivors \subseteq w.snapshot
      /\ life[p] # "unborn"
      /\ (Running /\ Alive(p)) => p \in w.survivors
      /\ exit = s => ~ Alive(p)
  BY DEF IInv, SweepsTrack
<1>3. s \notin {"no", "run", "default"}
  BY ProcessAssumption
<1> QED
  BY <1>1, <1>2, <1>3 DEF Alive, Running

(* The steps. *)

LEMMA SpawnStep == ASSUME IInv, Spawn PROVE IInv'
<1> USE ProcessAssumption, ProcessFacts
<1> DEFINE n == spawned + 1
           w == Worker(n)
<1>1. n \in Attempts /\ spawned \in Nat /\ w \in Procs
  BY DEF IInv, Controls, Spawn
<1>2. life' = [life EXCEPT ![w] = "alive"] /\ life' \in [Procs -> Lives]
  BY <1>1 DEF IInv, Controls, Spawn, Lives
<1>3. life[w] = "unborn"
  BY <1>1 DEF IInv, BornWithAttempt
<1>4. \A k \in Attempts : k # n => life'[Worker(k)] = life[Worker(k)]
  BY <1>1, <1>2 DEF IInv, Controls
<1>5. life'[w] = "alive"
  BY <1>1, <1>2 DEF IInv, Controls
<1>6. Controls'
  BY <1>1, <1>2 DEF IInv, Controls, Spawn
<1>7. BornWithAttempt'
  BY <1>1, <1>4, <1>5 DEF IInv, BornWithAttempt, Spawn
<1>8. \A k \in Attempts : k # n => ~ Alive(Worker(k))
  BY DEF IInv, OnlyLastAlive, Spawn, awaited
<1>9. OnlyLastAlive'
  BY <1>1, <1>4, <1>8 DEF OnlyLastAlive, Alive, Spawn
<1>10. LiveWorkersReachable'
  BY <1>1, <1>4, <1>8 DEF LiveWorkersReachable, Alive, Spawn
<1>11. SweepsTrack'
  <2>1. \A p \in Procs : p # w => life'[p] = life[p]
    BY <1>2 DEF IInv, Controls
  <2>2. \A p \in Procs : life[p] # "unborn" => life'[p] # "unborn" /\ (life'[p] = "alive" => life[p] = "alive")
    BY <2>1, <1>3
  <2> QED
    BY <1>2, <2>2, SweepsKept DEF Spawn
<1> QED
  BY <1>6, <1>7, <1>9, <1>10, <1>11 DEF IInv

\* Steps of the runner that touch no process.
LEMMA ExitedStep == ASSUME IInv, NEW k \in Attempts, Exited(k) PROVE IInv'
<1>1. Controls' /\ BornWithAttempt' /\ OnlyLastAlive'
  BY DEF IInv, Controls, BornWithAttempt, OnlyLastAlive, Alive, Exited
<1>2. LiveWorkersReachable'
  BY DEF IInv, LiveWorkersReachable, Alive, Running, Exited
<1>3. SweepsTrack'
  BY SweepsKept DEF Exited, IInv, Controls
<1> QED
  BY <1>1, <1>2, <1>3 DEF IInv

LEMMA DeadlineStep == ASSUME IInv, DeadlineFires PROVE IInv'
<1>0. told' \subseteq Procs
  <2>1. spawned \in Attempts
    BY ProcessFacts, ProcessAssumption DEF IInv, Controls, DeadlineFires
  <2> QED
    BY <2>1, ProcessFacts DEF IInv, Controls, DeadlineFires, Last
<1>1. Controls' /\ BornWithAttempt' /\ OnlyLastAlive'
  BY <1>0 DEF IInv, Controls, BornWithAttempt, OnlyLastAlive, Alive, DeadlineFires, trackedAtDeadline
<1>2. LiveWorkersReachable'
  BY DEF IInv, LiveWorkersReachable, Alive, Running, DeadlineFires, trackedAtDeadline
<1>3. SweepsTrack'
  BY SweepsKept DEF DeadlineFires, IInv, Controls
<1> QED
  BY <1>1, <1>2, <1>3 DEF IInv

LEMMA SettleStep == ASSUME IInv, Settle PROVE IInv'
<1>1. Controls' /\ BornWithAttempt' /\ LiveWorkersReachable'
  BY DEF IInv, Controls, BornWithAttempt, LiveWorkersReachable, Alive, Running, Settle
<1>2. \A k \in Attempts : ~ Alive(Worker(k))
  BY DEF IInv, OnlyLastAlive, Settle, collected, Last, Alive
<1>3. OnlyLastAlive'
  BY <1>2 DEF OnlyLastAlive, Alive, Settle
<1>4. SweepsTrack'
  BY SweepsKept DEF Settle, IInv, Controls
<1> QED
  BY <1>1, <1>3, <1>4 DEF IInv

\* The two ends of the runner in which no sweep has a part.
LEMMA EndStep == ASSUME IInv, RunEnds \/ \E s \in Signals : DefaultSignal(s) PROVE IInv'
<1>1. /\ UNCHANGED <<life, deaf, piped, told, liveWorkers, spawned, invocation, sweeps>>
      /\ Running /\ exit' \in {"run", "default"}
  BY DEF RunEnds, DefaultSignal
<1>2. Controls' /\ BornWithAttempt' /\ OnlyLastAlive'
  BY <1>1 DEF IInv, Controls, BornWithAttempt, OnlyLastAlive, Alive
<1>3. LiveWorkersReachable'
  BY <1>1 DEF IInv, LiveWorkersReachable, Alive, Running
<1>4. SweepsTrack'
  BY <1>1, SweepsKept DEF IInv, Controls
<1> QED
  BY <1>2, <1>3, <1>4 DEF IInv

LEMMA StartsHelperStep == ASSUME IInv, NEW k \in Attempts, StartsHelper(k) PROVE IInv'
<1> USE ProcessFacts
<1>1. life' \in [Procs -> Lives]
  BY DEF IInv, Controls, StartsHelper, Lives
<1>2. \A p \in Procs : p # Helper(k) => life'[p] = life[p]
  BY DEF IInv, Controls, StartsHelper
<1>3. \A j \in Attempts : life'[Worker(j)] = life[Worker(j)]
  BY <1>2
<1>4. Controls'
  BY <1>1 DEF IInv, Controls, StartsHelper
<1>5. BornWithAttempt' /\ OnlyLastAlive'
  BY <1>3 DEF IInv, BornWithAttempt, OnlyLastAlive, Alive, StartsHelper
<1>6. LiveWorkersReachable'
  BY <1>3 DEF IInv, LiveWorkersReachable, Alive, Running, StartsHelper
<1>7. SweepsTrack'
  BY <1>1, <1>2, SweepsKept DEF StartsHelper
<1> QED
  BY <1>4, <1>5, <1>6, <1>7 DEF IInv

LEMMA EndsStep == ASSUME IInv, NEW q \in Procs, Ends(q) PROVE IInv'
<1> USE ProcessFacts
<1>1. life' \in [Procs -> Lives] /\ life[q] = "alive"
  BY DEF IInv, Controls, Ends, Lives, Alive
<1>2. \A p \in Procs : life'[p] = IF p = q THEN "dead" ELSE life[p]
  BY DEF IInv, Controls, Ends
<1>3. \A j \in Attempts : /\ (life'[Worker(j)] = "unborn") <=> (life[Worker(j)] = "unborn")
                          /\ life'[Worker(j)] = "alive" => life[Worker(j)] = "alive"
  BY <1>1, <1>2
<1>4. Controls'
  BY <1>1 DEF IInv, Controls, Ends
<1>5. BornWithAttempt' /\ OnlyLastAlive'
  BY <1>3 DEF IInv, BornWithAttempt, OnlyLastAlive, Alive, Ends
<1>6. LiveWorkersReachable'
  BY <1>3 DEF IInv, LiveWorkersReachable, Alive, Running, Ends
<1>7. SweepsTrack'
  BY <1>1, <1>2, SweepsKept DEF Ends
<1> QED
  BY <1>4, <1>5, <1>6, <1>7 DEF IInv

(* A sweep of signal s goes on as w, or kills its survivors and ends the runner. *)

LEMMA ContinueStep ==
  ASSUME IInv, NEW s \in Signals, NEW w \in Sweeps, Running,
         sweeps' = [sweeps EXCEPT ![s] = {w}], Continue(s, w), told' \subseteq Procs,
         UNCHANGED <<deaf, piped, liveWorkers, spawned, invocation>>,
         w.survivors \subseteq w.snapshot,
         \A p \in w.snapshot : life[p] # "unborn" /\ (Alive(p) => p \in w.survivors)
  PROVE  IInv'
<1> USE ProcessFacts
<1>1. CASE polls(w)
  <2>1. UNCHANGED <<life, exit>>
    BY <1>1 DEF Continue
  <2>2. Controls'
    BY <2>1 DEF IInv, Controls
  <2>3. BornWithAttempt' /\ OnlyLastAlive' /\ LiveWorkersReachable'
    BY <2>1 DEF IInv, BornWithAttempt, OnlyLastAlive, LiveWorkersReachable, Alive, Running
  <2>4. SweepsTrack'
    BY <2>1, ProcessAssumption DEF IInv, Controls, SweepsTrack, Alive, Running
  <2> QED
    BY <2>2, <2>3, <2>4 DEF IInv
<1>2. CASE ~ polls(w)
  <2>1. exit' = s /\ life' = [p \in Procs |-> IF p \in w.survivors /\ Alive(p) THEN "dead" ELSE life[p]]
    BY <1>2 DEF Continue, killed
  <2>2. s \notin {"no", "run", "default"}
    BY ProcessAssumption
  <2>3. life' \in [Procs -> Lives]
    BY <2>1 DEF IInv, Controls, Lives
  <2>4. \A p \in Procs : /\ (life'[p] = "unborn") <=> (life[p] = "unborn")
                         /\ life'[p] = "alive" => life[p] = "alive" /\ p \notin w.survivors
    BY <2>1 DEF Alive
  <2>5. Controls'
    BY <2>1, <2>3 DEF IInv, Controls
  <2>6. BornWithAttempt' /\ OnlyLastAlive'
    BY <2>4 DEF IInv, BornWithAttempt, OnlyLastAlive, Alive
  <2>7. LiveWorkersReachable'
    BY <2>1, <2>2 DEF LiveWorkersReachable, Running
  <2>8. SweepsTrack'
    <3> SUFFICES ASSUME NEW t \in Signals, NEW v \in sweeps'[t]
                 PROVE  /\ v.survivors \subseteq v.snapshot
                        /\ \A p \in v.snapshot : life'[p] # "unborn" /\ (s = t => life'[p] # "alive")
      BY <2>1, <2>2 DEF SweepsTrack, Running, Alive
    <3>1. CASE t = s
      <4>1. v = w
        BY <3>1 DEF IInv, Controls
      <4>2. w.snapshot \subseteq Procs
        BY DEF Sweeps
      <4> QED
        BY <4>1, <4>2, <2>4 DEF Alive
    <3>2. CASE t # s
      <4>1. v \in sweeps[t]
        BY <3>2 DEF IInv, Controls
      <4>2. v.snapshot \subseteq Procs
        BY <4>1 DEF IInv, Controls, Sweeps
      <4> QED
        BY <4>1, <4>2, <3>2, <2>4 DEF IInv, SweepsTrack
    <3> QED
      BY <3>1, <3>2
  <2> QED
    BY <2>5, <2>6, <2>7, <2>8 DEF IInv
<1> QED
  BY <1>1, <1>2

LEMMA ForwardStep == ASSUME IInv, NEW s \in Signals, Forward(s) PROVE IInv'
<1> USE ProcessAssumption, ProcessFacts
<1> DEFINE w == Sweep(trees, Grace)
<1>1. \A k \in liveWorkers : k \in Attempts /\ Worker(k) \in Procs /\ descendantPids(k) \subseteq Procs
                             /\ life[Worker(k)] # "unborn" /\ \A p \in descendantPids(k) : life[p] # "unborn"
  BY DEF IInv, Controls, BornWithAttempt, descendantPids, Alive
<1>2. trees \subseteq Procs /\ \A p \in trees : life[p] # "unborn"
  BY <1>1 DEF trees
<1>3. w \in Sweeps
  BY <1>2 DEF Sweep, Sweeps
<1>4. w.survivors \subseteq w.snapshot /\ w.snapshot = trees
      /\ \A p \in w.snapshot : Alive(p) => p \in w.survivors
  BY DEF Sweep
<1>5. told' \subseteq Procs
  BY <1>2 DEF Forward, IInv, Controls
<1>6. /\ Running /\ sweeps' = [sweeps EXCEPT ![s] = {w}] /\ Continue(s, w)
      /\ UNCHANGED <<deaf, piped, liveWorkers, spawned, invocation>>
  BY DEF Forward
<1> HIDE DEF w
<1> QED
  BY <1>2, <1>3, <1>4, <1>5, <1>6, ContinueStep

LEMMA PollStep == ASSUME IInv, NEW s \in Signals, Poll(s) PROVE IInv'
<1> USE ProcessAssumption, ProcessFacts
<1>1. PICK w \in sweeps[s] :
        LET next == [w EXCEPT !.survivors = stillAlive(w), !.left = IF w.left > 0 THEN w.left - 1 ELSE 0]
        IN  sweeps' = [sweeps EXCEPT ![s] = {next}] /\ Continue(s, next)
  BY DEF Poll
<1> DEFINE next == [w EXCEPT !.survivors = stillAlive(w), !.left = IF w.left > 0 THEN w.left - 1 ELSE 0]
<1>2. w \in Sweeps
  BY DEF IInv, Controls
<1>3. (IF w.left > 0 THEN w.left - 1 ELSE 0) \in 0..Grace /\ stillAlive(w) \subseteq w.survivors
  BY <1>2 DEF Sweeps, stillAlive
<1>4. next \in Sweeps /\ next.snapshot = w.snapshot /\ next.survivors = stillAlive(w)
  BY <1>2, <1>3 DEF Sweeps
<1>5. w.survivors \subseteq w.snapshot /\ \A p \in w.snapshot : life[p] # "unborn" /\ (Alive(p) => p \in w.survivors)
  BY DEF IInv, SweepsTrack, Poll
<1>6. next.survivors \subseteq next.snapshot
      /\ \A p \in next.snapshot : life[p] # "unborn" /\ (Alive(p) => p \in next.survivors)
  BY <1>3, <1>4, <1>5 DEF stillAlive
<1>7. /\ Running /\ UNCHANGED <<deaf, piped, liveWorkers, spawned, invocation>> /\ told' \subseteq Procs
  BY DEF Poll, IInv, Controls
<1>8. sweeps' = [sweeps EXCEPT ![s] = {next}] /\ Continue(s, next)
  BY <1>1
<1> HIDE DEF next
<1> QED
  BY <1>4, <1>6, <1>7, <1>8, ContinueStep

LEMMA StutterStep == ASSUME IInv, UNCHANGED vars PROVE IInv'
BY DEF IInv, vars, Controls, BornWithAttempt, OnlyLastAlive, LiveWorkersReachable, SweepsTrack, Alive, Running

LEMMA NextIInv == IInv /\ [Next]_vars => IInv'
<1> SUFFICES ASSUME IInv, [Next]_vars PROVE IInv'
  OBVIOUS
<1>1. CASE RunnerSteps
  BY <1>1, SpawnStep, ExitedStep, SettleStep, EndStep DEF RunnerSteps
<1>2. CASE SweepSteps
  BY <1>2, PollStep DEF SweepSteps
<1>3. CASE DeadlineFires
  BY <1>3, DeadlineStep
<1>4. CASE \E s \in Signals : Forward(s) \/ DefaultSignal(s)
  BY <1>4, ForwardStep, EndStep
<1>5. CASE \E k \in Attempts : StartsHelper(k)
  BY <1>5, StartsHelperStep
<1>6. CASE \E p \in Procs : Ends(p)
  BY <1>6, EndsStep
<1>7. CASE UNCHANGED vars
  BY <1>7, StutterStep
<1> QED
  BY <1>1, <1>2, <1>3, <1>4, <1>5, <1>6, <1>7 DEF Next

(* The theorems. *)

LEMMA Invariance == Spec => []IInv
<1>1. Init => IInv
  BY InitIInv
<1>2. IInv /\ [Next]_vars => IInv'
  BY NextIInv
<1> QED
  BY <1>1, <1>2, PTL DEF Spec

\* However many attempts are made, whatever the processes do and whenever signals and
\* deadlines come (executeAttempt, liveWorkers): at most one provider CLI is alive, and
\* while the runner lives it is on the registry a signal looks at.
THEOREM ProcessInvariantHolds == Spec => []ProcessInvariant
<1>1. IInv => ProcessInvariant
  BY Consequences
<1> QED
  BY <1>1, Invariance, PTL

\* When a forwarded signal has ended the runner (stopLiveWorkers), nothing of the process
\* trees it found is left, however deaf and whichever worker or helper went first.
THEOREM SweptTreesAreGoneHolds == Spec => []SweptTreesAreGone
<1>1. IInv => SweptTreesAreGone
  BY Consequences
<1> QED
  BY <1>1, Invariance, PTL
==============================================================================
