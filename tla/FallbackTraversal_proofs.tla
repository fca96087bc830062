----------------------- MODULE FallbackTraversal_proofs ----------------------
(***************************************************************************)
(* For every registry, every stack and every answer of the workers: a walk *)
(* keeps to its retry budget, tries all before it calls a stack exhausted, *)
(* is an ordered walk, and refuses nothing the validator lets through.     *)
(***************************************************************************)
EXTENDS FallbackTraversal, FiniteSetTheorems, SequenceTheorems, WellFoundedInduction, TLAPS

(* The inductive invariant. *)

AttemptRecord ==
  [index : Nat, effort : STRING, crosses : BOOLEAN, downgrade : BOOLEAN,
   disposition : Answers \cup {NoDisposition}]
Newest(s) == s[Len(s)]

WalkTypes ==
  /\ request \in Requests \cup {NoRequest}
  /\ cursor \in Nat /\ now \in Nat
  /\ attempts \in Seq(AttemptRecord)
  /\ \A k \in DOMAIN attempts : attempts[k].index \in DOMAIN request.rungs
  /\ charged \in Seq(Nat)
  /\ crossPending \in BOOLEAN
  /\ status \in {"idle", "walking", "attempting"} \cup FinalStatuses

\* Before a walk nothing has happened.
Fresh0 == status = "idle" => attempts = <<>> /\ charged = <<>> /\ crossPending = FALSE
\* The attempt under way is the newest one, of the rung under the cursor; between
\* attempts all are behind the cursor and the newest has failed retryably.
CursorLeads ==
  /\ status = "attempting" =>
       /\ attempts # <<>> /\ Newest(attempts).index = cursor /\ Newest(attempts).disposition = NoDisposition
       /\ \A k \in DOMAIN attempts : attempts[k].index <= cursor
  /\ status = "walking" =>
       /\ \A k \in DOMAIN attempts : attempts[k].index < cursor
       /\ attempts # <<>> => Newest(attempts).disposition.kind = "retryable"
\* Whatever runnable rung the cursor has passed was attempted.
PassedWereTried ==
  status \in {"walking", "attempting"} =>
    \A i \in DOMAIN request.rungs :
      (i < cursor /\ Runnable(i)) => \E k \in DOMAIN attempts : attempts[k].index = i
\* Under the active policy each attempt has its charge, in order of time.
Charges ==
  request.policy = "active" =>
    /\ \A k \in DOMAIN charged : charged[k] <= now
    /\ \A j, k \in DOMAIN charged : j <= k => charged[j] <= charged[k]
    /\ Len(attempts) <= Len(charged)
    /\ status \in {"walking", "attempting"} => Len(attempts) = Len(charged)
\* The guard is armed exactly by a crossing that was not downgraded.
PendingIsLastCrossing ==
  (request.policy = "active" /\ status \in {"walking", "attempting"}) =>
    crossPending = (attempts # <<>> /\ Newest(attempts).crosses /\ ~ Newest(attempts).downgrade)

WInv ==
  /\ WalkTypes /\ Fresh0 /\ CursorLeads /\ PassedWereTried /\ Charges /\ PendingIsLastCrossing
  /\ CappedInEveryWindow /\ SecondCrossingDowngraded /\ ExhaustedMeansAllTried

(* Rungs and records. *)

LEMMA Indexed ==
  ASSUME NEW S, NEW s \in Seq(S)
  PROVE  /\ Len(s) \in Nat /\ DOMAIN s = 1..Len(s) /\ \A k \in DOMAIN s : s[k] \in S
         /\ (s = <<>>) <=> (Len(s) = 0)
OBVIOUS
LEMMA Appended ==
  ASSUME NEW S, NEW s \in Seq(S), NEW e \in S
  PROVE  /\ Append(s, e) \in Seq(S) /\ Len(Append(s, e)) = Len(s) + 1
         /\ DOMAIN Append(s, e) = 1..(Len(s) + 1)
         /\ Append(s, e)[Len(s) + 1] = e /\ \A k \in 1..Len(s) : Append(s, e)[k] = s[k]
OBVIOUS
LEMMA LastReplaced ==
  ASSUME NEW S, NEW s \in Seq(S), Len(s) > 0, NEW e \in S
  PROVE  LET t == [s EXCEPT ![Len(s)] = e] IN
         /\ t \in Seq(S) /\ Len(t) = Len(s) /\ DOMAIN t = 1..Len(s)
         /\ t[Len(s)] = e /\ \A k \in 1..Len(s) : k # Len(s) => t[k] = s[k]
<1> DEFINE t == [s EXCEPT ![Len(s)] = e]
<1>1. Len(s) \in 1..Len(s)
  OBVIOUS
<1>2. t \in Seq(S) /\ Len(t) = Len(s)
  BY <1>1, ExceptSeq
<1>3. DOMAIN t = 1..Len(s)
  BY <1>2
<1>4. t[Len(s)] = e /\ \A k \in 1..Len(s) : k # Len(s) => t[k] = s[k]
  BY <1>1
<1> QED
  BY <1>2, <1>3, <1>4

\* A sequence in order of time stays so when the present is appended, or nothing is.
LEMMA InOrderOfTime ==
  ASSUME NEW n \in Nat, NEW m \in {n, n + 1}, NEW t \in Nat, NEW c, NEW e,
         \A k \in 1..n : c[k] <= t, \A j, k \in 1..n : j <= k => c[j] <= c[k],
         \A k \in 1..n : e[k] = c[k], \A k \in 1..m : k > n => e[k] = t
  PROVE  /\ \A k \in 1..m : e[k] <= t
         /\ \A j, k \in 1..m : j <= k => e[j] <= e[k]
<1>1. \A k \in 1..m : k \in 1..n \/ k > n
  OBVIOUS
<1>2. \A k \in 1..m : e[k] <= t
  BY <1>1
<1>3. \A j, k \in 1..m : j <= k => e[j] <= e[k]
  <2> SUFFICES ASSUME NEW j \in 1..m, NEW k \in 1..m, j <= k PROVE e[j] <= e[k]
    OBVIOUS
  <2>1. CASE k \in 1..n
    <3>1. j \in 1..n
      BY <2>1
    <3> QED
      BY <2>1, <3>1
  <2>2. CASE k > n
    BY <1>2, <2>2
  <2> QED
    BY <1>1, <2>1, <2>2
<1> QED
  BY <1>2, <1>3
LEMMA NextIndex ==
  ASSUME NEW n \in Nat, NEW k \in 1..(n + 1), k + 1 \in 1..(n + 1)
  PROVE  k \in 1..n /\ (k = n \/ k + 1 \in 1..n)
OBVIOUS
LEMMA CountOfRest ==
  ASSUME NEW l \in Nat, NEW k \in 1..l, NEW c \in Nat, k + c = l + 1
  PROVE  Cardinality(k..l) = c
<1>1. k \in Int /\ l \in Int /\ ~ (k > l) /\ l - k + 1 = c
  OBVIOUS
<1>2. Cardinality(k..l) = l - k + 1
  BY <1>1, FS_Interval
<1> QED
  BY <1>1, <1>2

\* The attempts and the charges, index by index.
LEMMA Records ==
  ASSUME WalkTypes
  PROVE  /\ Len(attempts) \in Nat /\ DOMAIN attempts = 1..Len(attempts)
         /\ (attempts = <<>>) <=> (Len(attempts) = 0)
         /\ \A k \in 1..Len(attempts) :
              /\ attempts[k] \in AttemptRecord /\ attempts[k].index \in Nat
              /\ attempts[k].crosses \in BOOLEAN /\ attempts[k].downgrade \in BOOLEAN
         /\ Len(charged) \in Nat /\ DOMAIN charged = 1..Len(charged)
         /\ \A k \in 1..Len(charged) : charged[k] \in Nat
<1>1. attempts \in Seq(AttemptRecord) /\ charged \in Seq(Nat)
  BY DEF WalkTypes
<1>2. \A e \in AttemptRecord : e.index \in Nat /\ e.crosses \in BOOLEAN /\ e.downgrade \in BOOLEAN
  BY DEF AttemptRecord
<1> QED
  BY <1>1, <1>2, Indexed

\* What a rung is depends on the registry and the request alone.
LEMMA RunnableKept ==
  ASSUME UNCHANGED <<registry, request>>
  PROVE  \A i : Runnable(i)' <=> Runnable(i)
BY DEF Runnable, NonRunnable, Incompatible, rungOf, entryOf, Contract

LEMMA RungTypes ==
  ASSUME WalkTypes
  PROVE  /\ request.rungs \in Seq([stableId : STRING, effort : STRING])
         /\ DOMAIN request.rungs = 1..Len(request.rungs)
         /\ Len(request.rungs) \in Nat
<1>1. request.rungs \in Seq([stableId : STRING, effort : STRING])
  <2>1. CASE request = NoRequest
    <3>1. request.rungs = <<>>
      BY <2>1 DEF NoRequest, Request
    <3> QED
      BY <3>1
  <2>2. CASE request \in Requests
    BY <2>2, TraversalAssumption
  <2> QED
    BY <2>1, <2>2 DEF WalkTypes
<1> QED
  BY <1>1

\* The type of a walk as the runs check it.
LEMMA TypesImply == WInv => WalkTypeOK
<1> SUFFICES ASSUME WInv PROVE WalkTypeOK
  OBVIOUS
<1>1. \A k \in DOMAIN attempts : attempts[k] \in AttemptRecord
  BY DEF WInv, WalkTypes
<1>2. \A k \in DOMAIN attempts : attempts[k].disposition \in Answers \cup {NoDisposition}
  BY <1>1 DEF AttemptRecord
<1>3. DOMAIN attempts = 1..Len(attempts)
  BY DEF WInv, WalkTypes
<1> QED
  BY <1>2, <1>3 DEF WInv, WalkTypes, WalkTypeOK

LEMMA InitWInv == Init => WInv
<1> SUFFICES ASSUME Init PROVE WInv
  OBVIOUS
<1>1. attempts = <<>> /\ charged = <<>> /\ DOMAIN attempts = {} /\ status = "idle"
  BY DEF Init
<1>2. WalkTypes
  <2>1. attempts \in Seq(AttemptRecord) /\ charged \in Seq(Nat)
    BY <1>1
  <2>2. request = NoRequest /\ cursor \in Nat /\ now \in Nat /\ crossPending \in BOOLEAN
    BY DEF Init
  <2> QED
    BY <1>1, <2>1, <2>2 DEF WalkTypes
<1>3. Fresh0 /\ CursorLeads /\ PassedWereTried /\ PendingIsLastCrossing
  BY <1>1 DEF Init, Fresh0, CursorLeads, PassedWereTried, PendingIsLastCrossing
<1>4. request.policy # "active"
  BY DEF Init, NoRequest, Request
<1> QED
  BY <1>1, <1>2, <1>3, <1>4 DEF WInv, Charges, CappedInEveryWindow, SecondCrossingDowngraded, ExhaustedMeansAllTried

(* Steps that keep the record of attempts. *)

LEMMA BeginStep == ASSUME WInv, NEW q \in Requests, Begin(q) PROVE WInv'
<1>1. /\ status = "idle" /\ attempts = <<>> /\ charged = <<>> /\ crossPending = FALSE
      /\ UNCHANGED <<attempts, charged, crossPending, now>>
      /\ request' = q /\ cursor' = 1 /\ status' \in {"terminal", "walking"}
  BY DEF Begin, Finish, WInv, Fresh0
<1>2. DOMAIN attempts = {} /\ DOMAIN charged = {} /\ Len(attempts) = 0 /\ Len(charged) = 0
  BY <1>1
<1>3. WalkTypes'
  BY <1>1, <1>2 DEF WInv, WalkTypes, FinalStatuses
<1>4. PassedWereTried'
  <2>1. request'.rungs \in Seq([stableId : STRING, effort : STRING])
    BY <1>1, TraversalAssumption
  <2>2. \A i \in DOMAIN request'.rungs : ~ (i < cursor')
    BY <1>1, <2>1
  <2> QED
    BY <2>2 DEF PassedWereTried
<1>5. Fresh0' /\ CursorLeads' /\ Charges' /\ PendingIsLastCrossing'
  <2>1. Fresh0' /\ CursorLeads'
    BY <1>1, <1>2 DEF Fresh0, CursorLeads
  <2>2. Charges'
    BY <1>1, <1>2 DEF Charges
  <2>3. PendingIsLastCrossing'
    BY <1>1 DEF PendingIsLastCrossing
  <2> QED
    BY <2>1, <2>2, <2>3
<1>6. CappedInEveryWindow' /\ SecondCrossingDowngraded' /\ ExhaustedMeansAllTried'
  BY <1>1, <1>2 DEF CappedInEveryWindow, SecondCrossingDowngraded, ExhaustedMeansAllTried
<1> QED
  BY <1>3, <1>4, <1>5, <1>6 DEF WInv

\* A charge made at the end of a walk keeps the charges in order.
LEMMA ChargeKept ==
  ASSUME WalkTypes, charged' \in {charged, Append(charged, now)}
  PROVE  /\ Len(charged') \in {Len(charged), Len(charged) + 1}
         /\ charged' \in Seq(Nat) /\ DOMAIN charged' = 1..Len(charged')
         /\ \A k \in 1..Len(charged) : charged'[k] = charged[k]
         /\ \A k \in 1..Len(charged') : k > Len(charged) => charged'[k] = now
<1>1. charged \in Seq(Nat) /\ Len(charged) \in Nat /\ DOMAIN charged = 1..Len(charged) /\ now \in Nat
  BY Records DEF WalkTypes
<1>2. CASE charged' = charged
  <2>1. \A k \in 1..Len(charged) : ~ (k > Len(charged))
    BY <1>1
  <2> QED
    BY <1>1, <1>2, <2>1
<1>3. CASE charged' = Append(charged, now)
  <2>1. /\ Append(charged, now) \in Seq(Nat) /\ Len(Append(charged, now)) = Len(charged) + 1
        /\ DOMAIN Append(charged, now) = 1..(Len(charged) + 1)
        /\ Append(charged, now)[Len(charged) + 1] = now
        /\ \A k \in 1..Len(charged) : Append(charged, now)[k] = charged[k]
    BY <1>1, Appended
  <2>2. \A k \in 1..(Len(charged) + 1) : k > Len(charged) => k = Len(charged) + 1
    BY <1>1
  <2> QED
    BY <1>3, <2>1, <2>2
<1> QED
  BY <1>2, <1>3
LEMMA ChargesKept ==
  ASSUME WalkTypes, Charges, charged' \in {charged, Append(charged, now)},
         UNCHANGED request, UNCHANGED attempts, UNCHANGED now, status' \notin {"walking", "attempting"}
  PROVE  Charges'
<1> SUFFICES ASSUME request.policy = "active" PROVE Charges'
  BY DEF Charges
<1> DEFINE n == Len(charged)
           m == Len(charged')
<1>1. n \in Nat /\ DOMAIN charged = 1..n /\ now \in Nat /\ Len(attempts) \in Nat
  BY Records DEF WalkTypes
<1>2. /\ m \in {n, n + 1} /\ DOMAIN charged' = 1..m
      /\ \A k \in 1..n : charged'[k] = charged[k]
      /\ \A k \in 1..m : k > n => charged'[k] = now
  BY ChargeKept
<1>3. /\ \A k \in 1..n : charged[k] <= now
      /\ \A j, k \in 1..n : j <= k => charged[j] <= charged[k]
      /\ Len(attempts) <= n
  BY <1>1 DEF Charges
<1> HIDE DEF n, m
<1>4. /\ \A k \in 1..m : charged'[k] <= now
      /\ \A j, k \in 1..m : j <= k => charged'[j] <= charged'[k]
  BY <1>1, <1>2, <1>3, InOrderOfTime
<1>5. Len(attempts) <= m
  BY <1>1, <1>2, <1>3
<1> QED
  BY <1>2, <1>4, <1>5 DEF Charges, m

\* A step that ends the walk and adds nothing to its record, but perhaps a charge.
LEMMA StopStep ==
  ASSUME WInv, status \in {"walking", "attempting"}, status' \in FinalStatuses,
         UNCHANGED <<registry, request, cursor, attempts, now>>,
         charged' \in {charged, Append(charged, now)}, crossPending' \in BOOLEAN,
         ExhaustedMeansAllTried'
  PROVE  WInv'
<1>1. WalkTypes'
  BY ChargeKept DEF WInv, WalkTypes
<1>2. Fresh0' /\ CursorLeads' /\ PassedWereTried' /\ PendingIsLastCrossing'
  BY DEF Fresh0, CursorLeads, PassedWereTried, PendingIsLastCrossing, FinalStatuses
<1>3. /\ Len(attempts) \in Nat /\ DOMAIN attempts = 1..Len(attempts)
      /\ Len(charged) \in Nat /\ DOMAIN charged = 1..Len(charged)
  BY Records DEF WInv
<1>4. \A k \in 1..Len(charged) : charged'[k] = charged[k]
  BY ChargeKept DEF WInv
<1>5. Charges'
  BY ChargesKept DEF WInv, FinalStatuses
<1>6. CappedInEveryWindow'
  <2> SUFFICES ASSUME request.policy = "active", NEW k \in DOMAIN attempts, k + Cap \in DOMAIN attempts
               PROVE  charged'[k + Cap] >= charged'[k] + Window
    BY DEF CappedInEveryWindow
  <2>1. k \in DOMAIN charged /\ k + Cap \in DOMAIN charged
    BY <1>3 DEF WInv, Charges
  <2> QED
    BY <1>3, <1>4, <2>1 DEF WInv, CappedInEveryWindow
<1>7. SecondCrossingDowngraded'
  BY DEF WInv, SecondCrossingDowngraded
<1> QED
  BY <1>1, <1>2, <1>5, <1>6, <1>7 DEF WInv

\* The cursor moves on over a rung that may not run.
LEMMA SkipStep == ASSUME WInv, SkipNonRunnable PROVE WInv'
<1>1. /\ status = "walking" /\ cursor \in DOMAIN request.rungs /\ NonRunnable(cursor)
      /\ cursor' = cursor + 1
      /\ UNCHANGED <<registry, request, attempts, charged, crossPending, status, now>>
  BY DEF SkipNonRunnable, At, afterSkip
<1>2. cursor \in Nat /\ cursor + 1 \in Nat
  BY DEF WInv, WalkTypes
<1>3. WalkTypes' /\ Fresh0' /\ Charges' /\ PendingIsLastCrossing'
  BY <1>1, <1>2 DEF WInv, WalkTypes, Fresh0, Charges, PendingIsLastCrossing
<1>4. CursorLeads'
  <2>1. \A k \in DOMAIN attempts : attempts[k].index \in Nat
    BY Records DEF WInv
  <2> QED
    BY <1>1, <1>2, <2>1 DEF WInv, CursorLeads
<1>5. PassedWereTried'
  <2>1. ~ Runnable(cursor)
    BY <1>1 DEF Runnable
  <2>2. \A i \in DOMAIN request.rungs : i \in Nat
    BY RungTypes DEF WInv
  <2>3. \A i \in DOMAIN request.rungs : i < cursor + 1 => i < cursor \/ i = cursor
    BY <1>2, <2>2
  <2> QED
    BY <1>1, <2>1, <2>3, RunnableKept DEF WInv, PassedWereTried
<1>6. CappedInEveryWindow' /\ SecondCrossingDowngraded' /\ ExhaustedMeansAllTried'
  BY <1>1 DEF WInv, CappedInEveryWindow, SecondCrossingDowngraded, ExhaustedMeansAllTried
<1> QED
  BY <1>3, <1>4, <1>5, <1>6 DEF WInv

LEMMA EndsStep ==
  ASSUME WInv, RefuseIncompatible \/ StopAtMaxAttempts \/ BlockedByRetryBudget \/ AttemptSucceeds
  PROVE  WInv'
<1>1. /\ status \in {"walking", "attempting"}
      /\ status' \in {"terminal", "budget-exhausted", "selected"}
      /\ UNCHANGED <<registry, request, cursor, attempts, now>>
  BY DEF RefuseIncompatible, StopAtMaxAttempts, BlockedByRetryBudget, AttemptSucceeds, Finish, At
<1>2. charged' \in {charged, Append(charged, now)} /\ crossPending' \in BOOLEAN
  <2>1. CASE BlockedByRetryBudget
    BY <2>1 DEF BlockedByRetryBudget, Charge, crossPendingAfter, WInv, WalkTypes
  <2>2. CASE ~ BlockedByRetryBudget
    BY <2>2 DEF RefuseIncompatible, StopAtMaxAttempts, AttemptSucceeds, WInv, WalkTypes
  <2> QED
    BY <2>1, <2>2
<1>3. ExhaustedMeansAllTried'
  BY <1>1 DEF ExhaustedMeansAllTried
<1> QED
  BY <1>1, <1>2, <1>3, StopStep DEF FinalStatuses

LEMMA ExhaustStep == ASSUME WInv, Exhaust PROVE WInv'
<1>1. /\ status = "walking" /\ cursor > Len(request.rungs) /\ status' = "stack-exhausted"
      /\ UNCHANGED <<registry, request, cursor, attempts, charged, crossPending, now>>
  BY DEF Exhaust, Finish
<1>2. \A i \in DOMAIN request.rungs : i < cursor
  BY <1>1, RungTypes DEF WInv, WalkTypes
<1>3. ExhaustedMeansAllTried'
  BY <1>1, <1>2, RunnableKept DEF WInv, PassedWereTried, ExhaustedMeansAllTried
<1>4. charged' \in {charged, Append(charged, now)} /\ crossPending' \in BOOLEAN
  BY <1>1 DEF WInv, WalkTypes
<1> QED
  BY <1>1, <1>3, <1>4, StopStep DEF FinalStatuses

(* An attempt. *)

\* The cap leaves no room: of Cap charges before the new one, the oldest is out of
\* every window the new one is in.
LEMMA RoomInWindow ==
  ASSUME WalkTypes, ChargeAllowed,
         \A k \in DOMAIN charged : charged[k] <= now,
         \A j, k \in DOMAIN charged : j <= k => charged[j] <= charged[k],
         NEW k \in DOMAIN charged, k + Cap = Len(charged) + 1
  PROVE  now >= charged[k] + Window
<1> SUFFICES ASSUME now < charged[k] + Window PROVE FALSE
  BY TraversalAssumption DEF WalkTypes
<1>1. charged \in Seq(Nat) /\ Len(charged) \in Nat /\ DOMAIN charged = 1..Len(charged)
      /\ Cap \in Nat /\ Window \in Nat /\ now \in Nat /\ k \in Nat
  BY TraversalAssumption DEF WalkTypes
<1>2. \A j \in DOMAIN charged : charged[j] \in Nat
  BY Records
<1>3. k..Len(charged) \subseteq InWindow
  <2> SUFFICES ASSUME NEW j \in k..Len(charged) PROVE j \in InWindow
    OBVIOUS
  <2>1. j \in DOMAIN charged /\ k <= j
    BY <1>1
  <2>2. charged[k] <= charged[j] /\ charged[k] \in Nat /\ charged[j] \in Nat
    BY <1>2, <2>1
  <2>3. now < charged[j] + Window
    BY <1>1, <2>2
  <2> QED
    BY <2>1, <2>3 DEF InWindow
<1>4. IsFiniteSet(1..Len(charged)) /\ InWindow \subseteq 1..Len(charged)
  BY <1>1, FS_Interval DEF InWindow
<1>5. IsFiniteSet(InWindow)
  BY <1>4, FS_Subset
<1>6. Cardinality(k..Len(charged)) <= Cardinality(InWindow)
  BY <1>3, <1>5, FS_Subset
<1>7. Cardinality(k..Len(charged)) = Cap
  <2> DEFINE l == Len(charged)
  <2>1. l \in Nat /\ Cap \in Nat /\ k \in 1..l /\ k + Cap = l + 1
    BY <1>1
  <2> HIDE DEF l
  <2>2. Cardinality(k..l) = Cap
    BY <2>1, CountOfRest
  <2> QED
    BY <2>2 DEF l
<1>8. Cardinality(InWindow) \in Nat
  BY <1>5, FS_CardinalityType
<1> QED
  BY <1>1, <1>6, <1>7, <1>8 DEF ChargeAllowed

LEMMA StartStep == ASSUME WInv, StartAttempt PROVE WInv'
<1> DEFINE crosses == crossedPriceBand(cursor)
           down == downgradeAttempted(crosses, request.policy = "active")
           new == Attempt(cursor, rungOf(cursor).effort, crosses, down)
           n == Len(attempts)
<1>1. /\ status = "walking" /\ cursor \in DOMAIN request.rungs /\ ~ Blocked /\ Charge(cursor)
      /\ attempts' = Append(attempts, new) /\ status' = "attempting"
      /\ UNCHANGED <<registry, request, cursor, now>>
  BY DEF StartAttempt, At
<1>2. crosses \in BOOLEAN /\ down \in BOOLEAN
  BY DEF crossedPriceBand, downgradeAttempted
<1>3. cursor \in Nat /\ now \in Nat /\ rungOf(cursor).effort \in STRING
  <2>1. cursor \in Nat /\ now \in Nat /\ WalkTypes
    BY DEF WInv, WalkTypes
  <2>2. request.rungs[cursor] \in [stableId : STRING, effort : STRING]
    BY <1>1, <2>1, RungTypes, Indexed
  <2> QED
    BY <2>1, <2>2 DEF rungOf
<1>4. /\ new \in AttemptRecord /\ new.index = cursor /\ new.disposition = NoDisposition
      /\ new.crosses = crosses /\ new.downgrade = down
  BY <1>2, <1>3 DEF Attempt, AttemptRecord
<1>5. /\ attempts \in Seq(AttemptRecord) /\ n \in Nat /\ DOMAIN attempts = 1..n
      /\ charged \in Seq(Nat) /\ Len(charged) \in Nat /\ DOMAIN charged = 1..Len(charged)
  BY Records DEF WInv, WalkTypes
<1>6. request.policy = "active" =>
        /\ charged' = Append(charged, now)
        /\ crossPending' = (crosses /\ ~ crossPending)
        /\ down = (crosses /\ crossPending)
        /\ ChargeAllowed
  BY <1>1 DEF Charge, crossPendingAfter, downgradeAttempted, Blocked
<1>7. charged' \in Seq(Nat) /\ crossPending' \in BOOLEAN
  <2>1. CASE request.policy = "off"
    BY <1>1, <2>1 DEF Charge, WInv, WalkTypes
  <2>2. CASE request.policy # "off"
    <3>1. charged' = Append(charged, now)
      BY <1>1, <2>2 DEF Charge
    <3>2. crossPending' \in BOOLEAN
      BY <1>1, <2>2 DEF Charge, crossPendingAfter
    <3> QED
      BY <1>3, <1>5, <3>1, <3>2, Appended
  <2> QED
    BY <2>1, <2>2
<1> HIDE DEF new, crosses, down
<1>8. /\ attempts' \in Seq(AttemptRecord) /\ Len(attempts') = n + 1 /\ DOMAIN attempts' = 1..(n + 1)
      /\ attempts'[n + 1] = new /\ \A k \in 1..n : attempts'[k] = attempts[k]
  BY <1>1, <1>4, <1>5, Appended
<1>9. WalkTypes'
  BY <1>1, <1>3, <1>4, <1>5, <1>7, <1>8 DEF WInv, WalkTypes
<1>10. Fresh0' /\ CursorLeads'
  <2>1. \A k \in 1..n : attempts[k].index \in Nat /\ attempts[k].index < cursor
    BY <1>1, <1>5, Records DEF WInv, CursorLeads
  <2>2. \A k \in 1..(n + 1) : attempts'[k].index <= cursor
    BY <1>3, <1>4, <1>5, <1>8, <2>1
  <2> QED
    BY <1>1, <1>4, <1>8, <2>2 DEF Fresh0, CursorLeads, Newest
<1>11. PassedWereTried'
  <2>1. \A i \in DOMAIN request.rungs :
          (i < cursor /\ Runnable(i)) => \E k \in 1..n : attempts[k].index = i
    BY <1>1, <1>5 DEF WInv, PassedWereTried
  <2>2. \A k \in 1..n : k \in DOMAIN attempts' /\ attempts'[k].index = attempts[k].index
    BY <1>5, <1>8
  <2> QED
    BY <1>1, <2>1, <2>2, RunnableKept DEF PassedWereTried
<1>12. ExhaustedMeansAllTried'
  BY <1>1 DEF ExhaustedMeansAllTried
<1>13. CASE request.policy = "active"
  <2>1. /\ Len(charged) = n /\ DOMAIN charged = 1..n
        /\ \A k \in 1..n : charged[k] \in Nat /\ charged[k] <= now
        /\ \A j, k \in 1..n : j <= k => charged[j] <= charged[k]
    <3>1. Len(attempts) = Len(charged)
      BY <1>1, <1>13 DEF WInv, Charges
    <3> QED
      BY <1>5, <1>13, <3>1, Records DEF WInv, Charges
  <2>2. /\ Len(charged') = n + 1 /\ DOMAIN charged' = 1..(n + 1)
        /\ charged'[n + 1] = now /\ \A k \in 1..n : charged'[k] = charged[k]
    <3>1. charged' = Append(charged, now)
      BY <1>6, <1>13
    <3> QED
      BY <1>3, <1>5, <2>1, <3>1, Appended
  <2>3. Charges'
    <3>0. \A k \in 1..(n + 1) : k > n => charged'[k] = now
      <4>1. \A k \in 1..(n + 1) : k > n => k = n + 1
        BY <1>5
      <4> QED
        BY <2>2, <4>1
    <3>1. \A k \in 1..(n + 1) : charged'[k] <= now
      BY <1>3, <1>5, <2>1, <2>2, <3>0, InOrderOfTime
    <3>2. \A j, k \in 1..(n + 1) : j <= k => charged'[j] <= charged'[k]
      BY <1>3, <1>5, <2>1, <2>2, <3>0, InOrderOfTime
    <3> QED
      BY <1>1, <1>8, <2>2, <3>1, <3>2, <1>5 DEF Charges
  <2>4. PendingIsLastCrossing' /\ SecondCrossingDowngraded'
    <3>1. attempts' # <<>> /\ Newest(attempts') = new
      BY <1>5, <1>8 DEF Newest
    <3>2. crossPending = (n > 0 /\ attempts[n].crosses /\ ~ attempts[n].downgrade)
      BY <1>1, <1>5, <1>13 DEF WInv, PendingIsLastCrossing, Newest
    <3>3. crossPending' = (new.crosses /\ ~ new.downgrade)
      BY <1>2, <1>4, <1>6, <1>13 DEF WInv, WalkTypes
    <3>4. PendingIsLastCrossing'
      BY <3>1, <3>3 DEF PendingIsLastCrossing
    <3>5. n > 0 => attempts[n].downgrade \in BOOLEAN /\ attempts[n].crosses \in BOOLEAN
      <4>1. n > 0 => n \in 1..n
        BY <1>5
      <4> QED
        BY <4>1, Records DEF WInv
    <3>6. (n > 0 /\ attempts[n].crosses /\ new.crosses) => attempts[n].downgrade # new.downgrade
      BY <1>2, <1>4, <1>6, <1>13, <3>2, <3>5
    <3>7. SecondCrossingDowngraded'
      <4>1. \A k \in 1..(n + 1) : k + 1 \in 1..(n + 1) => k \in 1..n /\ (k = n \/ k + 1 \in 1..n)
        BY <1>5, NextIndex
      <4>2. \A k \in 1..n : k + 1 \in 1..n =>
              ((attempts[k].crosses /\ attempts[k + 1].crosses) => attempts[k].downgrade # attempts[k + 1].downgrade)
        BY <1>5, <1>13 DEF WInv, SecondCrossingDowngraded
      <4>3. \A k \in 1..n : k + 1 \in 1..n =>
              ((attempts'[k].crosses /\ attempts'[k + 1].crosses) => attempts'[k].downgrade # attempts'[k + 1].downgrade)
        BY <1>8, <4>2
      <4>4. n \in 1..n => ((attempts'[n].crosses /\ attempts'[n + 1].crosses) => attempts'[n].downgrade # attempts'[n + 1].downgrade)
        BY <1>5, <1>8, <3>6
      <4> QED
        BY <1>8, <4>1, <4>3, <4>4 DEF SecondCrossingDowngraded
    <3> QED
      BY <3>4, <3>7
  <2>5. CappedInEveryWindow'
    <3> SUFFICES ASSUME NEW k \in 1..(n + 1), k + Cap \in 1..(n + 1)
                 PROVE  charged'[k + Cap] >= charged'[k] + Window
      BY <1>8 DEF CappedInEveryWindow
    <3>1. Cap \in Nat /\ Window \in Nat
      BY TraversalAssumption
    <3>2. Cap # 0
      <4>1. IsFiniteSet(InWindow)
        <5>1. IsFiniteSet(1..Len(charged)) /\ InWindow \subseteq 1..Len(charged)
          BY <1>5, FS_Interval DEF InWindow
        <5> QED
          BY <5>1, FS_Subset
      <4>2. Cardinality(InWindow) \in Nat
        BY <4>1, FS_CardinalityType
      <4> QED
        BY <1>6, <1>13, <4>2 DEF ChargeAllowed
    <3>3. CASE k + Cap = n + 1
      <4>1. k \in 1..n
        BY <1>5, <3>1, <3>2, <3>3
      <4>2. now >= charged[k] + Window
        BY <4>1, <3>3, <2>1, <1>6, <1>13, RoomInWindow DEF WInv
      <4> QED
        BY <2>2, <3>3, <4>1, <4>2
    <3>4. CASE k + Cap # n + 1
      <4>1. k \in 1..n /\ k + Cap \in 1..n
        BY <1>5, <3>1, <3>4
      <4>2. charged[k + Cap] >= charged[k] + Window
        BY <1>5, <1>13, <4>1 DEF WInv, CappedInEveryWindow
      <4> QED
        BY <2>2, <4>1, <4>2
    <3> QED
      BY <3>3, <3>4
  <2> QED
    BY <1>9, <1>10, <1>11, <1>12, <2>3, <2>4, <2>5 DEF WInv
<1>14. CASE request.policy # "active"
  BY <1>1, <1>9, <1>10, <1>11, <1>12, <1>14 DEF WInv, Charges, PendingIsLastCrossing, SecondCrossingDowngraded, CappedInEveryWindow
<1> QED
  BY <1>13, <1>14

LEMMA FailStep == ASSUME WInv, NEW d \in Answers, AttemptFails(d) PROVE WInv'
<1> DEFINE n == Len(attempts)
           new == [attempts[n] EXCEPT !.disposition = d]
<1>1. /\ status = "attempting" /\ attempts' = [attempts EXCEPT ![n] = new]
      /\ UNCHANGED <<registry, request, charged, crossPending, now>>
  BY DEF AttemptFails
<1>2. /\ attempts \in Seq(AttemptRecord) /\ n \in Nat /\ DOMAIN attempts = 1..n /\ n > 0
      /\ attempts[n].index = cursor /\ cursor \in Nat
  BY <1>1, Records DEF WInv, WalkTypes, CursorLeads, Newest
<1>3. attempts[n] \in AttemptRecord
  BY <1>2
<1>4. /\ new \in AttemptRecord /\ new.index = cursor /\ new.disposition = d
      /\ new.crosses = attempts[n].crosses /\ new.downgrade = attempts[n].downgrade
  BY <1>2, <1>3 DEF AttemptRecord
<1> HIDE DEF new
<1>5. /\ attempts' \in Seq(AttemptRecord) /\ Len(attempts') = n /\ DOMAIN attempts' = 1..n
      /\ attempts'[n] = new /\ \A k \in 1..n : k # n => attempts'[k] = attempts[k]
  BY <1>1, <1>2, <1>4, LastReplaced
<1>6. \A k \in 1..n : /\ attempts'[k].index = attempts[k].index
                      /\ attempts'[k].crosses = attempts[k].crosses
                      /\ attempts'[k].downgrade = attempts[k].downgrade
  BY <1>2, <1>4, <1>5
<1>7. \/ status' = "walking" /\ cursor' = cursor + 1 /\ d.kind = "retryable"
      \/ status' = "terminal" /\ cursor' = cursor
  BY DEF AttemptFails, Finish, advances, isRetryableDisposition
<1>8. WalkTypes'
  <2>1. \A k \in DOMAIN attempts' : attempts'[k].index \in DOMAIN request'.rungs
    BY <1>1, <1>2, <1>5, <1>6 DEF WInv, WalkTypes
  <2>2. cursor' \in Nat /\ status' \in {"walking", "terminal"}
    BY <1>2, <1>7
  <2> QED
    BY <1>1, <1>5, <2>1, <2>2 DEF WInv, WalkTypes, FinalStatuses
<1>9. Fresh0' /\ ExhaustedMeansAllTried'
  BY <1>7 DEF Fresh0, ExhaustedMeansAllTried
<1>10. CursorLeads'
  <2>1. \A k \in 1..n : attempts[k].index \in Nat /\ attempts[k].index <= cursor
    BY <1>1, <1>2, Records DEF WInv, CursorLeads
  <2>2. CASE status' = "walking"
    <3>1. cursor' = cursor + 1 /\ d.kind = "retryable"
      BY <1>7, <2>2
    <3>2. \A k \in 1..n : attempts'[k].index < cursor'
      BY <1>2, <1>6, <2>1, <3>1
    <3>3. Newest(attempts').disposition.kind = "retryable"
      BY <1>4, <1>5, <3>1 DEF Newest
    <3> QED
      BY <1>5, <2>2, <3>2, <3>3 DEF CursorLeads
  <2>3. CASE status' = "terminal"
    BY <2>3 DEF CursorLeads
  <2> QED
    BY <1>7, <2>2, <2>3
<1>11. PassedWereTried'
  <2>1. \A i \in DOMAIN request.rungs :
          ((i < cursor \/ i = cursor) /\ Runnable(i)) => \E k \in 1..n : attempts[k].index = i
    BY <1>1, <1>2 DEF WInv, PassedWereTried
  <2>2. \A i \in DOMAIN request.rungs : i < cursor' => i < cursor \/ i = cursor
    BY <1>2, <1>7, RungTypes DEF WInv
  <2> QED
    BY <1>1, <1>5, <1>6, <2>1, <2>2, RunnableKept DEF PassedWereTried
<1>12. Charges'
  BY <1>1, <1>5 DEF WInv, Charges
<1>13. attempts # <<>> /\ attempts' # <<>>
  <2>1. n \in Nat /\ n > 0
    BY <1>2
  <2>2. Len(attempts') = n /\ attempts' \in Seq(AttemptRecord) /\ attempts \in Seq(AttemptRecord)
    BY <1>2, <1>5
  <2>3. n # 0
    BY <2>1
  <2> QED
    BY <2>2, <2>3, Indexed
<1>14. PendingIsLastCrossing'
  <2> SUFFICES ASSUME request.policy = "active"
               PROVE  crossPending = (attempts' # <<>> /\ Newest(attempts').crosses /\ ~ Newest(attempts').downgrade)
    BY <1>1 DEF PendingIsLastCrossing
  <2>1. crossPending = (attempts # <<>> /\ attempts[n].crosses /\ ~ attempts[n].downgrade)
    BY <1>1 DEF WInv, PendingIsLastCrossing, Newest
  <2>2. attempts # <<>> /\ attempts' # <<>>
    BY <1>13
  <2>3. Newest(attempts').crosses = attempts[n].crosses /\ Newest(attempts').downgrade = attempts[n].downgrade
    BY <1>4, <1>5 DEF Newest
  <2> QED
    BY <2>1, <2>2, <2>3
<1>15. CappedInEveryWindow'
  BY <1>1, <1>2, <1>5 DEF WInv, CappedInEveryWindow
<1>16. SecondCrossingDowngraded'
  <2>1. request.policy = "active" => \A k \in 1..n : (k + 1 \in 1..n /\ attempts[k].crosses /\ attempts[k + 1].crosses)
          => attempts[k].downgrade # attempts[k + 1].downgrade
    BY <1>2 DEF WInv, SecondCrossingDowngraded
  <2>2. request.policy = "active" => \A k \in 1..n : (k + 1 \in 1..n /\ attempts'[k].crosses /\ attempts'[k + 1].crosses)
          => attempts'[k].downgrade # attempts'[k + 1].downgrade
    BY <1>6, <2>1
  <2> QED
    BY <1>1, <1>5, <2>2 DEF SecondCrossingDowngraded
<1> QED
  BY <1>8, <1>9, <1>10, <1>11, <1>12, <1>14, <1>15, <1>16 DEF WInv

LEMMA TickStep == ASSUME WInv, Tick PROVE WInv'
<1>1. /\ now \in Nat /\ now' = now + 1 /\ now + 1 \in Nat /\ status \in {"walking", "attempting"}
      /\ UNCHANGED <<registry, request, cursor, attempts, charged, crossPending, status>>
  BY DEF Tick, WInv, WalkTypes
<1>2. WalkTypes' /\ Fresh0' /\ CursorLeads' /\ PendingIsLastCrossing'
  BY <1>1 DEF WInv, WalkTypes, Fresh0, CursorLeads, PendingIsLastCrossing
<1>3. PassedWereTried' /\ ExhaustedMeansAllTried'
  BY <1>1, RunnableKept DEF WInv, PassedWereTried, ExhaustedMeansAllTried
<1>4. Charges'
  <2>1. \A k \in DOMAIN charged : charged[k] \in Nat
    BY DEF WInv, WalkTypes
  <2> QED
    BY <1>1, <2>1 DEF WInv, Charges
<1>5. CappedInEveryWindow' /\ SecondCrossingDowngraded'
  BY <1>1 DEF WInv, CappedInEveryWindow, SecondCrossingDowngraded
<1> QED
  BY <1>2, <1>3, <1>4, <1>5 DEF WInv

LEMMA StutterStep == ASSUME WInv, UNCHANGED walkVars PROVE WInv'
<1>1. UNCHANGED <<registry, request, cursor, attempts, charged, crossPending, status, now>>
  BY DEF walkVars
<1>2. PassedWereTried' /\ ExhaustedMeansAllTried'
  BY <1>1, RunnableKept DEF WInv, PassedWereTried, ExhaustedMeansAllTried
<1> QED
  BY <1>1, <1>2 DEF WInv, WalkTypes, Fresh0, CursorLeads, Charges, PendingIsLastCrossing,
                    CappedInEveryWindow, SecondCrossingDowngraded

LEMMA NextWInv == WInv /\ [Next]_walkVars => WInv'
<1> SUFFICES ASSUME WInv, [Next]_walkVars PROVE WInv'
  OBVIOUS
<1>1. CASE \E q \in Requests : Begin(q)
  BY <1>1, BeginStep
<1>2. CASE Steps
  BY <1>2, SkipStep, EndsStep, StartStep, ExhaustStep DEF Steps
<1>3. CASE Answer
  BY <1>3, EndsStep, FailStep DEF Answer
<1>4. CASE Tick
  BY <1>4, TickStep
<1>5. CASE UNCHANGED walkVars
  BY <1>5, StutterStep
<1> QED
  BY <1>1, <1>2, <1>3, <1>4, <1>5 DEF Next

LEMMA Invariance == Spec => []WInv
<1>1. Init => WInv
  BY InitWInv
<1>2. WInv /\ [Next]_walkVars => WInv'
  BY NextWInv
<1> QED
  BY <1>1, <1>2, PTL DEF Spec

\* For any stack and any answers (runFallbackTraversal, LabelRetryBudget.charge): no window
\* of an active retry budget holds more than its cap, of two crossings in a row one is
\* downgraded, and a stack is called exhausted only when all that may run of it has been tried.
THEOREM WalkInvariantHolds == Spec => []WalkInvariant
<1>1. WInv => WalkInvariant
  BY TypesImply DEF WInv, WalkInvariant
<1> QED
  BY <1>1, Invariance, PTL

(* The refinement. *)

LEMMA InitRefines == Init => Ordered!Init
BY DEF Init, Ordered!Init, lastTried, walkPhase, lastFailure, Null

LEMMA StepRefines == WInv /\ WInv' /\ [Next]_walkVars => [Ordered!Next]_Ordered!orderVars
<1> SUFFICES ASSUME WInv, WInv', [Next]_walkVars PROVE [Ordered!Next]_Ordered!orderVars
  OBVIOUS
<1> USE DEF Ordered!orderVars, Null
<1>1. CASE UNCHANGED <<attempts, status>>
  BY <1>1 DEF lastTried, walkPhase, lastFailure
<1>2. ASSUME UNCHANGED attempts, status \in {"idle", "walking"}, status' \in {"terminal", "stack-exhausted", "budget-exhausted"}
      PROVE  Ordered!Stop
  BY <1>2 DEF Ordered!Stop, lastTried, walkPhase, lastFailure
<1>3. ASSUME NEW q \in Requests, Begin(q) PROVE [Ordered!Next]_Ordered!orderVars
  <2>1. status = "idle" /\ UNCHANGED attempts /\ status' \in {"terminal", "walking"}
    BY <1>3 DEF Begin, Finish
  <2>2. CASE status' = "terminal"
    BY <1>2, <2>1, <2>2 DEF Ordered!Next
  <2>3. CASE status' = "walking"
    BY <2>1, <2>3 DEF lastTried, walkPhase, lastFailure
  <2> QED
    BY <2>1, <2>2, <2>3
<1>4. CASE SkipNonRunnable \/ Tick
  BY <1>1, <1>4 DEF SkipNonRunnable, Tick
<1>5. CASE RefuseIncompatible \/ StopAtMaxAttempts \/ BlockedByRetryBudget \/ Exhaust
  <2>1. status = "walking" /\ UNCHANGED attempts /\ status' \in {"terminal", "stack-exhausted", "budget-exhausted"}
    BY <1>5 DEF RefuseIncompatible, StopAtMaxAttempts, BlockedByRetryBudget, Exhaust, Finish, At
  <2> QED
    BY <1>2, <2>1 DEF Ordered!Next
<1>6. CASE StartAttempt
  <2>1. status = "walking" /\ status' = "attempting" /\ cursor' = cursor /\ cursor \in Nat
    BY <1>6 DEF StartAttempt, At, WInv, WalkTypes
  <2>2. attempts' # <<>> /\ Newest(attempts').index = cursor
    BY <2>1 DEF WInv, CursorLeads
  <2>3. lastTried' = cursor /\ lastFailure' = "null" /\ walkPhase' = "trying"
    BY <2>1, <2>2 DEF lastTried, lastFailure, walkPhase, Newest
  <2>4. lastTried < cursor
    <3>1. CASE attempts = <<>>
      <4>1. cursor \in DOMAIN request.rungs
        BY <1>6 DEF StartAttempt, At
      <4> QED
        BY <3>1, <4>1, RungTypes DEF WInv, lastTried
    <3>2. CASE attempts # <<>>
      <4>1. Len(attempts) \in DOMAIN attempts
        BY <3>2 DEF WInv, WalkTypes
      <4> QED
        BY <2>1, <3>2, <4>1 DEF WInv, CursorLeads, lastTried
    <3> QED
      BY <3>1, <3>2
  <2>5. walkPhase = "open"
    BY <2>1 DEF walkPhase
  <2> QED
    BY <2>1, <2>3, <2>4, <2>5 DEF Ordered!Next, Ordered!Try
<1>7. CASE AttemptSucceeds
  BY <1>7 DEF AttemptSucceeds, Finish, Ordered!Next, Ordered!Succeed, lastTried, walkPhase, lastFailure
<1>8. ASSUME NEW d \in Answers, AttemptFails(d) PROVE Ordered!Fail
  <2> DEFINE n == Len(attempts)
  <2>1. /\ status = "attempting" /\ attempts \in Seq(AttemptRecord) /\ attempts # <<>>
        /\ n \in 1..n /\ DOMAIN attempts = 1..n
        /\ attempts' = [attempts EXCEPT ![n] = [attempts[n] EXCEPT !.disposition = d]]
    BY <1>8 DEF AttemptFails, WInv, WalkTypes, CursorLeads
  <2>2. attempts[n] \in AttemptRecord
    BY <2>1
  <2>3. /\ Len(attempts') = n /\ attempts' # <<>>
        /\ attempts'[n].index = attempts[n].index /\ attempts'[n].disposition = d
    BY <2>1, <2>2 DEF AttemptRecord
  <2>4. status' = IF d.kind = "retryable" THEN "walking" ELSE "terminal"
    BY <1>8 DEF AttemptFails, Finish, advances, isRetryableDisposition
  <2>5. d.kind \in {"retryable", "terminal", "terminal-unclassified", "terminal-completed-low-quality"}
    BY TraversalAssumption DEF Dispositions, Disposition, Unclassified, CompletedLowQuality
  <2>6. UNCHANGED lastTried
    BY <2>1, <2>3 DEF lastTried
  <2>7. lastFailure' = d.kind /\ walkPhase = "trying" /\ walkPhase' = IF d.kind = "retryable" THEN "open" ELSE "stopped"
    BY <2>1, <2>3, <2>4 DEF lastFailure, walkPhase
  <2> QED
    BY <2>5, <2>6, <2>7 DEF Ordered!Fail
<1>9. CASE UNCHANGED walkVars
  BY <1>1, <1>9 DEF walkVars
<1> QED
  BY <1>3, <1>4, <1>5, <1>6, <1>7, <1>8, <1>9 DEF Next, Steps, Answer, Ordered!Next

\* Every walk over every stack is an ordered walk: rungs in order, none twice, the next one
\* only after a retryable failure (runFallbackTraversal).
THEOREM ImplementsOrderedWalkHolds == Spec => ImplementsOrderedWalk
<1>1. Init => Ordered!Init
  BY InitRefines
<1>2. WInv /\ WInv' /\ [Next]_walkVars => [Ordered!Next]_Ordered!orderVars
  BY StepRefines
<1> QED
  BY <1>1, <1>2, Invariance, PTL DEF Spec, ImplementsOrderedWalk, Ordered!Spec

(* Validation covers what the walk refuses. *)

\* The walk has met something it refuses: a rung twice or one that does not fit.
Refusable ==
  duplicateRung(request.rungs) \/ \E i \in DOMAIN request.rungs : Incompatible(i)

ValidInv ==
  /\ registry \in Seq(Elements(registry))
  /\ request \in Requests \cup {NoRequest}
  /\ status # "idle" => request \in Requests
  /\ status \in {"idle", "walking", "attempting"} => ended = Running
  /\ ended.incompatible => status = "terminal" /\ Refusable

\* A known id has a last entry.
LEMMA KnownEntry ==
  ASSUME NEW S, NEW r \in Seq(S), NEW id, Known(r, id)
  PROVE  /\ registryIndex(r, id) \in Elements(r)
         /\ registryIndex(r, id).stableId = id
<1> DEFINE Named == {i \in DOMAIN r : r[i].stableId = id}
           ToEnd == {Len(r) - i : i \in Named}
<1>1. /\ Len(r) \in Nat /\ DOMAIN r = 1..Len(r)
      /\ Named \subseteq 1..Len(r) /\ Named # {}
  BY DEF Known
<1>2. ToEnd \subseteq Nat /\ ToEnd # {}
  BY <1>1
<1>3. PICK d \in ToEnd : \A e \in ToEnd : ~ (<<e, d>> \in OpToRel(<, Nat))
  <2> HIDE DEF ToEnd
  <2> QED
    BY <1>2, NatLessThanWellFounded, WFMin
<1>4. PICK i \in Named : d = Len(r) - i
  BY <1>3
<1>5. ASSUME NEW j \in DOMAIN r, r[j].stableId = id PROVE j <= i
  <2>1. j \in Named /\ Len(r) - j \in ToEnd
    BY <1>5
  <2>2. ~ (Len(r) - j < Len(r) - i)
    BY <1>2, <1>3, <1>4, <2>1 DEF OpToRel
  <2>3. Len(r) \in Int /\ i \in Int /\ j \in Int
    BY <1>1, <2>1
  <2> HIDE DEF Named, ToEnd
  <2> QED
    BY <2>2, <2>3
<1> DEFINE IsLast(k) == r[k].stableId = id /\ \A j \in DOMAIN r : r[j].stableId = id => j <= k
<1>6. \E k \in DOMAIN r : IsLast(k)
  BY <1>4, <1>5
<1>7. (CHOOSE k \in DOMAIN r : IsLast(k)) \in DOMAIN r /\ IsLast(CHOOSE k \in DOMAIN r : IsLast(k))
  BY <1>6
<1> QED
  BY <1>7 DEF registryIndex, Elements

\* A rung that does not fit its route breaks a rule of the validator.
LEMMA RefusedIsInvalid ==
  ASSUME registry \in Seq(Elements(registry)), request \in Requests, Refusable
  PROVE  validateModelRegistry(registry,
           {CandidateStack(request.route, Null, NoClass, request.rungs, TRUE)}) # {}
<1> DEFINE stack == CandidateStack(request.route, Null, NoClass, request.rungs, TRUE)
<1>1. stack.route = request.route /\ stack.rungs = request.rungs /\ request.route \in RouteIds
  BY TraversalAssumption DEF CandidateStack
<1>2. SUFFICES ASSUME validateModelRegistry(registry, {stack}) = {} PROVE FALSE
  OBVIOUS
<1> HIDE DEF stack
<1>3. StackErrors(registry, stack) = {} /\ \A e \in Elements(registry) : EntryErrors(e) = {}
  BY <1>2 DEF validateModelRegistry
<1>4. ~ duplicateRung(request.rungs)
  BY <1>1, <1>3 DEF StackErrors, duplicateRung
<1>5. PICK i \in DOMAIN request.rungs : Incompatible(i)
  BY <1>4 DEF Refusable
<1> DEFINE rung == rungOf(i)
           entry == registryIndex(registry, rung.stableId)
<1>6. RungErrors(registry, stack, rung) = {}
  <2>1. rung \in Elements(stack.rungs)
    BY <1>1, <1>5 DEF rungOf, Elements
  <2> QED
    BY <1>3, <2>1 DEF StackErrors
<1> HIDE DEF rung
<1>7. Known(registry, rung.stableId) /\ stack.route \in entry.routeEligibility
  BY <1>6 DEF RungErrors
<1>8. entry \in Elements(registry)
  BY <1>7, KnownEntry
<1>9. ClaimErrors(entry) = {}
  BY <1>3, <1>8 DEF EntryErrors
<1>10. /\ Contract.sandbox \in entry.sandboxPermissionSupport
       /\ Contract.outputContract \in entry.outputContracts
  <2>1. stack.route \in entry.routeEligibility \cap RouteIds
    BY <1>1, <1>7
  <2> QED
    BY <1>1, <1>9, <2>1 DEF ClaimErrors, Contract
<1>11. isSandboxCompatible(Contract.sandbox, entry.sandboxPermissionSupport)
  BY <1>10 DEF isSandboxCompatible
<1> QED
  BY <1>5, <1>7, <1>10, <1>11 DEF Incompatible, entryOf, rung

LEMMA RefusableKept ==
  ASSUME UNCHANGED <<registry, request>> PROVE Refusable' <=> Refusable
<1>1. \A i : Incompatible(i)' <=> Incompatible(i)
  BY DEF NonRunnable, Incompatible, rungOf, entryOf, Contract
<1> QED
  BY <1>1 DEF Refusable

LEMMA ValidStep == ValidInv /\ [Next]_walkVars => ValidInv'
<1> SUFFICES ASSUME ValidInv, [Next]_walkVars PROVE ValidInv'
  OBVIOUS
<1>1. \A o, d : End(o, d).incompatible = d
  BY DEF End
<1>2. ASSUME NEW q \in Requests, Begin(q) PROVE ValidInv'
  <2>1. registry' = registry /\ request' = q /\ status = "idle" /\ ~ ended.incompatible
    BY <1>1, <1>2 DEF Begin, ValidInv, Running
  <2>2. CASE duplicateRung(q.rungs)
    BY <1>2, <2>1, <2>2 DEF Begin, Finish, ValidInv, Refusable
  <2>3. CASE ~ duplicateRung(q.rungs)
    <3>1. status' = "walking" /\ ended' = ended
      BY <1>2, <2>3 DEF Begin
    <3> QED
      BY <2>1, <3>1 DEF ValidInv
  <2> QED
    BY <2>2, <2>3
<1>3. ASSUME UNCHANGED <<registry, request>>, status \in {"walking", "attempting"},
             \/ status' \in {"walking", "attempting"} /\ UNCHANGED ended
             \/ \E o, d : Finish(o, d, FALSE) /\ o \in FinalStatuses
      PROVE  ValidInv'
  <2>1. registry' \in Seq(Elements(registry')) /\ request' \in Requests
    BY <1>3 DEF ValidInv
  <2>2. status' \in {"idle", "walking", "attempting"} => ended' = Running
    BY <1>3 DEF ValidInv, Finish, FinalStatuses
  <2>3. ~ ended'.incompatible
    BY <1>1, <1>3 DEF ValidInv, Finish, Running
  <2> QED
    BY <2>1, <2>2, <2>3 DEF ValidInv
<1>4. CASE RefuseIncompatible
  <2>1. /\ UNCHANGED <<registry, request>> /\ status = "walking" /\ status' = "terminal"
        /\ cursor \in DOMAIN request.rungs /\ Incompatible(cursor)
    BY <1>4 DEF RefuseIncompatible, At, Finish
  <2>2. Refusable'
    BY <2>1, RefusableKept DEF Refusable
  <2>3. request' \in Requests /\ registry' \in Seq(Elements(registry'))
    BY <2>1 DEF ValidInv
  <2> QED
    BY <2>1, <2>2, <2>3 DEF ValidInv
<1>5. CASE SkipNonRunnable \/ StopAtMaxAttempts \/ BlockedByRetryBudget \/ StartAttempt \/ Exhaust
  <2>1. CASE SkipNonRunnable \/ StartAttempt
    BY <1>3, <2>1 DEF SkipNonRunnable, StartAttempt, At
  <2>2. CASE StopAtMaxAttempts \/ BlockedByRetryBudget \/ Exhaust
    BY <1>3, <2>2 DEF StopAtMaxAttempts, BlockedByRetryBudget, Exhaust, At, FinalStatuses
  <2> QED
    BY <1>5, <2>1, <2>2
<1>6. CASE AttemptSucceeds
  BY <1>3, <1>6 DEF AttemptSucceeds, FinalStatuses
<1>7. ASSUME NEW d \in Answers, AttemptFails(d) PROVE ValidInv'
  BY <1>3, <1>7 DEF AttemptFails, FinalStatuses
<1>8. CASE Tick
  BY <1>3, <1>8 DEF Tick
<1>9. CASE UNCHANGED walkVars
  <2>1. UNCHANGED <<registry, request, status, ended>>
    BY <1>9 DEF walkVars
  <2> QED
    BY <2>1, RefusableKept DEF ValidInv
<1> QED
  BY <1>2, <1>4, <1>5, <1>6, <1>7, <1>8, <1>9 DEF Next, Steps, Answer

LEMMA ValidInit == Init => ValidInv
<1> SUFFICES ASSUME Init PROVE ValidInv
  OBVIOUS
<1>1. ended = Running /\ ~ ended.incompatible /\ status = "idle" /\ request = NoRequest
  BY DEF Init, Running, End
<1>2. registry \in Seq(Elements(registry))
  BY TraversalAssumption DEF Init
<1> QED
  BY <1>1, <1>2 DEF ValidInv

\* A stack that the registry's validator lets through is never refused half way, whatever
\* models, sandboxes and output contracts it puts in which order (runFallbackTraversal).
THEOREM ValidatedNeverRefusedHolds == Spec => []ValidatedNeverRefused
<1>1. ValidInv => ValidatedNeverRefused
  <2> SUFFICES ASSUME ValidInv, ended.incompatible PROVE ValidatedNeverRefused
    BY DEF ValidatedNeverRefused
  <2>1. Refusable /\ request \in Requests /\ registry \in Seq(Elements(registry))
    BY DEF ValidInv
  <2> QED
    BY <2>1, RefusedIsInvalid DEF ValidatedNeverRefused
<1> QED
  BY <1>1, ValidInit, ValidStep, PTL DEF Spec
==============================================================================
