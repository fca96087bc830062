--------------------- MODULE DelegationScheduler_proofs ---------------------
(***************************************************************************)
(* Proofs about DelegationScheduler for every set of tasks, every limit    *)
(* and every ledger vector.  The inductive invariant IndInv adds to the    *)
(* slot, reservation, ownership and cancellation invariants the fact they  *)
(* all need: under the caller's discipline RootsStayRoots the node of a    *)
(* root never hangs under another root, so cancelRoot ends exactly the     *)
(* dispatches counted under that root.  The ledgers and the tree come last:*)
(* the ledgers with no assumption on the caller, the tree where a task has *)
(* one parent for good.  First, what the operations of one ledger keep:    *)
(* the sums over reservations are folds over finite sets, their laws are   *)
(* proved by a smallest counterexample (WFMin), collected in a set.        *)
(***************************************************************************)
EXTENDS DelegationScheduler, FiniteSetTheorems, WellFoundedInduction, NaturalsInduction, TLAPS

(* Sums over finite sets. *)

\* Good holds all subsets of S if it holds each whose proper subsets it holds.
LEMMA SubsetInduction ==
  ASSUME NEW S, IsFiniteSet(S), NEW Good,
         \A A \in SUBSET S : (\A B \in SUBSET A : B # A => B \in Good) => A \in Good
  PROVE  \A A \in SUBSET S : A \in Good
<1> DEFINE Bad == {A \in SUBSET S : A \notin Good}
<1>1. IsWellFoundedOn(StrictSubsetOrdering(S), SUBSET S)
  BY FS_StrictSubsetOrderingWellFounded, FS_FiniteSubsetsOfFinite
<1>2. SUFFICES ASSUME Bad # {} PROVE FALSE
  OBVIOUS
<1>3. PICK A \in Bad : \A B \in Bad : ~ (<<B, A>> \in StrictSubsetOrdering(S))
  <2> HIDE DEF Bad
  <2>1. Bad \subseteq SUBSET S
    BY DEF Bad
  <2> QED
    BY <1>1, <1>2, <2>1, WFMin
<1>4. \A B \in SUBSET A : B # A => B \in Good
  BY <1>3 DEF StrictSubsetOrdering
<1> QED
  BY <1>3, <1>4

\* Good holds all subsets of S if it holds the empty one and grows by elements.
LEMMA ElementInduction ==
  ASSUME NEW S, IsFiniteSet(S), NEW Good, {} \in Good,
         \A A \in SUBSET S : A \in Good => \A x \in S \ A : A \cup {x} \in Good
  PROVE  \A A \in SUBSET S : A \in Good
<1>1. ASSUME NEW A \in SUBSET S, \A B \in SUBSET A : B # A => B \in Good PROVE A \in Good
  <2>1. CASE A = {}
    BY <2>1
  <2>2. CASE A # {}
    <3>1. PICK x \in A : TRUE
      BY <2>2
    <3>2. A \ {x} \in Good /\ x \in S \ (A \ {x}) /\ (A \ {x}) \cup {x} = A /\ A \ {x} \in SUBSET S
      BY <1>1, <3>1
    <3> QED
      BY <3>2
  <2> QED
    BY <2>1, <2>2
<1> QED
  BY <1>1, SubsetInduction

\* The element a fold takes next, and the partial sums over the subsets of S.
Pick(s) == CHOOSE x \in s : TRUE
Sums(f, S) == [s \in SUBSET S |-> IF s = {} THEN 0 ELSE f[Pick(s)] + SumFunctionOnSet(f, s \ {Pick(s)})]

\* The fold is the value at S of some function with the recursive equation, if there is one.
LEMMA FixedPoint ==
  ASSUME NEW f, NEW S,
         NEW h, h = [s \in SUBSET S |-> IF s = {} THEN 0 ELSE f[Pick(s)] + h[s \ {Pick(s)}]]
  PROVE  \E sum : /\ sum = [s \in SUBSET S |-> IF s = {} THEN 0 ELSE f[Pick(s)] + sum[s \ {Pick(s)}]]
                  /\ SumFunctionOnSet(f, S) = sum[S]
BY DEF SumFunctionOnSet, FoldFunctionOnSet, MapThenFoldSet, Pick

\* There is one, and only one: a sum is its first term and the sum of the rest.
LEMMA Unfolds ==
  ASSUME NEW f, NEW S, IsFiniteSet(S)
  PROVE  SumFunctionOnSet(f, S) = Sums(f, S)[S]
<1> DEFINE Good == {A \in SUBSET S : SumFunctionOnSet(f, A) = Sums(f, A)[A]}
<1>1. ASSUME NEW A \in SUBSET S, \A B \in SUBSET A : B # A => B \in Good PROVE A \in Good
  <2> DEFINE h == Sums(f, A)
  <2>1. \A s \in SUBSET A : s # {} => Pick(s) \in s /\ s \ {Pick(s)} \in SUBSET A /\ s \ {Pick(s)} # A
    BY DEF Pick
  <2>2. \A s \in SUBSET A : s # {} => SumFunctionOnSet(f, s \ {Pick(s)}) = h[s \ {Pick(s)}]
    <3> TAKE s \in SUBSET A
    <3> HAVE s # {}
    <3> DEFINE r == s \ {Pick(s)}
    <3>1. r \in SUBSET A /\ r # A
      BY <2>1
    <3>2. r \in Good
      BY <1>1, <3>1
    <3>3. Sums(f, r)[r] = Sums(f, A)[r]
      BY <3>1 DEF Sums
    <3> QED
      BY <3>2, <3>3
  <2>3. h = [s \in SUBSET A |-> IF s = {} THEN 0 ELSE f[Pick(s)] + h[s \ {Pick(s)}]]
    BY <2>2 DEF Sums
  <2>4. PICK sum : /\ sum = [s \in SUBSET A |-> IF s = {} THEN 0 ELSE f[Pick(s)] + sum[s \ {Pick(s)}]]
                   /\ SumFunctionOnSet(f, A) = sum[A]
    <3> HIDE DEF h
    <3> QED
      BY <2>3, FixedPoint
  <2> HIDE DEF h
  <2> DEFINE Same == {s \in SUBSET A : sum[s] = h[s]}
  <2>5. ASSUME NEW s \in SUBSET A, \A r \in SUBSET s : r # s => r \in Same PROVE s \in Same
    <3>1. CASE s = {}
      BY <2>3, <2>4, <3>1
    <3>2. CASE s # {}
      <4>1. s \ {Pick(s)} \in Same
        BY <2>1, <2>5, <3>2
      <4>2. sum[s] = f[Pick(s)] + sum[s \ {Pick(s)}] /\ h[s] = f[Pick(s)] + h[s \ {Pick(s)}]
        BY <2>3, <2>4, <3>2
      <4> QED
        BY <4>1, <4>2
    <3> QED
      BY <3>1, <3>2
  <2>6. IsFiniteSet(A)
    BY FS_Subset
  <2>7. A \in Same
    <3> HIDE DEF Same
    <3> QED
      BY <2>5, <2>6, SubsetInduction
  <2> QED
    BY <2>4, <2>7 DEF h
<1>2. S \in Good
  <2> HIDE DEF Good
  <2> QED
    BY <1>1, SubsetInduction
<1> QED
  BY <1>2

LEMMA SumOfNone == ASSUME NEW f PROVE SumFunctionOnSet(f, {}) = 0
<1>1. IsFiniteSet({})
  BY FS_EmptySet
<1> QED
  BY <1>1, Unfolds DEF Sums

LEMMA SumOfPicked ==
  ASSUME NEW f, NEW S, IsFiniteSet(S), S # {}
  PROVE  /\ Pick(S) \in S
        
         /\ SumFunctionOnSet(f, S) = f[Pick(S)] + SumFunctionOnSet(f, S \ {Pick(S)})
BY Unfolds DEF Sums, Pick

LEMMA SumType ==
  ASSUME NEW S, IsFiniteSet(S), NEW f, NEW T \in {Nat, Int}, \A x \in S : f[x] \in T
  PROVE  SumFunctionOnSet(f, S) \in T
<1> DEFINE Good == {A \in SUBSET S : SumFunctionOnSet(f, A) \in T}
<1>1. ASSUME NEW A \in SUBSET S, \A B \in SUBSET A : B # A => B \in Good PROVE A \in Good
  <2>1. CASE A = {}
    BY <2>1, SumOfNone
  <2>2. CASE A # {}
    <3>1. IsFiniteSet(A)
      BY FS_Subset
    <3>2. Pick(A) \in A /\ SumFunctionOnSet(f, A) = f[Pick(A)] + SumFunctionOnSet(f, A \ {Pick(A)})
      BY <2>2, <3>1, SumOfPicked
    <3>3. SumFunctionOnSet(f, A \ {Pick(A)}) \in T
      BY <1>1, <3>2
    <3>4. f[Pick(A)] \in T
      BY <3>2
    <3>5. f[Pick(A)] + SumFunctionOnSet(f, A \ {Pick(A)}) \in T
      BY <3>3, <3>4
    <3> QED
      BY <3>2, <3>5
  <2> QED
    BY <2>1, <2>2
<1>2. S \in Good
  <2> HIDE DEF Good
  <2> QED
    BY <1>1, SubsetInduction
<1> QED
  BY <1>2

\* The sum does not depend on the order of its terms.
LEMMA SumRemove ==
  ASSUME NEW S, IsFiniteSet(S), NEW f, \A x \in S : f[x] \in Int, NEW t \in S
  PROVE  SumFunctionOnSet(f, S) = f[t] + SumFunctionOnSet(f, S \ {t})
<1> DEFINE Good == {A \in SUBSET S : \A x \in A : SumFunctionOnSet(f, A) = f[x] + SumFunctionOnSet(f, A \ {x})}
<1>1. ASSUME NEW A \in SUBSET S, \A B \in SUBSET A : B # A => B \in Good PROVE A \in Good
  <2> SUFFICES ASSUME NEW x \in A PROVE SumFunctionOnSet(f, A) = f[x] + SumFunctionOnSet(f, A \ {x})
    OBVIOUS
  <2> DEFINE p == Pick(A)
  <2>1. \A B \in SUBSET A : IsFiniteSet(B)
    BY FS_Subset
  <2>2. p \in A /\ SumFunctionOnSet(f, A) = f[p] + SumFunctionOnSet(f, A \ {p})
    BY <2>1, SumOfPicked
  <2> HIDE DEF p
  <2>3. CASE x = p
    BY <2>2, <2>3
  <2>4. CASE x # p
    <3>1. A \ {p} \in Good /\ A \ {x} \in Good /\ x \in A \ {p} /\ p \in A \ {x}
      <4>1. A \ {p} \in SUBSET A /\ A \ {p} # A /\ A \ {x} \in SUBSET A /\ A \ {x} # A
        BY <2>2, <2>4
      <4> HIDE DEF Good
      <4> QED
        BY <1>1, <2>2, <2>4, <4>1
    <3>2. SumFunctionOnSet(f, A \ {p}) = f[x] + SumFunctionOnSet(f, (A \ {p}) \ {x})
      BY <3>1
    <3>3. SumFunctionOnSet(f, A \ {x}) = f[p] + SumFunctionOnSet(f, (A \ {x}) \ {p})
      BY <3>1
    <3>4. (A \ {x}) \ {p} = (A \ {p}) \ {x}
      OBVIOUS
    <3>5. SumFunctionOnSet(f, (A \ {p}) \ {x}) \in Int
      <4>1. IsFiniteSet((A \ {p}) \ {x}) /\ \A y \in (A \ {p}) \ {x} : f[y] \in Int
        BY <2>1
      <4> QED
        BY <4>1, SumType
    <3>6. f[x] \in Int /\ f[p] \in Int
      BY <2>2
    <3> DEFINE rest == SumFunctionOnSet(f, (A \ {p}) \ {x})
               here == f[x]
               there == f[p]
    <3>7. /\ SumFunctionOnSet(f, A) = there + (here + rest)
          /\ SumFunctionOnSet(f, A \ {x}) = there + rest
          /\ here \in Int /\ there \in Int /\ rest \in Int
      BY <2>2, <3>2, <3>3, <3>4, <3>5, <3>6
    <3> HIDE DEF rest, here, there, Good
    <3>8. there + (here + rest) = here + (there + rest)
      BY <3>7
    <3>9. SumFunctionOnSet(f, A) = here + SumFunctionOnSet(f, A \ {x})
      BY <3>7, <3>8
    <3> QED
      BY <3>9 DEF here
  <2> QED
    BY <2>3, <2>4
<1>2. S \in Good
  <2> HIDE DEF Good
  <2> QED
    BY <1>1, SubsetInduction
<1> QED
  BY <1>2

LEMMA SumAdd ==
  ASSUME NEW S, IsFiniteSet(S), NEW t, t \notin S, NEW f, \A x \in S \cup {t} : f[x] \in Int
  PROVE  SumFunctionOnSet(f, S \cup {t}) = f[t] + SumFunctionOnSet(f, S)
<1>1. IsFiniteSet(S \cup {t}) /\ t \in S \cup {t} /\ (S \cup {t}) \ {t} = S
  BY FS_AddElement
<1> DEFINE T == S \cup {t}
<1>2. IsFiniteSet(T) /\ t \in T /\ T \ {t} = S /\ \A x \in T : f[x] \in Int
  BY <1>1
<1> HIDE DEF T
<1>3. SumFunctionOnSet(f, T) = f[t] + SumFunctionOnSet(f, T \ {t})
  BY <1>2, SumRemove
<1> QED
  BY <1>2, <1>3 DEF T

LEMMA SumSame ==
  ASSUME NEW S, IsFiniteSet(S), NEW f, NEW g, \A x \in S : f[x] = g[x]
  PROVE  SumFunctionOnSet(f, S) = SumFunctionOnSet(g, S)
<1> DEFINE Good == {A \in SUBSET S : SumFunctionOnSet(f, A) = SumFunctionOnSet(g, A)}
<1>1. ASSUME NEW A \in SUBSET S, \A B \in SUBSET A : B # A => B \in Good PROVE A \in Good
  <2>1. CASE A = {}
    BY <2>1, SumOfNone
  <2>2. CASE A # {}
    <3>1. IsFiniteSet(A)
      BY FS_Subset
    <3>2. /\ Pick(A) \in A
          /\ SumFunctionOnSet(f, A) = f[Pick(A)] + SumFunctionOnSet(f, A \ {Pick(A)})
          /\ SumFunctionOnSet(g, A) = g[Pick(A)] + SumFunctionOnSet(g, A \ {Pick(A)})
      BY <2>2, <3>1, SumOfPicked
    <3>3. A \ {Pick(A)} \in Good
      BY <1>1, <3>2
    <3> QED
      BY <3>2, <3>3
  <2> QED
    BY <2>1, <2>2
<1>2. S \in Good
  <2> HIDE DEF Good
  <2> QED
    BY <1>1, SubsetInduction
<1> QED
  BY <1>2

LEMMA SumSplit ==
  ASSUME NEW S, IsFiniteSet(S), NEW f, \A x \in S : f[x] \in Int, NEW B \in SUBSET S
  PROVE  SumFunctionOnSet(f, S) = SumFunctionOnSet(f, B) + SumFunctionOnSet(f, S \ B)
<1> DEFINE Sum(A) == SumFunctionOnSet(f, A)
           Good == {A \in SUBSET S : Sum(S) = Sum(A) + Sum(S \ A)}
<1>1. \A A \in SUBSET S : IsFiniteSet(A) /\ Sum(A) \in Int
  <2> TAKE A \in SUBSET S
  <2>1. IsFiniteSet(A)
    BY FS_Subset
  <2> QED
    BY <2>1, SumType
<1>2. {} \in Good
  <2>1. S \ {} = S /\ Sum({}) = 0 /\ Sum(S) \in Int /\ {} \in SUBSET S
    BY <1>1, SumOfNone
  <2> HIDE DEF Sum
  <2> QED
    BY <2>1
<1>3. ASSUME NEW A \in SUBSET S, A \in Good, NEW x \in S \ A PROVE A \cup {x} \in Good
  <2> DEFINE rest == S \ A
  <2>1. Sum(A \cup {x}) = f[x] + Sum(A)
    BY <1>1, SumAdd
  <2>2. Sum(rest) = f[x] + Sum(rest \ {x})
    <3>1. IsFiniteSet(rest) /\ x \in rest /\ \A y \in rest : f[y] \in Int
      BY <1>1
    <3> HIDE DEF rest
    <3> QED
      BY <3>1, SumRemove
  <2>3. S \ (A \cup {x}) = rest \ {x} /\ A \cup {x} \in SUBSET S
    OBVIOUS
  <2>4. Sum(A) \in Int /\ Sum(rest \ {x}) \in Int /\ f[x] \in Int
    BY <1>1
  <2>5. Sum(S) = Sum(A) + Sum(rest)
    BY <1>3
  <2> DEFINE here == f[x]
             one == Sum(A)
             other == Sum(rest \ {x})
  <2>6. Sum(S) = one + (here + other) /\ here \in Int /\ one \in Int /\ other \in Int
    BY <2>2, <2>4, <2>5
  <2>7. Sum(A \cup {x}) = here + one /\ Sum(S \ (A \cup {x})) = other
    BY <2>1, <2>3
  <2> HIDE DEF Sum, here, one, other
  <2>8. Sum(S) = (here + one) + other
    BY <2>6
  <2> QED
    BY <2>3, <2>7, <2>8
<1>4. B \in Good
  <2> HIDE DEF Good
  <2> QED
    BY <1>2, <1>3, ElementInduction
<1> QED
  BY <1>4

LEMMA SumOfOnes ==
  ASSUME NEW S, IsFiniteSet(S), NEW f, \A x \in S : f[x] = 1
  PROVE  SumFunctionOnSet(f, S) = Cardinality(S)
<1> DEFINE Good == {A \in SUBSET S : SumFunctionOnSet(f, A) = Cardinality(A)}
<1>1. {} \in Good
  BY SumOfNone, FS_EmptySet
<1>2. ASSUME NEW A \in SUBSET S, A \in Good, NEW x \in S \ A PROVE A \cup {x} \in Good
  <2>1. IsFiniteSet(A)
    BY FS_Subset
  <2>2. SumFunctionOnSet(f, A \cup {x}) = f[x] + SumFunctionOnSet(f, A)
    BY <2>1, SumAdd
  <2>3. Cardinality(A \cup {x}) = Cardinality(A) + 1 /\ Cardinality(A) \in Nat
    BY <2>1, FS_AddElement, FS_CardinalityType
  <2>4. SumFunctionOnSet(f, A) = Cardinality(A) /\ f[x] = 1
    BY <1>2
  <2> QED
    BY <2>2, <2>3, <2>4
<1>3. S \in Good
  <2> HIDE DEF Good
  <2> QED
    BY <1>1, <1>2, ElementInduction
<1> QED
  BY <1>3

LEMMA SumAtMost ==
  ASSUME NEW S, IsFiniteSet(S), NEW f, NEW g, \A x \in S : f[x] \in Int /\ g[x] \in Int /\ f[x] <= g[x]
  PROVE  SumFunctionOnSet(f, S) <= SumFunctionOnSet(g, S)
<1> DEFINE Good == {A \in SUBSET S : SumFunctionOnSet(f, A) <= SumFunctionOnSet(g, A)}
<1>1. {} \in Good
  BY SumOfNone
<1>2. ASSUME NEW A \in SUBSET S, A \in Good, NEW x \in S \ A PROVE A \cup {x} \in Good
  <2>1. IsFiniteSet(A)
    BY FS_Subset
  <2>2. /\ SumFunctionOnSet(f, A \cup {x}) = f[x] + SumFunctionOnSet(f, A)
        /\ SumFunctionOnSet(g, A \cup {x}) = g[x] + SumFunctionOnSet(g, A)
    BY <2>1, SumAdd
  <2>3. SumFunctionOnSet(f, A) \in Int /\ SumFunctionOnSet(g, A) \in Int
    BY <2>1, SumType
  <2>4. SumFunctionOnSet(f, A) <= SumFunctionOnSet(g, A) /\ f[x] \in Int /\ g[x] \in Int /\ f[x] <= g[x]
    BY <1>2
  <2>5. f[x] + SumFunctionOnSet(f, A) <= g[x] + SumFunctionOnSet(g, A)
    BY <2>3, <2>4
  <2>6. A \cup {x} \in SUBSET S
    OBVIOUS
  <2> QED
    BY <2>2, <2>5, <2>6
<1>3. S \in Good
  <2> HIDE DEF Good
  <2> QED
    BY <1>1, <1>2, ElementInduction
<1> QED
  BY <1>3

(* Ledgers. *)

\* What a ledger keeps: it holds whole slots for the running, its pools add up to the
\* limits, and no pool of slots is below zero.
HoldsWholeSlots(L) == \A t \in L.holders, d \in SlotDimensions : L.reserved[t][d] = 1
Conserves(L) ==
  \A d \in Pooled : L.remaining[d] + ReservedBy(L, L.holders, d) + L.consumed[d] = RootLimits[d]
SlotsLeft(L) == \A d \in SlotDimensions : L.remaining[d] >= 0
LedgerOK(L) ==
  /\ L \in RootBudgetLedger
  /\ HoldsWholeSlots(L)
  /\ L.open => Conserves(L) /\ SlotsLeft(L)

LEMMA DimensionSets ==
  /\ SlotDimensions \subseteq Pooled /\ Pooled \subseteq Dimensions
  /\ Dimensions = Pooled \cup {"wallTimeMs"} /\ "wallTimeMs" \notin Pooled
  /\ SlotDimensions \subseteq Pooled \cap {"call", "concurrency"}
  /\ Pooled \ {"concurrency"} = Metered \cup {"call"}
BY BudgetAssumption DEF Dimensions, Pooled, SlotDimensions, ContinuousDimensions

\* The amounts the tasks of S have reserved in one dimension.
LEMMA ReservedTypes ==
  ASSUME IsFiniteSet(Tasks), NEW L \in RootBudgetLedger, NEW S \in SUBSET Tasks, NEW d \in Dimensions
  PROVE  /\ IsFiniteSet(S)
         /\ \A t \in Tasks : L.reserved[t][d] \in Nat
         /\ ReservedBy(L, S, d) \in Nat
<1>1. IsFiniteSet(S)
  BY FS_Subset
<1>2. \A t \in Tasks : L.reserved[t][d] \in Nat
  <2>1. L.reserved \in [Tasks -> Vector]
    BY DEF RootBudgetLedger
  <2> QED
    BY <2>1 DEF Vector
<1> DEFINE f == [t \in Tasks |-> L.reserved[t][d]]
<1>3. \A t \in S : f[t] \in Nat
  BY <1>2
<1>4. SumFunctionOnSet(f, S) \in Nat
  <2> HIDE DEF f
  <2> QED
    BY <1>1, <1>3, SumType
<1> QED
  BY <1>1, <1>2, <1>4 DEF ReservedBy

LEMMA CreateOK ==
  ASSUME NEW clock \in Nat
  PROVE  LedgerOK(createRootBudgetLedger(clock)) /\ createRootBudgetLedger(clock).open
<1> DEFINE L == createRootBudgetLedger(clock)
<1>1. \A d \in Dimensions : RootLimits[d] \in Nat
  BY BudgetAssumption
<1>2. /\ L.open = TRUE /\ L.createdAt = clock /\ L.holders = {}
      /\ L.consumed = [d \in Pooled |-> 0] /\ L.remaining = [d \in Pooled |-> RootLimits[d]]
      /\ L.reserved = [t \in Tasks |-> zeroVector]
  BY DEF createRootBudgetLedger
<1>3. L \in RootBudgetLedger
  <2>1. zeroVector \in Vector
    BY DEF zeroVector, Vector
  <2>2. [d \in Pooled |-> RootLimits[d]] \in [Pooled -> Int]
    BY <1>1, DimensionSets
  <2>3. [d \in Pooled |-> 0] \in [Pooled -> Nat] /\ {} \in SUBSET Tasks /\ [t \in Tasks |-> zeroVector] \in [Tasks -> Vector]
    BY <2>1
  <2> QED
    BY <2>2, <2>3 DEF createRootBudgetLedger, RootBudgetLedger
<1>4. Conserves(L)
  <2> SUFFICES ASSUME NEW d \in Pooled
               PROVE  L.remaining[d] + ReservedBy(L, L.holders, d) + L.consumed[d] = RootLimits[d]
    BY DEF Conserves
  <2>1. ReservedBy(L, L.holders, d) = 0
    BY <1>2, SumOfNone DEF ReservedBy
  <2>2. L.remaining[d] = RootLimits[d] /\ L.consumed[d] = 0 /\ RootLimits[d] \in Nat
    BY <1>1, <1>2, DimensionSets
  <2> HIDE DEF L
  <2> QED
    BY <2>1, <2>2
<1>5. SlotsLeft(L)
  BY <1>1, <1>2, DimensionSets DEF SlotsLeft
<1> QED
  BY <1>2, <1>3, <1>4, <1>5 DEF LedgerOK, HoldsWholeSlots

LEMMA NoLedgerOK == LedgerOK(NoLedger)
<1>1. zeroVector \in Vector
  BY DEF zeroVector, Vector
<1>2. [d \in Pooled |-> 0] \in [Pooled -> Int] /\ [d \in Pooled |-> 0] \in [Pooled -> Nat]
  OBVIOUS
<1>3. NoLedger \in RootBudgetLedger
  BY <1>1, <1>2 DEF NoLedger, RootBudgetLedger
<1> QED
  BY <1>3 DEF LedgerOK, HoldsWholeSlots, NoLedger

\* A reservation takes at most what remains, all of a slot.
LEMMA ReserveAmounts ==
  ASSUME IsFiniteSet(Tasks), NEW L, LedgerOK(L), NEW clock \in Nat, NEW t, CanReserve(L, clock, t), NEW d \in Dimensions
  PROVE  /\ Remaining(L, clock, d) \in Int
         /\ Reservation(L, clock)[d] \in Nat
         /\ Reservation(L, clock)[d] <= Remaining(L, clock, d)
         /\ d \in SlotDimensions => Reservation(L, clock)[d] = 1
<1>1. L \in RootBudgetLedger
  BY DEF LedgerOK
<1>2. Remaining(L, clock, d) \in Int
  <2>1. CASE d = "wallTimeMs"
    <3>1. L.createdAt \in Nat /\ L.holders \in SUBSET Tasks
      BY <1>1 DEF RootBudgetLedger
    <3>2. ReservedBy(L, L.holders, d) \in Nat /\ RootLimits[d] \in Nat
      BY <1>1, <3>1, ReservedTypes, BudgetAssumption
    <3>3. Remaining(L, clock, d) = RootLimits[d] - (clock - L.createdAt) - ReservedBy(L, L.holders, d)
      BY <2>1 DEF Remaining, WallRemaining, Elapsed, activeReservedWallTimeMs
    <3> QED
      BY <3>1, <3>2, <3>3
  <2>2. CASE d # "wallTimeMs"
    <3>1. d \in Pooled /\ L.remaining \in [Pooled -> Int]
      BY <1>1, <2>2, DimensionSets DEF RootBudgetLedger
    <3> QED
      BY <2>2, <3>1 DEF Remaining
  <2> QED
    BY <2>1, <2>2
<1>3. Reservation(L, clock)[d] = reserveAmount(d, Remaining(L, clock, d)) /\ Reservation(L, clock)[d] > 0
  BY DEF Reservation, CanReserve
<1>4. DispatchCeiling[d] \in Nat /\ (d \in SlotDimensions => DispatchCeiling[d] = 1)
  BY BudgetAssumption
<1> DEFINE amount == Reservation(L, clock)[d]
           left == Remaining(L, clock, d)
           ceiling == DispatchCeiling[d]
<1>5. amount = (IF left >= ceiling THEN ceiling ELSE IF d \in SlotDimensions THEN 0 ELSE left)
  BY <1>3 DEF reserveAmount
<1>6. amount > 0 /\ left \in Int /\ ceiling \in Nat /\ (d \in SlotDimensions => ceiling = 1)
  BY <1>2, <1>3, <1>4
<1> HIDE DEF amount, left, ceiling
<1>7. amount \in Nat /\ amount <= left /\ (d \in SlotDimensions => amount = 1)
  BY <1>5, <1>6
<1> QED
  BY <1>2, <1>7 DEF amount, left

LEMMA ReserveOK ==
  ASSUME IsFiniteSet(Tasks), NEW L, LedgerOK(L), L.open, NEW clock \in Nat, NEW t \in Tasks, CanReserve(L, clock, t)
  PROVE  LET M == tryReserveDispatch(L, clock, t) IN
         /\ LedgerOK(M)
         /\ M.open = L.open /\ M.createdAt = L.createdAt /\ M.consumed = L.consumed
         /\ \A d \in Dimensions : Remaining(M, clock, d) >= 0
<1> DEFINE M == tryReserveDispatch(L, clock, t)
           R == Reservation(L, clock)
<1>1. /\ L \in RootBudgetLedger /\ HoldsWholeSlots(L) /\ Conserves(L) /\ SlotsLeft(L)
      /\ t \notin L.holders
  BY DEF LedgerOK, CanReserve
<1>2. /\ L.createdAt \in Nat /\ L.consumed \in [Pooled -> Nat] /\ L.remaining \in [Pooled -> Int]
      /\ L.holders \in SUBSET Tasks /\ L.reserved \in [Tasks -> Vector] /\ L.open \in BOOLEAN
  BY <1>1 DEF RootBudgetLedger
<1>3. /\ M.open = L.open /\ M.createdAt = L.createdAt /\ M.consumed = L.consumed
      /\ M.holders = L.holders \cup {t}
      /\ M.reserved = [L.reserved EXCEPT ![t] = R]
      /\ M.remaining = [d \in Pooled |-> L.remaining[d] - R[d]]
  BY DEF tryReserveDispatch
<1>4. \A d \in Dimensions :
        /\ Remaining(L, clock, d) \in Int /\ R[d] \in Nat /\ R[d] <= Remaining(L, clock, d)
        /\ d \in SlotDimensions => R[d] = 1
  BY ReserveAmounts
<1>5. R \in Vector
  <2>1. R = [d \in Dimensions |-> R[d]]
    BY DEF Reservation
  <2> HIDE DEF R
  <2> QED
    BY <1>4, <2>1 DEF Vector
<1>6. M \in RootBudgetLedger
  <2>1. [L.reserved EXCEPT ![t] = R] \in [Tasks -> Vector]
    BY <1>2, <1>5
  <2>2. [d \in Pooled |-> L.remaining[d] - R[d]] \in [Pooled -> Int]
    BY <1>2, <1>4, DimensionSets
  <2>3. L.holders \cup {t} \in SUBSET Tasks
    BY <1>2
  <2> QED
    BY <1>2, <2>1, <2>2, <2>3 DEF tryReserveDispatch, RootBudgetLedger
<1>7. \A d \in Dimensions : ReservedBy(M, M.holders, d) = R[d] + ReservedBy(L, L.holders, d)
  <2> SUFFICES ASSUME NEW d \in Dimensions
               PROVE  ReservedBy(M, M.holders, d) = R[d] + ReservedBy(L, L.holders, d)
    OBVIOUS
  <2> DEFINE f == [u \in Tasks |-> M.reserved[u][d]]
             g == [u \in Tasks |-> L.reserved[u][d]]
  <2>1. IsFiniteSet(L.holders) /\ \A u \in Tasks : f[u] \in Int
    BY <1>2, <1>6, <1>1, ReservedTypes
  <2>2. f[t] = R[d] /\ \A u \in L.holders : f[u] = g[u]
    BY <1>1, <1>2, <1>3
  <2> HIDE DEF f, g, M, R
  <2>3. SumFunctionOnSet(f, L.holders \cup {t}) = f[t] + SumFunctionOnSet(f, L.holders)
    BY <1>1, <1>2, <2>1, SumAdd
  <2>4. SumFunctionOnSet(f, L.holders) = SumFunctionOnSet(g, L.holders)
    BY <2>1, <2>2, SumSame
  <2> QED
    BY <1>3, <2>2, <2>3, <2>4 DEF ReservedBy, f, g
<1>8. \A d \in Dimensions : ReservedBy(L, L.holders, d) \in Nat
  BY <1>1, <1>2, ReservedTypes
<1> HIDE DEF M, R
<1>9. HoldsWholeSlots(M)
  <2> SUFFICES ASSUME NEW u \in M.holders, NEW d \in SlotDimensions PROVE M.reserved[u][d] = 1
    BY DEF HoldsWholeSlots
  <2>1. CASE u = t
    BY <1>2, <1>3, <1>4, <2>1, DimensionSets
  <2>2. CASE u # t
    BY <1>1, <1>2, <1>3, <2>2 DEF HoldsWholeSlots
  <2> QED
    BY <2>1, <2>2
<1>10. Conserves(M)
  <2> SUFFICES ASSUME NEW d \in Pooled
               PROVE  M.remaining[d] + ReservedBy(M, M.holders, d) + M.consumed[d] = RootLimits[d]
    BY DEF Conserves
  <2> DEFINE left == L.remaining[d]
             held == ReservedBy(L, L.holders, d)
             used == L.consumed[d]
             amount == R[d]
  <2>1. d \in Dimensions /\ left + held + used = RootLimits[d]
    BY <1>1, DimensionSets DEF Conserves
  <2>2. left \in Int /\ held \in Nat /\ used \in Nat /\ amount \in Nat
    BY <1>2, <1>4, <1>8, <2>1
  <2>3. M.remaining[d] = left - amount /\ ReservedBy(M, M.holders, d) = amount + held /\ M.consumed[d] = used
    BY <1>3, <1>7, <2>1
  <2> HIDE DEF left, held, used, amount
  <2> QED
    BY <2>1, <2>2, <2>3
<1>11. SlotsLeft(M)
  <2> SUFFICES ASSUME NEW d \in SlotDimensions PROVE M.remaining[d] >= 0
    BY DEF SlotsLeft
  <2>1. d \in Pooled /\ d \in Dimensions /\ d # "wallTimeMs"
    BY DimensionSets
  <2>2. L.remaining[d] \in Int /\ R[d] \in Nat /\ R[d] <= L.remaining[d]
    BY <1>4, <2>1 DEF Remaining
  <2>3. M.remaining[d] = L.remaining[d] - R[d]
    BY <1>3, <2>1
  <2> QED
    BY <2>2, <2>3
<1>12. ASSUME NEW d \in Dimensions PROVE Remaining(M, clock, d) >= 0
  <2>1. Remaining(M, clock, d) = Remaining(L, clock, d) - R[d]
    <3>1. CASE d = "wallTimeMs"
      <4> DEFINE limit == RootLimits[d]
                 passed == clock - L.createdAt
                 held == ReservedBy(L, L.holders, d)
                 amount == R[d]
      <4>1. Remaining(L, clock, d) = limit - passed - held
        BY <3>1 DEF Remaining, WallRemaining, Elapsed, activeReservedWallTimeMs
      <4>2. Remaining(M, clock, d) = limit - passed - (amount + held)
        BY <1>3, <1>7, <3>1 DEF Remaining, WallRemaining, Elapsed, activeReservedWallTimeMs
      <4>3. limit \in Int /\ passed \in Int /\ held \in Int /\ amount \in Int
        BY <1>2, <1>4, <1>8, BudgetAssumption
      <4> HIDE DEF limit, passed, held, amount
      <4>4. Remaining(M, clock, d) = Remaining(L, clock, d) - amount
        BY <4>1, <4>2, <4>3
      <4> QED
        BY <4>4 DEF amount
    <3>2. CASE d # "wallTimeMs"
      <4>1. d \in Pooled
        BY <3>2, DimensionSets
      <4> QED
        BY <1>3, <3>2, <4>1 DEF Remaining
    <3> QED
      BY <3>1, <3>2
  <2>2. Remaining(L, clock, d) \in Int /\ R[d] \in Nat /\ R[d] <= Remaining(L, clock, d)
    BY <1>4
  <2> QED
    BY <2>1, <2>2
<1>13. LedgerOK(M)
  BY <1>6, <1>9, <1>10, <1>11 DEF LedgerOK
<1> QED
  BY <1>3, <1>12, <1>13 DEF M

\* Reconciling charges something, and of a slot never more than was reserved.
LEMMA ChargeAmounts ==
  ASSUME NEW d \in Pooled, NEW amount \in Nat, NEW reported \in BudgetActuals
  PROVE  /\ reconcileDimensionActual(d, amount, reported) \in Nat
         /\ d \in SlotDimensions => reconcileDimensionActual(d, amount, reported) <= amount
<1>1. CASE d = "concurrency"
  BY <1>1 DEF reconcileDimensionActual
<1>2. CASE d # "concurrency"
  <2>1. d \in Metered \cup {"call"}
    BY <1>2, DimensionSets
  <2>2. reported[d] \in Nat \cup {Unknown}
    BY <2>1 DEF BudgetActuals
  <2>3. d \in SlotDimensions => d = "call"
    BY <1>2 DEF SlotDimensions
  <2> QED
    BY <1>2, <2>2, <2>3 DEF reconcileDimensionActual
<1> QED
  BY <1>1, <1>2

LEMMA ReconcileOK ==
  ASSUME IsFiniteSet(Tasks), NEW L, LedgerOK(L), NEW S \in SUBSET L.holders,
         NEW actuals, \A t \in S : actuals[t] \in BudgetActuals
  PROVE  LET M == reconcileDispatch(L, S, actuals) IN
         /\ LedgerOK(M)
         /\ M.open = L.open /\ M.createdAt = L.createdAt
         /\ \A d \in Pooled : M.consumed[d] >= L.consumed[d]
<1> DEFINE M == reconcileDispatch(L, S, actuals)
<1>1. L \in RootBudgetLedger /\ HoldsWholeSlots(L) /\ (L.open => Conserves(L) /\ SlotsLeft(L))
  BY DEF LedgerOK
<1>2. /\ L.createdAt \in Nat /\ L.consumed \in [Pooled -> Nat] /\ L.remaining \in [Pooled -> Int]
      /\ L.holders \in SUBSET Tasks /\ L.reserved \in [Tasks -> Vector] /\ L.open \in BOOLEAN
  BY <1>1 DEF RootBudgetLedger
<1>3. /\ M.open = L.open /\ M.createdAt = L.createdAt /\ M.holders = L.holders \ S
      /\ M.consumed = [d \in Pooled |-> L.consumed[d] + Charged(L, S, d, actuals)]
      /\ M.reserved = [t \in Tasks |-> IF t \in S THEN zeroVector ELSE L.reserved[t]]
      /\ M.remaining = [d \in Pooled |->
                          L.remaining[d] + ReservedBy(L, S, d) - Charged(L, S, d, actuals)]
  BY DEF reconcileDispatch
<1>4. S \in SUBSET Tasks /\ IsFiniteSet(S) /\ IsFiniteSet(L.holders)
  <2>1. S \in SUBSET Tasks
    BY <1>2
  <2> QED
    BY <1>2, <2>1, FS_Subset
<1>5. ASSUME NEW d \in Dimensions
      PROVE  /\ ReservedBy(L, S, d) \in Nat /\ ReservedBy(L, L.holders, d) \in Nat
             /\ \A t \in Tasks : L.reserved[t][d] \in Nat
  BY <1>1, <1>2, <1>4, ReservedTypes
<1>6. ASSUME NEW d \in Pooled
      PROVE  /\ Charged(L, S, d, actuals) \in Nat
             /\ d \in SlotDimensions => Charged(L, S, d, actuals) <= ReservedBy(L, S, d)
  <2> DEFINE charge == [t \in Tasks |-> reconcileDimensionActual(d, L.reserved[t][d], actuals[t])]
             amount == [t \in Tasks |-> L.reserved[t][d]]
  <2>1. \A t \in S : amount[t] \in Nat /\ charge[t] \in Nat /\ (d \in SlotDimensions => charge[t] <= amount[t])
    <3> TAKE t \in S
    <3>1. t \in Tasks /\ L.reserved[t][d] \in Nat /\ actuals[t] \in BudgetActuals
      BY <1>4, <1>5, DimensionSets
    <3>2. charge[t] = reconcileDimensionActual(d, L.reserved[t][d], actuals[t]) /\ amount[t] = L.reserved[t][d]
      BY <3>1
    <3> QED
      BY <3>1, <3>2, ChargeAmounts
  <2> HIDE DEF charge, amount
  <2>2. SumFunctionOnSet(charge, S) \in Nat
    BY <1>4, <2>1, SumType
  <2>3. d \in SlotDimensions => SumFunctionOnSet(charge, S) <= SumFunctionOnSet(amount, S)
    BY <1>4, <2>1, SumAtMost
  <2> QED
    BY <2>2, <2>3 DEF Charged, ReservedBy, charge, amount
<1>7. \A d \in Pooled :
        /\ M.consumed[d] = L.consumed[d] + Charged(L, S, d, actuals)
        /\ M.remaining[d] = L.remaining[d] + ReservedBy(L, S, d) - Charged(L, S, d, actuals)
        /\ L.consumed[d] \in Nat /\ L.remaining[d] \in Int
  BY <1>2, <1>3
<1>8. M \in RootBudgetLedger
  <2>1. zeroVector \in Vector
    BY DEF zeroVector, Vector
  <2>2. [t \in Tasks |-> IF t \in S THEN zeroVector ELSE L.reserved[t]] \in [Tasks -> Vector]
    BY <1>2, <2>1
  <2>3. /\ [d \in Pooled |-> L.consumed[d] + Charged(L, S, d, actuals)] \in [Pooled -> Nat]
        /\ [d \in Pooled |-> L.remaining[d] + ReservedBy(L, S, d) - Charged(L, S, d, actuals)] \in [Pooled -> Int]
    BY <1>2, <1>5, <1>6, DimensionSets
  <2>4. L.holders \ S \in SUBSET Tasks
    BY <1>2
  <2> QED
    BY <1>2, <2>2, <2>3, <2>4 DEF reconcileDispatch, RootBudgetLedger
<1>9. ASSUME NEW d \in Dimensions
      PROVE  ReservedBy(L, L.holders, d) = ReservedBy(L, S, d) + ReservedBy(M, M.holders, d)
  <2> DEFINE f == [u \in Tasks |-> L.reserved[u][d]]
             g == [u \in Tasks |-> M.reserved[u][d]]
             H == L.holders
  <2>1. IsFiniteSet(H) /\ S \in SUBSET H /\ \A u \in H : f[u] \in Int
    BY <1>2, <1>4, <1>5
  <2>2. IsFiniteSet(H \ S) /\ \A u \in H \ S : f[u] = g[u]
    BY <1>2, <1>3, <1>4, FS_Subset
  <2>3. M.holders = H \ S
    BY <1>3
  <2> HIDE DEF f, g, H, M
  <2>4. SumFunctionOnSet(f, H) = SumFunctionOnSet(f, S) + SumFunctionOnSet(f, H \ S)
    BY <2>1, SumSplit
  <2>5. SumFunctionOnSet(f, H \ S) = SumFunctionOnSet(g, H \ S)
    BY <2>2, SumSame
  <2> QED
    BY <2>3, <2>4, <2>5 DEF ReservedBy, f, g, H
<1> HIDE DEF M
<1>10. HoldsWholeSlots(M)
  BY <1>1, <1>2, <1>3 DEF HoldsWholeSlots
<1>11. M.open => Conserves(M)
  <2> SUFFICES ASSUME M.open, NEW d \in Pooled
               PROVE  M.remaining[d] + ReservedBy(M, M.holders, d) + M.consumed[d] = RootLimits[d]
    BY DEF Conserves
  <2> DEFINE left == L.remaining[d]
             freed == ReservedBy(L, S, d)
             held == ReservedBy(M, M.holders, d)
             used == L.consumed[d]
             charge == Charged(L, S, d, actuals)
  <2>1. d \in Dimensions
    BY DimensionSets
  <2>2. left + (freed + held) + used = RootLimits[d]
    BY <1>1, <1>3, <1>9, <2>1 DEF Conserves
  <2>3. left \in Int /\ freed \in Nat /\ used \in Nat /\ charge \in Nat /\ held \in Nat
    BY <1>4, <1>5, <1>6, <1>7, <1>8, <2>1, <1>3, ReservedTypes, <1>2
  <2>4. M.remaining[d] = left + freed - charge /\ M.consumed[d] = used + charge
    BY <1>7
  <2> HIDE DEF left, freed, held, used, charge
  <2>5. (left + freed - charge) + held + (used + charge) = left + (freed + held) + used
    BY <2>3
  <2>6. M.remaining[d] + held + M.consumed[d] = RootLimits[d]
    BY <2>2, <2>4, <2>5
  <2> QED
    BY <2>6 DEF held
<1>12. M.open => SlotsLeft(M)
  <2> SUFFICES ASSUME M.open, NEW d \in SlotDimensions PROVE M.remaining[d] >= 0
    BY DEF SlotsLeft
  <2>1. d \in Pooled /\ d \in Dimensions
    BY DimensionSets
  <2> DEFINE left == L.remaining[d]
             freed == ReservedBy(L, S, d)
             charge == Charged(L, S, d, actuals)
  <2>2. left \in Int /\ left >= 0 /\ freed \in Nat /\ charge \in Nat /\ charge <= freed
    BY <1>1, <1>3, <1>5, <1>6, <1>7, <2>1 DEF SlotsLeft
  <2>3. M.remaining[d] = left + freed - charge
    BY <1>7, <2>1
  <2> HIDE DEF left, freed, charge
  <2> QED
    BY <2>2, <2>3
<1>13. \A d \in Pooled : M.consumed[d] >= L.consumed[d]
  <2> TAKE d \in Pooled
  <2>1. M.consumed[d] = L.consumed[d] + Charged(L, S, d, actuals) /\ L.consumed[d] \in Nat /\ Charged(L, S, d, actuals) \in Nat
    BY <1>6, <1>7
  <2> QED
    BY <2>1
<1> QED
  BY <1>3, <1>8, <1>10, <1>11, <1>12, <1>13 DEF LedgerOK, M

\* Calls and concurrency slots charged and in flight stay within the root's limit.
LEMMA SlotsWithin ==
  ASSUME IsFiniteSet(Tasks), NEW L, LedgerOK(L), L.open, NEW d \in SlotDimensions
  PROVE  L.consumed[d] + Cardinality(L.holders) <= RootLimits[d]
<1>1. L \in RootBudgetLedger /\ HoldsWholeSlots(L) /\ Conserves(L) /\ SlotsLeft(L)
  BY DEF LedgerOK
<1>2. d \in Pooled /\ L.holders \in SUBSET Tasks /\ L.consumed[d] \in Nat /\ L.remaining[d] \in Int
  BY <1>1, DimensionSets DEF RootBudgetLedger
<1>3. IsFiniteSet(L.holders)
  BY <1>2, FS_Subset
<1>4. ReservedBy(L, L.holders, d) = Cardinality(L.holders)
  <2> DEFINE f == [u \in Tasks |-> L.reserved[u][d]]
  <2>1. \A u \in L.holders : f[u] = 1
    BY <1>1, <1>2 DEF HoldsWholeSlots
  <2> HIDE DEF f
  <2>2. SumFunctionOnSet(f, L.holders) = Cardinality(L.holders)
    BY <1>3, <2>1, SumOfOnes
  <2> QED
    BY <2>2 DEF ReservedBy, f
<1> DEFINE held == Cardinality(L.holders)
           left == L.remaining[d]
           used == L.consumed[d]
<1>5. left + held + used = RootLimits[d] /\ left >= 0
  BY <1>1, <1>2, <1>4 DEF Conserves, SlotsLeft
<1>6. left \in Int /\ used \in Nat /\ held \in Nat
  BY <1>2, <1>3, FS_CardinalityType
<1> HIDE DEF held, left, used
<1>7. used + held <= RootLimits[d]
  BY <1>5, <1>6
<1> QED
  BY <1>7 DEF used, held

\* The calls a ledger was charged and those in flight.
Calls(L) == L.consumed["call"] + Cardinality(L.holders)

\* A reservation is one more call.
LEMMA ReserveCalls ==
  ASSUME IsFiniteSet(Tasks), NEW L \in RootBudgetLedger, NEW clock, NEW t \in Tasks, CanReserve(L, clock, t)
  PROVE  Calls(tryReserveDispatch(L, clock, t)) = Calls(L) + 1
<1> DEFINE M == tryReserveDispatch(L, clock, t)
           used == L.consumed["call"]
           held == Cardinality(L.holders)
<1>1. M.consumed = L.consumed /\ M.holders = L.holders \cup {t} /\ t \notin L.holders
  BY DEF tryReserveDispatch, CanReserve
<1>2. L.holders \in SUBSET Tasks /\ used \in Nat
  BY DimensionSets DEF RootBudgetLedger, SlotDimensions
<1>3. IsFiniteSet(L.holders)
  BY <1>2, FS_Subset
<1>4. held \in Nat /\ Cardinality(M.holders) = held + 1
  BY <1>1, <1>3, FS_AddElement, FS_CardinalityType
<1> HIDE DEF held
<1>5. M.consumed["call"] + Cardinality(M.holders) = used + held + 1
  BY <1>1, <1>2, <1>4
<1> QED
  BY <1>5 DEF Calls, held

\* A reconciliation to one call each moves calls from flight to the account.
LEMMA ReconcileCalls ==
  ASSUME IsFiniteSet(Tasks), NEW L, LedgerOK(L), NEW S \in SUBSET L.holders,
         NEW actuals, \A t \in S : actuals[t]["call"] \in {1, Unknown}
  PROVE  Calls(reconcileDispatch(L, S, actuals)) = Calls(L)
<1> DEFINE M == reconcileDispatch(L, S, actuals)
           charge == [t \in Tasks |-> reconcileDimensionActual("call", L.reserved[t]["call"], actuals[t])]
           used == L.consumed["call"]
           held == Cardinality(L.holders)
           ended == Cardinality(S)
<1>1. L \in RootBudgetLedger /\ HoldsWholeSlots(L)
  BY DEF LedgerOK
<1>2. L.holders \in SUBSET Tasks /\ used \in Nat /\ "call" \in Pooled
  BY <1>1, DimensionSets DEF RootBudgetLedger, SlotDimensions
<1>3. IsFiniteSet(L.holders) /\ IsFiniteSet(S)
  BY <1>2, FS_Subset
<1>4. /\ M.holders = L.holders \ S
      /\ M.consumed["call"] = used + SumFunctionOnSet(charge, S)
  BY <1>2 DEF reconcileDispatch, Charged
<1>5. \A t \in S : charge[t] = 1
  <2> TAKE t \in S
  <2>1. t \in Tasks /\ L.reserved[t]["call"] = 1
    BY <1>1, <1>2 DEF HoldsWholeSlots, SlotDimensions
  <2>2. charge[t] = reconcileDimensionActual("call", 1, actuals[t])
    BY <2>1
  <2> QED
    BY <2>2 DEF reconcileDimensionActual
<1> HIDE DEF charge
<1>6. SumFunctionOnSet(charge, S) = ended
  BY <1>3, <1>5, SumOfOnes
<1>7. Cardinality(L.holders \ S) = held - Cardinality(L.holders \cap S)
  BY <1>3, FS_Difference
<1>8. L.holders \cap S = S /\ held \in Nat /\ ended \in Nat
  BY <1>3, FS_CardinalityType
<1> HIDE DEF held, ended, used
<1>9. M.consumed["call"] = used + ended /\ Cardinality(M.holders) = held - ended
  BY <1>4, <1>6, <1>7, <1>8 DEF ended
<1>10. (used + ended) + (held - ended) = used + held
  BY <1>2, <1>8
<1> QED
  BY <1>9, <1>10 DEF Calls, used, held

LEMMA CreateCalls == \A clock : Calls(createRootBudgetLedger(clock)) = 0
<1>1. "call" \in Pooled
  BY DEF Pooled, SlotDimensions
<1> QED
  BY <1>1, FS_EmptySet DEF Calls, createRootBudgetLedger

LEMMA NoLedgerCalls == Calls(NoLedger) = 0
<1>1. "call" \in Pooled
  BY DEF Pooled, SlotDimensions
<1> QED
  BY <1>1, FS_EmptySet DEF Calls, NoLedger

\* A sum of zeros.
LEMMA SumOfZeros ==
  ASSUME NEW S, IsFiniteSet(S), NEW f, \A x \in S : f[x] = 0
  PROVE  SumFunctionOnSet(f, S) = 0
<1> DEFINE Good == {A \in SUBSET S : SumFunctionOnSet(f, A) = 0}
<1>1. {} \in Good
  BY SumOfNone
<1>2. ASSUME NEW A \in SUBSET S, A \in Good, NEW x \in S \ A PROVE A \cup {x} \in Good
  <2>1. IsFiniteSet(A)
    BY FS_Subset
  <2>2. \A y \in A \cup {x} : f[y] \in Int
    OBVIOUS
  <2>3. SumFunctionOnSet(f, A \cup {x}) = f[x] + SumFunctionOnSet(f, A)
    BY <2>1, <2>2, SumAdd
  <2> QED
    BY <1>2, <2>3
<1> HIDE DEF Good
<1>3. \A A \in SUBSET S : A \in Good
  BY <1>1, <1>2, ElementInduction
<1> QED
  BY <1>3 DEF Good

\* One term of a sum goes up by one.
LEMMA SumIncrement ==
  ASSUME NEW S, IsFiniteSet(S), NEW f, NEW g, \A x \in S : f[x] \in Int, NEW t \in S,
         g[t] = f[t] + 1, \A x \in S \ {t} : g[x] = f[x]
  PROVE  SumFunctionOnSet(g, S) = SumFunctionOnSet(f, S) + 1
<1> DEFINE rest == S \ {t}
<1>1. IsFiniteSet(rest)
  BY FS_Subset
<1>2. \A x \in S : g[x] \in Int
  BY DEF rest
<1>3. /\ SumFunctionOnSet(f, S) = f[t] + SumFunctionOnSet(f, rest)
      /\ SumFunctionOnSet(g, S) = g[t] + SumFunctionOnSet(g, rest)
  BY <1>2, SumRemove
<1>4. SumFunctionOnSet(g, rest) = SumFunctionOnSet(f, rest)
  BY <1>1, SumSame
<1>5. SumFunctionOnSet(f, rest) \in Int
  BY <1>1, SumType
<1> HIDE DEF rest
<1> QED
  BY <1>3, <1>4, <1>5

(* The scheduler. *)

\* The part of TypeOK that does not look inside the budget vectors.
ControlTypeOK ==
  /\ nodes \in [Tasks -> SchedulerNode]
  /\ globalActive \in Nat
  /\ activeByRoot \in [Tasks -> Nat]
  /\ ledgers = [r \in Tasks |-> ledgers[r]]
  /\ \A r \in Tasks : ledgers[r].open \in BOOLEAN /\ ledgers[r].holders \subseteq Tasks
  /\ cancelled \in [Tasks -> {NotCancelled, ROOT_CANCELLED_REASON,
                              ROOT_WALL_TIME_EXHAUSTED_REASON}]
  /\ writeByCheckout \in [Checkouts -> Tasks \cup {NoTask}]
  /\ writeByTask \in [Tasks -> Checkouts \cup {NoCheckout}]

\* Present nodes hang where the caller may hang them, a root's node under
\* nobody; only tasks dispatched as roots own a ledger.
RootsAreRoots ==
  /\ \A t \in Tasks : nodes[t].status # "absent" =>
       /\ nodes[t].parent \in ParentChoices[t]
       /\ nodes[t].root \in Tasks
       /\ NoTask \in ParentChoices[nodes[t].root]
       /\ nodes[t].parent = NoTask => nodes[t].root = t
       /\ nodes[t].checkout \in Checkouts
  /\ \A r \in Tasks : IF ledgers[r].open THEN NoTask \in ParentChoices[r]
                                        ELSE ledgers[r].holders = {}

IndInv ==
  /\ ControlTypeOK
  /\ RootsAreRoots
  /\ SlotAccounting
  /\ ReservationsMatchActive
  /\ SerializedWriters
  /\ CancelledRootIsQuiet

\* Subsets of Tasks are finite, and taking a subset away subtracts its size.
LEMMA TaskSets ==
  ASSUME NEW A \in SUBSET Tasks, NEW B \in SUBSET A
  PROVE  /\ IsFiniteSet(A)
         /\ Cardinality(A) \in Nat
         /\ Cardinality(B) \in Nat
         /\ Cardinality(B) <= Cardinality(A)
         /\ Cardinality(A \ B) = Cardinality(A) - Cardinality(B)
<1>1. IsFiniteSet(A)
  BY SchedulerAssumption, FS_Subset
<1>2. IsFiniteSet(B) /\ Cardinality(B) <= Cardinality(A)
  BY <1>1, FS_Subset
<1>3. Cardinality(A \ B) = Cardinality(A) - Cardinality(A \cap B)
  BY <1>1, <1>2, FS_Difference
<1>4. A \cap B = B
  OBVIOUS
<1> QED
  BY <1>1, <1>2, <1>3, <1>4, FS_CardinalityType

LEMMA TaskSetsAdd ==
  ASSUME NEW A \in SUBSET Tasks, NEW t \in Tasks \ A
  PROVE  Cardinality(A \cup {t}) = Cardinality(A) + 1
BY SchedulerAssumption, FS_Subset, FS_AddElement

\* Nobody but its own root counts a dispatch, so a root that owns a ledger or
\* tracks a dispatch cancels exactly what it tracks.
LEMMA CancellableIsTracked ==
  ASSUME RootsStayRoots, ControlTypeOK, RootsAreRoots,
         NEW r \in Tasks, ledgers[r].open \/ TrackedUnder(r) # {}
  PROVE  Cancellable(r) = TrackedUnder(r)
<1>1. NoTask \in ParentChoices[r]
  BY DEF RootsAreRoots, TrackedUnder, isTaskTracked
<1>2. ASSUME isTaskTracked(r) PROVE nodes[r].root = r
  <2>1. nodes[r].status # "absent"
    BY <1>2 DEF isTaskTracked
  <2>2. nodes[r].parent \in {NoTask}
    BY <1>1, <2>1 DEF RootsStayRoots, RootsAreRoots
  <2> QED
    BY <2>1, <2>2 DEF RootsAreRoots
<1> QED
  BY <1>2 DEF Cancellable, TrackedUnder

\* Dispatches of one root leave: every invariant but the quiet of cancelled
\* roots, which depends on who is left, survives.
LEMMA LeaveStep ==
  ASSUME IndInv,
         NEW r \in Tasks, NEW S \in SUBSET TrackedUnder(r),
         NEW terminal \in [Tasks -> {"completed", "cancelled"}], NEW actuals,
         Leave(r, S, terminal, actuals),
         cancelled' \in [Tasks -> {NotCancelled, ROOT_CANCELLED_REASON,
                                   ROOT_WALL_TIME_EXHAUSTED_REASON}]
  PROVE  /\ ControlTypeOK'
         /\ RootsAreRoots'
         /\ SlotAccounting'
         /\ ReservationsMatchActive'
         /\ SerializedWriters'
         /\ \A q \in Tasks : TrackedUnder(q)' = TrackedUnder(q) \ S
<1> DEFINE running == S \cap Active
<1> USE DEF IndInv
<1>1. /\ S \subseteq Tasks
      /\ running \subseteq ActiveUnder(r)
      /\ ActiveUnder(r) \subseteq Active
      /\ Active \subseteq Tasks
  BY DEF TrackedUnder, ActiveUnder, Active
<1>2. /\ nodes' = [t \in Tasks |->
           IF t \in S THEN [nodes[t] EXCEPT !.status = terminal[t]] ELSE nodes[t]]
      /\ globalActive' = Less(globalActive, Cardinality(running))
      /\ activeByRoot' = [activeByRoot EXCEPT ![r] = RootCountWithout(r, running)]
  BY DEF Leave
<1>3. \A t \in Tasks :
        /\ nodes'[t] = IF t \in S THEN [nodes[t] EXCEPT !.status = terminal[t]]
                                  ELSE nodes[t]
        /\ nodes[t] \in SchedulerNode
        /\ nodes'[t] \in SchedulerNode
        /\ nodes'[t].parent = nodes[t].parent
        /\ nodes'[t].root = nodes[t].root
        /\ nodes'[t].checkout = nodes[t].checkout
        /\ nodes'[t].perms = nodes[t].perms
        /\ nodes'[t].status = IF t \in S THEN terminal[t] ELSE nodes[t].status
  <2> SUFFICES ASSUME NEW t \in Tasks
               PROVE  /\ nodes'[t] = IF t \in S
                                      THEN [nodes[t] EXCEPT !.status = terminal[t]]
                                      ELSE nodes[t]
                      /\ nodes[t] \in SchedulerNode
                      /\ nodes'[t] \in SchedulerNode
                      /\ nodes'[t].parent = nodes[t].parent
                      /\ nodes'[t].root = nodes[t].root
                      /\ nodes'[t].checkout = nodes[t].checkout
                      /\ nodes'[t].perms = nodes[t].perms
                      /\ nodes'[t].status = IF t \in S THEN terminal[t]
                                                         ELSE nodes[t].status
    OBVIOUS
  <2>1. nodes[t] \in SchedulerNode
    BY DEF ControlTypeOK
  <2>2. nodes'[t] = IF t \in S THEN [nodes[t] EXCEPT !.status = terminal[t]]
                               ELSE nodes[t]
    BY <1>2
  <2>3. terminal[t] \in NodeStatus
    BY DEF NodeStatus
  <2>4. [nodes[t] EXCEPT !.status = terminal[t]] \in SchedulerNode
    BY <2>1, <2>3 DEF SchedulerNode
  <2> QED
    BY <2>1, <2>2, <2>3, <2>4 DEF SchedulerNode
<1>4. /\ Active' = Active \ running
      /\ \A q \in Tasks : ActiveUnder(q)' = ActiveUnder(q) \ running
      /\ \A q \in Tasks : TrackedUnder(q)' = TrackedUnder(q) \ S
  <2>1. \A t \in S : nodes'[t].status \in {"completed", "cancelled"}
    BY <1>1, <1>3
  <2>2. \A t \in Tasks : nodes'[t].status = "active" <=> t \in Active /\ t \notin running
    BY <1>1, <1>3, <2>1 DEF Active
  <2>3. Active' = Active \ running
    BY <2>2 DEF Active
  <2>4. \A q \in Tasks : ActiveUnder(q)' = ActiveUnder(q) \ running
    BY <1>1, <1>3, <2>3 DEF ActiveUnder
  <2>5. \A t \in Tasks : isTaskTracked(t)' <=> isTaskTracked(t) /\ t \notin S
    BY <1>3, <2>1 DEF isTaskTracked
  <2>6. \A q \in Tasks : TrackedUnder(q)' = TrackedUnder(q) \ S
    BY <1>3, <2>5 DEF TrackedUnder
  <2> QED
    BY <2>3, <2>4, <2>6
<1>5. \A q \in Tasks : q # r => ActiveUnder(q) \cap running = {}
  BY <1>1 DEF ActiveUnder, TrackedUnder
<1>6. /\ Cardinality(running) \in Nat
      /\ Cardinality(running) <= Cardinality(ActiveUnder(r))
      /\ Cardinality(running) <= Cardinality(Active)
      /\ Cardinality(Active \ running) = Cardinality(Active) - Cardinality(running)
      /\ Cardinality(ActiveUnder(r) \ running)
           = Cardinality(ActiveUnder(r)) - Cardinality(running)
  BY <1>1, TaskSets
<1>7. RootCountWithout(r, running) = Less(activeByRoot[r], Cardinality(running))
  BY <1>1 DEF RootCountWithout, ActiveUnder
<1>8. SlotAccounting'
  <2>1. globalActive' = Cardinality(Active')
    BY <1>2, <1>4, <1>6 DEF SlotAccounting, Less, ControlTypeOK
  <2>2. activeByRoot'[r] = Cardinality(ActiveUnder(r)')
    BY <1>2, <1>4, <1>6, <1>7 DEF SlotAccounting, Less, ControlTypeOK
  <2>3. ASSUME NEW q \in Tasks, q # r
        PROVE  activeByRoot'[q] = Cardinality(ActiveUnder(q)')
    <3>1. ActiveUnder(q)' = ActiveUnder(q)
      BY <1>4, <1>5, <2>3
    <3> QED
      BY <1>2, <2>3, <3>1 DEF SlotAccounting, ControlTypeOK
  <2> QED
    BY <2>1, <2>2, <2>3 DEF SlotAccounting
<1>9. \A q \in Tasks :
        /\ ledgers'[q].open = ledgers[q].open
        /\ ledgers'[q].holders = IF q = r THEN ledgers[q].holders \ running
                                          ELSE ledgers[q].holders
  BY DEF Leave, reconcileDispatch, ControlTypeOK
<1>10. ReservationsMatchActive'
  <2> SUFFICES ASSUME NEW q \in Tasks, NEW t \in Tasks
               PROVE  t \in ledgers'[q].holders <=>
                        nodes'[t].status = "active" /\ nodes'[t].root = q
    BY DEF ReservationsMatchActive
  <2>1. t \in ledgers[q].holders <=> nodes[t].status = "active" /\ nodes[t].root = q
    BY DEF ReservationsMatchActive
  <2>2. nodes'[t].status = "active" <=> nodes[t].status = "active" /\ t \notin running
    BY <1>4 DEF Active
  <2>3. t \in running => nodes[t].root = r
    BY <1>1 DEF ActiveUnder
  <2> QED
    BY <1>3, <1>9, <2>1, <2>2, <2>3
<1>11. /\ writeByCheckout' = [c \in Checkouts |->
            IF \E t \in running : writeByTask[t] = c /\ writeByCheckout[c] = t
            THEN NoTask ELSE writeByCheckout[c]]
       /\ writeByTask' = [t \in Tasks |-> IF t \in running THEN NoCheckout
                                                          ELSE writeByTask[t]]
  BY DEF Leave, releaseWriteOwnership
<1>12. SerializedWriters'
  <2>1. \A t, u \in Active' :
          /\ envelopeRequiresWriteOwnership(nodes'[t])
          /\ envelopeRequiresWriteOwnership(nodes'[u])
          /\ nodes'[t].checkout = nodes'[u].checkout
          => t = u
    <3>1. Active' \subseteq Active
      BY <1>4
    <3> QED
      BY <1>1, <1>3, <3>1 DEF SerializedWriters, envelopeRequiresWriteOwnership
  <2>2. ASSUME NEW t \in Tasks
        PROVE writeByTask'[t] =
                IF t \in Active' /\ envelopeRequiresWriteOwnership(nodes'[t])
                THEN nodes'[t].checkout ELSE NoCheckout
    <3>1. writeByTask[t] =
            IF t \in Active /\ envelopeRequiresWriteOwnership(nodes[t])
            THEN nodes[t].checkout ELSE NoCheckout
      BY DEF SerializedWriters
    <3> QED
      BY <1>3, <1>4, <1>11, <3>1 DEF envelopeRequiresWriteOwnership
  <2>3. ASSUME NEW t \in Tasks, NEW c \in Checkouts
        PROVE  writeByCheckout'[c] = t <=> writeByTask'[t] = c
    <3>1. \A u \in Tasks : writeByCheckout[c] = u <=> writeByTask[u] = c
      BY DEF SerializedWriters
    <3> QED
      BY <1>1, <1>11, <3>1, SchedulerAssumption
  <2> QED
    BY <2>1, <2>2, <2>3 DEF SerializedWriters
<1>13. ControlTypeOK'
  <2>1. nodes' \in [Tasks -> SchedulerNode]
    BY <1>2, <1>3
  <2>2. globalActive' \in Nat /\ activeByRoot' \in [Tasks -> Nat]
    BY <1>2, <1>6, <1>7 DEF ControlTypeOK, Less
  <2>3. ledgers' = [q \in Tasks |-> ledgers'[q]]
    BY DEF Leave, ControlTypeOK
  <2>4. \A q \in Tasks : ledgers'[q].open \in BOOLEAN /\ ledgers'[q].holders \subseteq Tasks
    BY <1>9 DEF ControlTypeOK
  <2>5. /\ writeByCheckout' \in [Checkouts -> Tasks \cup {NoTask}]
        /\ writeByTask' \in [Tasks -> Checkouts \cup {NoCheckout}]
    BY <1>11 DEF ControlTypeOK
  <2> QED
    BY <2>1, <2>2, <2>3, <2>4, <2>5 DEF ControlTypeOK
<1>14. RootsAreRoots'
  <2>1. \A t \in Tasks : nodes'[t].status # "absent" => nodes[t].status # "absent"
    BY <1>3 DEF TrackedUnder, isTaskTracked
  <2>2. \A t \in Tasks : nodes'[t].status # "absent" =>
          /\ nodes'[t].parent \in ParentChoices[t]
          /\ nodes'[t].root \in Tasks
          /\ NoTask \in ParentChoices[nodes'[t].root]
          /\ nodes'[t].parent = NoTask => nodes'[t].root = t
          /\ nodes'[t].checkout \in Checkouts
    BY <1>3, <2>1 DEF RootsAreRoots
  <2>3. \A q \in Tasks : IF ledgers'[q].open THEN NoTask \in ParentChoices[q]
                                           ELSE ledgers'[q].holders = {}
    BY <1>9 DEF RootsAreRoots
  <2> QED
    BY <2>2, <2>3 DEF RootsAreRoots
<1> QED
  BY <1>4, <1>8, <1>10, <1>12, <1>13, <1>14

\* A dispatch of a present or new node starts: every invariant survives.
LEMMA StartStep ==
  ASSUME IndInv,
         NEW t \in Tasks, NEW n \in SchedulerNode,
         nodes[t].status # "active",
         n.status = "queued",
         n.parent \in ParentChoices[t], n.root \in Tasks, n.checkout \in Checkouts,
         NoTask \in ParentChoices[n.root],
         n.parent = NoTask => n.root = t,
         CanStart(t, n), Start(t, n), cancelled' = cancelled
  PROVE  IndInv'
<1> DEFINE r == n.root
<1> USE DEF IndInv
<1>1. /\ t \notin Active
      /\ Active \subseteq Tasks
      /\ \A q \in Tasks : ActiveUnder(q) \subseteq Active
  BY DEF Active, ActiveUnder
<1>2. \A u \in Tasks : u # t => nodes'[u] = nodes[u]
  BY DEF Start, ControlTypeOK
<1>3. /\ nodes' \in [Tasks -> SchedulerNode]
      /\ nodes'[t].status = "active"
      /\ nodes'[t].parent = n.parent
      /\ nodes'[t].root = r
      /\ nodes'[t].checkout = n.checkout
      /\ nodes'[t].perms = n.perms
  <2>1. [n EXCEPT !.status = "active"] \in SchedulerNode
    BY DEF SchedulerNode, NodeStatus
  <2>2. nodes'[t] = [n EXCEPT !.status = "active"]
    BY DEF Start, ControlTypeOK
  <2> QED
    BY <2>1, <2>2 DEF Start, ControlTypeOK, SchedulerNode
<1>4. /\ Active' = Active \cup {t}
      /\ \A q \in Tasks : ActiveUnder(q)' = IF q = r THEN ActiveUnder(q) \cup {t}
                                                  ELSE ActiveUnder(q)
  <2>1. Active' = Active \cup {t}
    BY <1>2, <1>3 DEF Active
  <2>2. \A u \in Tasks, q \in Tasks :
          u \in ActiveUnder(q)' <=> u \in ActiveUnder(q) \/ (u = t /\ q = r)
    BY <1>1, <1>2, <1>3, <2>1 DEF ActiveUnder
  <2> QED
    BY <1>1, <2>1, <2>2 DEF ActiveUnder
<1>5. SlotAccounting'
  <2>1. /\ Cardinality(Active') = Cardinality(Active) + 1
        /\ Cardinality(ActiveUnder(r)') = Cardinality(ActiveUnder(r)) + 1
    BY <1>1, <1>4, TaskSetsAdd
  <2>2. globalActive' = globalActive + 1
    BY DEF Start
  <2>3. \A q \in Tasks : activeByRoot'[q] = IF q = r THEN activeByRoot[q] + 1
                                                   ELSE activeByRoot[q]
    BY DEF Start, ControlTypeOK
  <2> QED
    BY <1>4, <2>1, <2>2, <2>3 DEF SlotAccounting
<1>6. /\ ledgers'[r].open
      /\ ledgers'[r].open \in BOOLEAN
      /\ ledgers'[r].holders = ledgers[r].holders \cup {t}
      /\ \A q \in Tasks : q # r => ledgers'[q] = ledgers[q]
  <2>1. /\ ensureRootLedger(r).open
        /\ ensureRootLedger(r).open \in BOOLEAN
        /\ ensureRootLedger(r).holders = ledgers[r].holders
    BY DEF ensureRootLedger, createRootBudgetLedger, RootsAreRoots, ControlTypeOK
  <2>2. /\ ledgers'[r].open = ensureRootLedger(r).open
        /\ ledgers'[r].holders = ensureRootLedger(r).holders \cup {t}
    BY DEF Start, tryReserveDispatch, ControlTypeOK
  <2>3. \A q \in Tasks : q # r => ledgers'[q] = ledgers[q]
    BY DEF Start, ControlTypeOK
  <2> QED
    BY <2>1, <2>2, <2>3
<1>7. ReservationsMatchActive'
  <2> SUFFICES ASSUME NEW q \in Tasks, NEW u \in Tasks
               PROVE  u \in ledgers'[q].holders <=>
                        nodes'[u].status = "active" /\ nodes'[u].root = q
    BY DEF ReservationsMatchActive
  <2>1. u \in ledgers[q].holders <=> nodes[u].status = "active" /\ nodes[u].root = q
    BY DEF ReservationsMatchActive
  <2>2. CASE u = t
    <3>1. t \notin ledgers[q].holders
      BY <2>1, <2>2
    <3>2. t \in ledgers'[q].holders <=> q = r
      <4>1. CASE q = r
        BY <1>6, <4>1
      <4>2. CASE q # r
        BY <1>6, <3>1, <4>2
      <4> QED
        BY <4>1, <4>2
    <3> QED
      BY <1>3, <2>2, <3>2
  <2>3. CASE u # t
    <3>1. u \in ledgers'[q].holders <=> u \in ledgers[q].holders
      <4>1. CASE q = r
        BY <1>6, <2>3, <4>1
      <4>2. CASE q # r
        BY <1>6, <4>2
      <4> QED
        BY <4>1, <4>2
    <3> QED
      BY <1>2, <2>1, <2>3, <3>1
  <2> QED
    BY <2>2, <2>3
<1>8. writeByTask[t] = NoCheckout /\ \A c \in Checkouts : writeByCheckout[c] # t
  BY <1>1, SchedulerAssumption DEF SerializedWriters
<1>9. envelopeRequiresWriteOwnership(n) => writeByCheckout[n.checkout] = NoTask
  BY <1>8 DEF CanStart, canAcquireWriteOwnership
<1>10. /\ \A c \in Checkouts :
             writeByCheckout'[c] = IF envelopeRequiresWriteOwnership(n) /\ c = n.checkout
                                   THEN t ELSE writeByCheckout[c]
       /\ \A u \in Tasks :
             writeByTask'[u] = IF envelopeRequiresWriteOwnership(n) /\ u = t
                               THEN n.checkout ELSE writeByTask[u]
       /\ writeByCheckout' \in [Checkouts -> Tasks \cup {NoTask}]
       /\ writeByTask' \in [Tasks -> Checkouts \cup {NoCheckout}]
  BY <1>9 DEF Start, tryAcquireWriteOwnership, ControlTypeOK
<1>11. \A u \in Active :
         envelopeRequiresWriteOwnership(nodes[u]) =>
           writeByCheckout[nodes[u].checkout] = u
  BY <1>1 DEF SerializedWriters, RootsAreRoots, Active
<1>12. SerializedWriters'
  <2>1. ASSUME NEW u \in Active', NEW v \in Active',
               envelopeRequiresWriteOwnership(nodes'[u]),
               envelopeRequiresWriteOwnership(nodes'[v]),
               nodes'[u].checkout = nodes'[v].checkout
        PROVE  u = v
    <3>1. CASE u # t /\ v # t
      BY <1>1, <1>2, <1>4, <2>1, <3>1 DEF SerializedWriters
    <3>2. ASSUME NEW w \in Active, w # t, envelopeRequiresWriteOwnership(nodes'[w]),
                 envelopeRequiresWriteOwnership(nodes'[t]),
                 nodes'[w].checkout = nodes'[t].checkout
          PROVE  FALSE
      BY <1>1, <1>2, <1>3, <1>9, <1>11, <3>2, SchedulerAssumption
         DEF envelopeRequiresWriteOwnership
    <3> QED
      BY <1>4, <2>1, <3>1, <3>2
  <2>2. ASSUME NEW u \in Tasks
        PROVE  writeByTask'[u] =
                 IF u \in Active' /\ envelopeRequiresWriteOwnership(nodes'[u])
                 THEN nodes'[u].checkout ELSE NoCheckout
    <3>1. CASE u = t
      BY <1>3, <1>4, <1>8, <1>10, <3>1 DEF envelopeRequiresWriteOwnership
    <3>2. CASE u # t
      <4>1. writeByTask[u] = IF u \in Active /\ envelopeRequiresWriteOwnership(nodes[u])
                             THEN nodes[u].checkout ELSE NoCheckout
        BY DEF SerializedWriters
      <4> QED
        BY <1>2, <1>4, <1>10, <3>2, <4>1 DEF envelopeRequiresWriteOwnership
    <3> QED
      BY <3>1, <3>2
  <2>3. ASSUME NEW u \in Tasks, NEW c \in Checkouts
        PROVE  writeByCheckout'[c] = u <=> writeByTask'[u] = c
    <3>1. writeByCheckout[c] = u <=> writeByTask[u] = c
      BY DEF SerializedWriters
    <3> QED
      BY <1>8, <1>9, <1>10, <3>1, SchedulerAssumption
  <2> QED
    BY <2>1, <2>2, <2>3 DEF SerializedWriters
<1>13. ControlTypeOK'
  <2>1. globalActive' \in Nat /\ activeByRoot' \in [Tasks -> Nat]
    BY DEF Start, ControlTypeOK
  <2>2. ledgers' = [q \in Tasks |-> ledgers'[q]]
    BY DEF Start, ControlTypeOK
  <2>3. ASSUME NEW q \in Tasks
        PROVE  ledgers'[q].open \in BOOLEAN /\ ledgers'[q].holders \subseteq Tasks
    <3>1. ledgers[q].open \in BOOLEAN /\ ledgers[q].holders \subseteq Tasks
      BY DEF ControlTypeOK
    <3>2. CASE q = r
      BY <1>6, <3>1, <3>2
    <3>3. CASE q # r
      BY <1>6, <3>1, <3>3
    <3> QED
      BY <3>2, <3>3
  <2> QED
    BY <1>3, <1>10, <2>1, <2>2, <2>3 DEF ControlTypeOK
<1>14. RootsAreRoots'
  <2>1. ASSUME NEW u \in Tasks, nodes'[u].status # "absent"
        PROVE  /\ nodes'[u].parent \in ParentChoices[u]
               /\ nodes'[u].root \in Tasks
               /\ NoTask \in ParentChoices[nodes'[u].root]
               /\ nodes'[u].parent = NoTask => nodes'[u].root = u
               /\ nodes'[u].checkout \in Checkouts
    BY <1>2, <1>3, <2>1 DEF RootsAreRoots
  <2>2. \A q \in Tasks : IF ledgers'[q].open THEN NoTask \in ParentChoices[q]
                                           ELSE ledgers'[q].holders = {}
    BY <1>6 DEF RootsAreRoots
  <2> QED
    BY <2>1, <2>2 DEF RootsAreRoots
<1>15. CancelledRootIsQuiet'
  <2> SUFFICES ASSUME NEW q \in Tasks, isRootCancelled(q)'
               PROVE  TrackedUnder(q)' = {}
    BY DEF CancelledRootIsQuiet
  <2>1. isRootCancelled(q)
    BY DEF isRootCancelled
  <2>2. q # r
    BY <2>1 DEF CanStart
  <2>3. TrackedUnder(q) = {}
    BY <2>1 DEF CancelledRootIsQuiet
  <2> QED
    BY <1>2, <1>3, <2>2, <2>3 DEF TrackedUnder, isTaskTracked
<1> QED
  BY <1>5, <1>7, <1>12, <1>13, <1>14, <1>15

\* A task that does not run is queued, or its node removed: nothing that is
\* counted, reserved or owned changes.
LEMMA IdleStep ==
  ASSUME IndInv,
         NEW t \in Tasks, NEW n \in SchedulerNode,
         nodes[t].status # "active",
         n.status \in {"absent", "queued"},
         n.status = "queued" =>
           /\ n.parent \in ParentChoices[t]
           /\ n.root \in Tasks
           /\ n.checkout \in Checkouts
           /\ NoTask \in ParentChoices[n.root]
           /\ n.parent = NoTask => n.root = t
           /\ ~isRootCancelled(n.root),
         nodes' = [nodes EXCEPT ![t] = n],
         UNCHANGED <<globalActive, activeByRoot, ledgers, cancelled,
                     writeByCheckout, writeByTask>>
  PROVE  IndInv'
<1> USE DEF IndInv
<1>1. /\ nodes' \in [Tasks -> SchedulerNode]
      /\ nodes'[t] = n
      /\ \A u \in Tasks : u # t => nodes'[u] = nodes[u]
  BY DEF ControlTypeOK
<1>2. /\ Active' = Active
      /\ \A q \in Tasks : ActiveUnder(q)' = ActiveUnder(q)
      /\ \A u \in Active : nodes'[u] = nodes[u]
  <2>1. \A u \in Tasks : nodes'[u].status = "active" <=> nodes[u].status = "active"
    BY <1>1
  <2>2. Active' = Active
    BY <2>1 DEF Active
  <2>3. \A u \in Active : nodes'[u] = nodes[u]
    BY <1>1 DEF Active
  <2> QED
    BY <2>2, <2>3 DEF ActiveUnder
<1>3. ControlTypeOK'
  BY <1>1 DEF ControlTypeOK
<1>4. RootsAreRoots'
  <2>1. ASSUME NEW u \in Tasks, nodes'[u].status # "absent"
        PROVE  /\ nodes'[u].parent \in ParentChoices[u]
               /\ nodes'[u].root \in Tasks
               /\ NoTask \in ParentChoices[nodes'[u].root]
               /\ nodes'[u].parent = NoTask => nodes'[u].root = u
               /\ nodes'[u].checkout \in Checkouts
    BY <1>1, <2>1 DEF RootsAreRoots
  <2> QED
    BY <2>1 DEF RootsAreRoots
<1>5. SlotAccounting'
  BY <1>2 DEF SlotAccounting
<1>6. ReservationsMatchActive'
  <2> SUFFICES ASSUME NEW q \in Tasks, NEW u \in Tasks
               PROVE  u \in ledgers'[q].holders <=>
                        nodes'[u].status = "active" /\ nodes'[u].root = q
    BY DEF ReservationsMatchActive
  <2>1. u \in ledgers[q].holders <=> nodes[u].status = "active" /\ nodes[u].root = q
    BY DEF ReservationsMatchActive
  <2>2. CASE u = t
    BY <1>1, <2>1, <2>2
  <2>3. CASE u # t
    BY <1>1, <2>1, <2>3
  <2> QED
    BY <2>2, <2>3
<1>7. SerializedWriters'
  <2>1. \A u \in Tasks :
          writeByTask[u] = IF u \in Active /\ envelopeRequiresWriteOwnership(nodes'[u])
                           THEN nodes'[u].checkout ELSE NoCheckout
    BY <1>2 DEF SerializedWriters
  <2> QED
    BY <1>2, <2>1 DEF SerializedWriters
<1>8. CancelledRootIsQuiet'
  <2> SUFFICES ASSUME NEW q \in Tasks, isRootCancelled(q)'
               PROVE  TrackedUnder(q)' = {}
    BY DEF CancelledRootIsQuiet
  <2>1. isRootCancelled(q) /\ TrackedUnder(q) = {}
    BY DEF isRootCancelled, CancelledRootIsQuiet
  <2>2. ~(isTaskTracked(t)' /\ nodes'[t].root = q)
    BY <1>1, <2>1 DEF isTaskTracked
  <2> QED
    BY <1>1, <2>1, <2>2 DEF TrackedUnder, isTaskTracked
<1> QED
  BY <1>3, <1>4, <1>5, <1>6, <1>7, <1>8

\* The node of a validated request is a well-placed node of a live root.
LEMMA ValidatedNode ==
  ASSUME RootsStayRoots, IndInv,
         NEW t \in Tasks, NEW p \in ParentChoices[t], NEW c \in Checkouts,
         NEW perms \in PermissionChoices,
         validateDispatchAdmission(t, p, perms)
  PROVE  LET n == QueuedNode(t, p, c, perms) IN
         /\ n \in SchedulerNode
         /\ n.status = "queued"
         /\ nodes[t].status # "active"
         /\ n.parent \in ParentChoices[t]
         /\ n.root \in Tasks
         /\ n.checkout \in Checkouts
         /\ NoTask \in ParentChoices[n.root]
         /\ n.parent = NoTask => n.root = t
         /\ ~isRootCancelled(n.root)
<1> USE DEF IndInv
<1>1. p \in Tasks \cup {NoTask} /\ perms \in SUBSET {"read", "write"}
  BY SchedulerAssumption
<1>2. nodes[t].status # "active"
  BY DEF validateDispatchAdmission, isTaskTracked
<1>3. CASE p = NoTask
  <2>1. RootUnder(t, p) = t /\ DepthUnder(p) = 0 /\ ~isRootCancelled(t)
    BY <1>3 DEF RootUnder, DepthUnder, validateDispatchAdmission
  <2> QED
    BY <1>1, <1>2, <1>3, <2>1 DEF QueuedNode, SchedulerNode, NodeStatus
<1>4. CASE p # NoTask
  <2>1. p \in Tasks /\ nodes[p] \in SchedulerNode
    BY <1>1, <1>4 DEF ControlTypeOK
  <2>2. nodes[p].status # "absent" /\ ~isRootCancelled(nodes[p].root)
    BY <1>4 DEF validateDispatchAdmission
  <2>3. nodes[p].root \in Tasks /\ NoTask \in ParentChoices[nodes[p].root]
    BY <2>1, <2>2 DEF RootsAreRoots
  <2>4. RootUnder(t, p) = nodes[p].root /\ DepthUnder(p) = nodes[p].depth + 1
    BY <1>4 DEF RootUnder, DepthUnder
  <2>5. DepthUnder(p) \in Nat
    BY <2>1, <2>4 DEF SchedulerNode
  <2> QED
    BY <1>1, <1>2, <1>4, <2>1, <2>2, <2>3, <2>4, <2>5
       DEF QueuedNode, SchedulerNode, NodeStatus
<1> QED
  BY <1>3, <1>4

LEMMA InitIndInv == Init => IndInv
<1> SUFFICES ASSUME Init PROVE IndInv
  OBVIOUS
<1>1. /\ \A t \in Tasks : nodes[t] = NoNode
      /\ \A r \in Tasks : ~ledgers[r].open /\ ledgers[r].open \in BOOLEAN
                          /\ ledgers[r].holders = {}
  BY DEF Init, NoLedger
<1>2. NoNode.status = "absent" /\ NoNode \in SchedulerNode
  BY DEF NoNode, SchedulerNode, NodeStatus
<1>3. Active = {} /\ \A r \in Tasks : ActiveUnder(r) = {}
  BY <1>1, <1>2 DEF Active, ActiveUnder
<1>4. ControlTypeOK
  <2>1. nodes \in [Tasks -> SchedulerNode]
    BY <1>2 DEF Init
  <2> QED
    BY <1>1, <2>1 DEF Init, ControlTypeOK
<1>5. RootsAreRoots
  BY <1>1, <1>2 DEF RootsAreRoots
<1>6. SlotAccounting
  BY <1>3, FS_EmptySet DEF Init, SlotAccounting
<1>7. ReservationsMatchActive
  BY <1>1, <1>2 DEF ReservationsMatchActive
<1>8. SerializedWriters
  BY <1>3, SchedulerAssumption DEF Init, SerializedWriters
<1>9. CancelledRootIsQuiet
  BY DEF Init, CancelledRootIsQuiet, isRootCancelled
<1> QED
  BY <1>4, <1>5, <1>6, <1>7, <1>8, <1>9 DEF IndInv

\* What a whole root or a single dispatch leaves behind is quiet where it must
\* be: the roots that were cancelled before and the one cancelled now.
LEMMA QuietAfterLeave ==
  ASSUME CancelledRootIsQuiet, NEW r \in Tasks, NEW S,
         \A q \in Tasks : TrackedUnder(q)' = TrackedUnder(q) \ S,
         \A q \in Tasks : isRootCancelled(q)' => isRootCancelled(q) \/ q = r,
         isRootCancelled(r)' => isRootCancelled(r) \/ TrackedUnder(r) \subseteq S
  PROVE  CancelledRootIsQuiet'
<1> SUFFICES ASSUME NEW q \in Tasks, isRootCancelled(q)'
             PROVE  TrackedUnder(q)' = {}
  BY DEF CancelledRootIsQuiet
<1>1. CASE isRootCancelled(q)
  BY <1>1 DEF CancelledRootIsQuiet
<1>2. CASE ~isRootCancelled(q)
  BY <1>2
<1> QED
  BY <1>1, <1>2

LEMMA CancelRootStep ==
  ASSUME RootsStayRoots, IndInv, NEW r \in Tasks, NEW actuals, cancelRoot(r, actuals)
  PROVE  IndInv'
<1> USE DEF IndInv
<1>1. Cancellable(r) = TrackedUnder(r)
  BY CancellableIsTracked DEF cancelRoot
<1>2. [t \in Tasks |-> "cancelled"] \in [Tasks -> {"completed", "cancelled"}]
  OBVIOUS
<1>3. cancelled' \in [Tasks -> {NotCancelled, ROOT_CANCELLED_REASON,
                                ROOT_WALL_TIME_EXHAUSTED_REASON}]
  BY DEF cancelRoot, ControlTypeOK
<1>4. /\ ControlTypeOK' /\ RootsAreRoots' /\ SlotAccounting'
      /\ ReservationsMatchActive' /\ SerializedWriters'
      /\ \A q \in Tasks : TrackedUnder(q)' = TrackedUnder(q) \ TrackedUnder(r)
  <2>1. Leave(r, TrackedUnder(r), [t \in Tasks |-> "cancelled"], actuals)
    BY <1>1 DEF cancelRoot
  <2> QED
    BY <1>2, <1>3, <2>1, LeaveStep
<1>5. \A q \in Tasks : isRootCancelled(q)' => isRootCancelled(q) \/ q = r
  BY DEF cancelRoot, isRootCancelled, ControlTypeOK
<1>6. CancelledRootIsQuiet'
  BY <1>4, <1>5, QuietAfterLeave
<1> QED
  BY <1>4, <1>6

LEMMA FinishStep ==
  ASSUME RootsStayRoots, IndInv, NEW t \in Tasks, NEW actuals,
         NEW terminal \in {"completed", "cancelled"},
         finishDispatch(t, actuals, terminal)
  PROVE  IndInv'
<1> USE DEF IndInv
<1>0. nodes[t].root \in Tasks
  BY DEF finishDispatch, RootsAreRoots
<1> PICK r \in Tasks : nodes[t].root = r
  BY <1>0
<1> DEFINE rest == IF WallExhaustedWithout(r, t) THEN Cancellable(r) \ {t} ELSE {}
           S == {t} \cup rest
           ends == [x \in Tasks |-> IF x = t THEN terminal ELSE "cancelled"]
           charged == [x \in Tasks |-> IF x = t THEN actuals ELSE UnknownActuals]
<1>1. /\ nodes[t].status = "active"
      /\ Leave(r, S, ends, charged)
      /\ cancelled' = IF WallExhaustedWithout(r, t)
                      THEN [cancelled EXCEPT ![r] = ROOT_WALL_TIME_EXHAUSTED_REASON]
                      ELSE cancelled
  BY DEF finishDispatch
<1>2. t \in TrackedUnder(r)
  BY <1>1 DEF TrackedUnder, isTaskTracked
<1>3. Cancellable(r) = TrackedUnder(r)
  BY <1>2, CancellableIsTracked
<1>4. S \in SUBSET TrackedUnder(r)
  BY <1>2, <1>3
<1>5. ends \in [Tasks -> {"completed", "cancelled"}]
  OBVIOUS
<1>6. cancelled' \in [Tasks -> {NotCancelled, ROOT_CANCELLED_REASON,
                                ROOT_WALL_TIME_EXHAUSTED_REASON}]
  BY <1>1, <1>2 DEF ControlTypeOK
<1>7. /\ ControlTypeOK' /\ RootsAreRoots' /\ SlotAccounting'
      /\ ReservationsMatchActive' /\ SerializedWriters'
      /\ \A q \in Tasks : TrackedUnder(q)' = TrackedUnder(q) \ S
  <2> HIDE DEF S, ends, charged
  <2> QED
    BY <1>1, <1>2, <1>4, <1>5, <1>6, LeaveStep
<1>8. CancelledRootIsQuiet'
  <2>1. \A q \in Tasks : isRootCancelled(q)' => isRootCancelled(q) \/ q = r
    BY <1>1, <1>2 DEF isRootCancelled, ControlTypeOK
  <2>2. isRootCancelled(r)' => isRootCancelled(r) \/ TrackedUnder(r) \subseteq S
    BY <1>1, <1>2, <1>3 DEF isRootCancelled
  <2> HIDE DEF S
  <2> QED
    BY <1>2, <1>7, <2>1, <2>2, QuietAfterLeave
<1> QED
  BY <1>7, <1>8

LEMMA NextIndInv == RootsStayRoots /\ IndInv /\ [Next]_vars => IndInv'
<1> SUFFICES ASSUME RootsStayRoots, IndInv, [Next]_vars
             PROVE  IndInv'
  OBVIOUS
<1>1. ASSUME NEW t \in Tasks, NEW p \in ParentChoices[t], NEW c \in Checkouts,
             NEW perms \in PermissionChoices, queueDispatch(t, p, c, perms)
      PROVE  IndInv'
  <2> DEFINE n == QueuedNode(t, p, c, perms)
  <2>1. nodes' = [nodes EXCEPT ![t] = n]
    BY <1>1 DEF queueDispatch
  <2>2. UNCHANGED <<globalActive, activeByRoot, ledgers, cancelled,
                    writeByCheckout, writeByTask>>
    BY <1>1 DEF queueDispatch
  <2>3. /\ n \in SchedulerNode /\ n.status = "queued" /\ nodes[t].status # "active"
        /\ n.parent \in ParentChoices[t] /\ n.root \in Tasks /\ n.checkout \in Checkouts
        /\ NoTask \in ParentChoices[n.root]
        /\ n.parent = NoTask => n.root = t
        /\ ~isRootCancelled(n.root)
    BY <1>1, ValidatedNode DEF queueDispatch
  <2> HIDE DEF n
  <2> QED
    BY <2>1, <2>2, <2>3, IdleStep
<1>2. ASSUME NEW t \in Tasks, NEW p \in ParentChoices[t], NEW c \in Checkouts,
             NEW perms \in PermissionChoices, admitDispatch(t, p, c, perms)
      PROVE  IndInv'
  <2> DEFINE n == QueuedNode(t, p, c, perms)
  <2>1. CanStart(t, n) /\ Start(t, n) /\ cancelled' = cancelled
    BY <1>2 DEF admitDispatch
  <2>2. /\ n \in SchedulerNode /\ n.status = "queued" /\ nodes[t].status # "active"
        /\ n.parent \in ParentChoices[t] /\ n.root \in Tasks /\ n.checkout \in Checkouts
        /\ NoTask \in ParentChoices[n.root]
        /\ n.parent = NoTask => n.root = t
    BY <1>2, ValidatedNode DEF admitDispatch
  <2> HIDE DEF n
  <2> QED
    BY <2>1, <2>2, StartStep
<1>3. ASSUME NEW t \in Tasks, NEW p \in ParentChoices[t], NEW c \in Checkouts,
             NEW perms \in PermissionChoices, admitDispatchDenied(t, p, c, perms)
      PROVE  IndInv'
  <2>1. /\ nodes' = [nodes EXCEPT ![t] = NoNode]
        /\ UNCHANGED <<globalActive, activeByRoot, ledgers, cancelled,
                       writeByCheckout, writeByTask>>
    BY <1>3 DEF admitDispatchDenied
  <2>2. NoNode \in SchedulerNode /\ NoNode.status = "absent"
    BY DEF NoNode, SchedulerNode, NodeStatus
  <2>3. nodes[t].status # "active"
    BY <1>3 DEF admitDispatchDenied, validateDispatchAdmission, isTaskTracked
  <2> QED
    BY <2>1, <2>2, <2>3, IdleStep
<1>4. ASSUME NEW t \in Tasks, startQueuedDispatch(t)
      PROVE  IndInv'
  <2> DEFINE n == nodes[t]
  <2>1. /\ CanStart(t, n) /\ Start(t, n) /\ cancelled' = cancelled
        /\ n.status = "queued"
    BY <1>4 DEF startQueuedDispatch
  <2>2. n \in SchedulerNode
    BY DEF IndInv, ControlTypeOK
  <2>3. /\ n.parent \in ParentChoices[t] /\ n.root \in Tasks /\ n.checkout \in Checkouts
        /\ NoTask \in ParentChoices[n.root]
        /\ n.parent = NoTask => n.root = t
    BY <2>1 DEF IndInv, RootsAreRoots
  <2> HIDE DEF n
  <2>4. nodes[t].status # "active"
    BY <2>1 DEF n
  <2> QED
    BY <2>1, <2>2, <2>3, <2>4, StartStep
<1>5. ASSUME NEW t \in Tasks, NEW a \in ActualsChoices,
             completeDispatch(t, a) \/ cancelDispatch(t, a)
      PROVE  IndInv'
  BY <1>5, FinishStep DEF completeDispatch, cancelDispatch
<1>6. ASSUME NEW r \in Tasks, NEW actuals, cancelRoot(r, actuals)
      PROVE  IndInv'
  BY <1>6, CancelRootStep
<1>7. ASSUME UNCHANGED <<nodes, globalActive, activeByRoot, ledgers, cancelled,
                         writeByCheckout, writeByTask>>
      PROVE  IndInv'
  BY <1>7 DEF IndInv, ControlTypeOK, RootsAreRoots, SlotAccounting,
     ReservationsMatchActive, SerializedWriters, CancelledRootIsQuiet, Active,
     ActiveUnder, TrackedUnder, isTaskTracked, isRootCancelled
<1>8. CASE UNCHANGED vars
  BY <1>7, <1>8 DEF vars
<1>9. CASE Tick
  BY <1>7, <1>9 DEF Tick
<1>10. CASE \E t \in Tasks : submitRecommendation(t)
  BY <1>7, <1>10 DEF submitRecommendation
<1> QED
  BY <1>1, <1>2, <1>3, <1>4, <1>5, <1>6, <1>8, <1>9, <1>10 DEF Next

LEMMA SpecIndInv == RootsStayRoots => (Spec => []IndInv)
<1> SUFFICES ASSUME RootsStayRoots PROVE Spec => []IndInv
  OBVIOUS
<1>1. Init => IndInv
  BY InitIndInv
<1>2. IndInv /\ [Next]_vars => IndInv'
  BY NextIndInv
<1> QED
  BY <1>1, <1>2, PTL DEF Spec

\* Every counter of the scheduler counts what it is said to count, in every
\* reachable state: no slot leaks and none is freed twice
\* (delegation-scheduler.ts:433-435, 547-549, 615-617).
THEOREM SlotAccountingHolds == RootsStayRoots => (Spec => []SlotAccounting)
<1>1. IndInv => SlotAccounting
  BY DEF IndInv
<1> QED
  BY <1>1, SpecIndInv, PTL

\* A dispatch has a reservation in its own root's ledger exactly while it runs
\* (delegation-budget.ts:182, 252).
THEOREM ReservationsMatchActiveHolds ==
  RootsStayRoots => (Spec => []ReservationsMatchActive)
<1>1. IndInv => ReservationsMatchActive
  BY DEF IndInv
<1> QED
  BY <1>1, SpecIndInv, PTL

\* Running writers of one checkout are serialized and the two ownership tables
\* agree (delegation-worktree-sandbox.ts:259-300).
THEOREM SerializedWritersHolds == RootsStayRoots => (Spec => []SerializedWriters)
<1>1. IndInv => SerializedWriters
  BY DEF IndInv
<1> QED
  BY <1>1, SpecIndInv, PTL

\* No dispatch is queued or running under a cancelled root
\* (delegation-scheduler.ts:387-393, 478-584, 680-735).
THEOREM CancelledRootIsQuietHolds ==
  RootsStayRoots => (Spec => []CancelledRootIsQuiet)
<1>1. IndInv => CancelledRootIsQuiet
  BY DEF IndInv
<1> QED
  BY <1>1, SpecIndInv, PTL

----------------------------------------------------------------------------
(***************************************************************************)
(* The scheduler implements DispatchPool: a start is a Join, a completion  *)
(* is a Quit, a cancellation, by the caller or by an exhausted wall time,  *)
(* is a Disband, and everything else leaves the pool as it is.             *)
(***************************************************************************)

\* The pool and its teams are the running dispatches and those of each root.
LEMMA PoolView ==
  ASSUME IndInv
  PROVE  /\ DispatchPool!Pool = Active
         /\ \A r \in Tasks : DispatchPool!Team(r) = ActiveUnder(r)
<1>1. \A t \in Active : nodes[t].root \in Tasks /\ nodes[t].root # NoTask
  BY SchedulerAssumption DEF IndInv, RootsAreRoots, Active
<1> QED
  BY <1>1, SchedulerAssumption DEF DispatchPool!Pool, DispatchPool!Team, Active, ActiveUnder

\* A step that neither starts nor stops a dispatch does not move the pool.
LEMMA IdlePool ==
  ASSUME NEW t \in Tasks, NEW n, nodes[t].status # "active", n.status # "active",
         nodes \in [Tasks -> SchedulerNode],
         nodes' = [nodes EXCEPT ![t] = n],
         UNCHANGED <<cancelled, writeByTask>>
  PROVE  UNCHANGED DispatchPool!poolVars
<1>1. \A u \in Tasks : nodes'[u] = IF u = t THEN n ELSE nodes[u]
  OBVIOUS
<1>2. [u \in Tasks |-> IF nodes[u].status = "active" THEN nodes[u].root ELSE NoTask]'
        = [u \in Tasks |-> IF nodes[u].status = "active" THEN nodes[u].root ELSE NoTask]
  BY <1>1
<1>3. {r \in Tasks : isRootCancelled(r)}' = {r \in Tasks : isRootCancelled(r)}
  BY DEF isRootCancelled
<1> QED
  BY <1>2, <1>3 DEF DispatchPool!poolVars

\* The pool counts with its own instance of FiniteSets: the same operator.
LEMMA SameCardinality == \A S : DispatchPool!Cardinality(S) = Cardinality(S)
  BY DEF DispatchPool!Cardinality, Cardinality

LEMMA StartIsJoin ==
  ASSUME IndInv, NEW t \in Tasks, NEW n \in SchedulerNode,
         nodes[t].status # "active", n.root \in Tasks, n.checkout \in Checkouts,
         CanStart(t, n), Start(t, n), cancelled' = cancelled
  PROVE  DispatchPool!Next
<1> DEFINE c == IF envelopeRequiresWriteOwnership(n) THEN n.checkout ELSE NoCheckout
<1>1. t \notin DispatchPool!Pool
  BY PoolView DEF Active
<1>2. n.root \notin {r \in Tasks : isRootCancelled(r)}
  BY DEF CanStart
<1>3. /\ DispatchPool!Cardinality(DispatchPool!Pool) < MAX_GLOBAL_ACTIVE_CONCURRENCY
      /\ DispatchPool!Cardinality(DispatchPool!Team(n.root))
           < MAX_ROOT_ACTIVE_CONCURRENCY
  <2>1. /\ Cardinality(Active) < MAX_GLOBAL_ACTIVE_CONCURRENCY
        /\ Cardinality(ActiveUnder(n.root)) < MAX_ROOT_ACTIVE_CONCURRENCY
    BY DEF CanStart, IndInv, SlotAccounting
  <2> QED
    BY <2>1, PoolView, SameCardinality
<1>4. writeByTask[t] = NoCheckout
  BY DEF IndInv, SerializedWriters, Active
<1>5. envelopeRequiresWriteOwnership(n) =>
        /\ writeByCheckout[n.checkout] = NoTask
        /\ \A u \in Tasks : writeByTask[u] # n.checkout
  BY <1>4, SchedulerAssumption
     DEF CanStart, canAcquireWriteOwnership, IndInv, SerializedWriters
<1>6. c # NoCheckout => \A u \in Tasks : writeByTask[u] # c
  BY <1>5
<1>7. writeByTask' = [writeByTask EXCEPT ![t] = c]
  BY <1>4, <1>5 DEF Start, tryAcquireWriteOwnership, IndInv, ControlTypeOK
<1>8. /\ \A u \in Tasks : u # t => nodes'[u] = nodes[u]
      /\ nodes'[t].status = "active"
      /\ nodes'[t].root = n.root
  BY DEF Start, SchedulerNode, IndInv, ControlTypeOK
<1>9. [u \in Tasks |-> IF nodes[u].status = "active" THEN nodes[u].root ELSE NoTask]'
        = [[u \in Tasks |-> IF nodes[u].status = "active" THEN nodes[u].root ELSE NoTask]
             EXCEPT ![t] = n.root]
  BY <1>8 DEF Active
<1>10. {r \in Tasks : isRootCancelled(r)}' = {r \in Tasks : isRootCancelled(r)}
  BY DEF isRootCancelled
<1>11. c \in Checkouts \cup {NoCheckout}
  OBVIOUS
<1> HIDE DEF c
<1>12. DispatchPool!Join(t, n.root, c)
  <2>1. c # NoCheckout => \A u \in Tasks : writeByTask[u] # c
    BY <1>6
  <2>2. {r \in Tasks : isRootCancelled(r)}' = {r \in Tasks : isRootCancelled(r)}
    BY <1>10
  <2> QED
    BY <1>1, <1>2, <1>3, <1>7, <1>9, <2>1, <2>2 DEF DispatchPool!Join
<1> QED
  BY <1>11, <1>12 DEF DispatchPool!Next

\* What Leave does to the view of the pool.
LEMMA LeavePool ==
  ASSUME IndInv, NEW r \in Tasks, NEW S \in SUBSET TrackedUnder(r),
         NEW terminal \in [Tasks -> {"completed", "cancelled"}], NEW actuals,
         Leave(r, S, terminal, actuals)
  PROVE  /\ [u \in Tasks |-> IF nodes[u].status = "active" THEN nodes[u].root ELSE NoTask]'
             = [u \in Tasks |-> IF u \in S \cap Active THEN NoTask
                               ELSE IF nodes[u].status = "active" THEN nodes[u].root ELSE NoTask]
         /\ writeByTask' = [u \in Tasks |-> IF u \in S \cap Active THEN NoCheckout
                                            ELSE writeByTask[u]]
<1>1. nodes' = [t \in Tasks |->
         IF t \in S THEN [nodes[t] EXCEPT !.status = terminal[t]] ELSE nodes[t]]
  BY DEF Leave
<1>2. \A u \in Tasks :
        /\ nodes'[u].status = IF u \in S THEN terminal[u] ELSE nodes[u].status
        /\ nodes'[u].root = nodes[u].root
  BY <1>1 DEF IndInv, ControlTypeOK, SchedulerNode
<1>3. \A u \in Tasks : terminal[u] # "active"
  OBVIOUS
<1>4. \A u \in Tasks : u \in Active' <=> u \in Active /\ u \notin S \cap Active
  BY <1>2, <1>3 DEF Active
<1> QED
  BY <1>2, <1>4 DEF Leave, releaseWriteOwnership, Active

LEMMA CancelIsDisband ==
  ASSUME IndInv, NEW r \in Tasks,
         NEW terminal \in [Tasks -> {"completed", "cancelled"}], NEW actuals,
         Leave(r, TrackedUnder(r), terminal, actuals),
         NEW reason \in {ROOT_CANCELLED_REASON, ROOT_WALL_TIME_EXHAUSTED_REASON},
         cancelled' = [cancelled EXCEPT ![r] = reason]
  PROVE  DispatchPool!Next
<1>1. TrackedUnder(r) \cap Active = DispatchPool!Team(r)
  <2>1. TrackedUnder(r) \cap Active = ActiveUnder(r)
    BY DEF TrackedUnder, isTaskTracked, ActiveUnder, Active
  <2> QED
    BY <2>1, PoolView
<1>2. {q \in Tasks : isRootCancelled(q)}' = {q \in Tasks : isRootCancelled(q)} \cup {r}
  BY DEF isRootCancelled, NotCancelled, ROOT_CANCELLED_REASON,
     ROOT_WALL_TIME_EXHAUSTED_REASON, IndInv, ControlTypeOK
<1>3. DispatchPool!Disband(r)
  BY <1>1, <1>2, LeavePool DEF DispatchPool!Disband
<1> QED
  BY <1>3 DEF DispatchPool!Next

\* A completion or a single cancellation is a Quit, unless it leaves its root
\* no wall time: then the whole team goes.
LEMMA FinishMovesPool ==
  ASSUME RootsStayRoots, IndInv, NEW t \in Tasks, NEW actuals,
         NEW terminal \in {"completed", "cancelled"},
         finishDispatch(t, actuals, terminal)
  PROVE  DispatchPool!Next
<1>1. PICK r \in Tasks : r = nodes[t].root
  BY SchedulerAssumption
     DEF finishDispatch, IndInv, ControlTypeOK, SchedulerNode, RootsAreRoots
<1> DEFINE exhausted == WallExhaustedWithout(r, t)
           ends == [x \in Tasks |-> IF x = t THEN terminal ELSE "cancelled"]
           reported == [x \in Tasks |-> IF x = t THEN actuals ELSE UnknownActuals]
           S == {t} \cup (IF exhausted THEN Cancellable(r) \ {t} ELSE {})
<1>2. t \in TrackedUnder(r) /\ t \in Active
  BY <1>1 DEF finishDispatch, TrackedUnder, isTaskTracked, Active
<1>3. Leave(r, S, ends, reported)
  BY <1>1 DEF finishDispatch
<1>4. ends \in [Tasks -> {"completed", "cancelled"}]
  OBVIOUS
<1>5. CASE exhausted
  <2>1. Cancellable(r) = TrackedUnder(r)
    BY <1>2, CancellableIsTracked DEF IndInv
  <2>2. S = TrackedUnder(r)
    BY <1>2, <1>5, <2>1
  <2>3. cancelled' = [cancelled EXCEPT ![r] = ROOT_WALL_TIME_EXHAUSTED_REASON]
    BY <1>1, <1>5 DEF finishDispatch
  <2>4. Leave(r, TrackedUnder(r), ends, reported)
    BY <1>3, <2>2
  <2> HIDE DEF ends, reported, S, exhausted
  <2> QED
    BY <1>4, <2>3, <2>4, CancelIsDisband
<1>6. CASE ~exhausted
  <2>1. S = {t} /\ S \in SUBSET TrackedUnder(r) /\ S \cap Active = {t}
    BY <1>2, <1>6
  <2>2. cancelled' = cancelled
    BY <1>1, <1>6 DEF finishDispatch
  <2>3. t \in DispatchPool!Pool
    BY <1>2, PoolView
  <2> HIDE DEF ends, reported, S, exhausted
  <2>4. /\ [u \in Tasks |-> IF nodes[u].status = "active" THEN nodes[u].root ELSE NoTask]'
             = [u \in Tasks |-> IF u \in S \cap Active THEN NoTask
                               ELSE IF nodes[u].status = "active" THEN nodes[u].root ELSE NoTask]
        /\ writeByTask' = [u \in Tasks |-> IF u \in S \cap Active THEN NoCheckout
                                            ELSE writeByTask[u]]
    BY <1>3, <1>4, <2>1, LeavePool
  <2>5. /\ [u \in Tasks |-> IF nodes[u].status = "active" THEN nodes[u].root ELSE NoTask]'
             = [[u \in Tasks |-> IF nodes[u].status = "active" THEN nodes[u].root ELSE NoTask]
                  EXCEPT ![t] = NoTask]
        /\ writeByTask' = [writeByTask EXCEPT ![t] = NoCheckout]
    BY <2>1, <2>4 DEF IndInv, ControlTypeOK
  <2>6. {q \in Tasks : isRootCancelled(q)}' = {q \in Tasks : isRootCancelled(q)}
    BY <2>2 DEF isRootCancelled
  <2>7. DispatchPool!Quit(t)
    BY <2>3, <2>5, <2>6 DEF DispatchPool!Quit
  <2> QED
    BY <2>7 DEF DispatchPool!Next
<1> QED
  BY <1>5, <1>6

LEMMA PoolInit == Init => DispatchPool!Init
<1> SUFFICES ASSUME Init PROVE DispatchPool!Init
  OBVIOUS
<1>1. \A t \in Tasks : nodes[t].status # "active"
  BY DEF Init, NoNode
<1>2. {r \in Tasks : isRootCancelled(r)} = {}
  BY DEF Init, isRootCancelled
<1> QED
  BY <1>1, <1>2 DEF Init, DispatchPool!Init

LEMMA PoolStep ==
  ASSUME RootsStayRoots, IndInv, [Next]_vars
  PROVE  [DispatchPool!Next]_(DispatchPool!poolVars)
<1>1. ASSUME NEW t \in Tasks, NEW p \in ParentChoices[t], NEW c \in Checkouts,
             NEW perms \in PermissionChoices,
             \/ queueDispatch(t, p, c, perms)
             \/ admitDispatch(t, p, c, perms)
             \/ admitDispatchDenied(t, p, c, perms)
      PROVE  [DispatchPool!Next]_(DispatchPool!poolVars)
  <2> DEFINE n == QueuedNode(t, p, c, perms)
  <2>1. /\ nodes[t].status # "active"
        /\ n \in SchedulerNode /\ n.root \in Tasks /\ n.checkout \in Checkouts
        /\ n.status = "queued"
    BY <1>1, ValidatedNode
       DEF queueDispatch, admitDispatch, admitDispatchDenied, QueuedNode,
           validateDispatchAdmission, isTaskTracked
  <2>2. nodes \in [Tasks -> SchedulerNode] /\ NoNode.status = "absent"
    BY DEF IndInv, ControlTypeOK, NoNode
  <2> HIDE DEF n
  <2>3. CASE queueDispatch(t, p, c, perms)
    <3>1. /\ nodes' = [nodes EXCEPT ![t] = n]
          /\ UNCHANGED <<cancelled, writeByTask>>
      BY <2>3 DEF queueDispatch, n
    <3> QED
      BY <2>1, <2>2, <3>1, IdlePool
  <2>4. CASE admitDispatch(t, p, c, perms)
    <3>1. CanStart(t, n) /\ Start(t, n) /\ cancelled' = cancelled
      BY <2>4 DEF admitDispatch, n
    <3> QED
      BY <2>1, <3>1, StartIsJoin
  <2>5. CASE admitDispatchDenied(t, p, c, perms)
    <3>1. /\ nodes' = [nodes EXCEPT ![t] = NoNode]
          /\ UNCHANGED <<cancelled, writeByTask>>
      BY <2>5 DEF admitDispatchDenied
    <3> QED
      BY <2>1, <2>2, <3>1, IdlePool
  <2> QED
    BY <1>1, <2>3, <2>4, <2>5
<1>2. ASSUME NEW t \in Tasks, startQueuedDispatch(t)
      PROVE  DispatchPool!Next
  <2>1. PICK n \in SchedulerNode : n = nodes[t]
    BY DEF IndInv, ControlTypeOK
  <2>2. n.status = "queued" /\ CanStart(t, n) /\ Start(t, n) /\ cancelled' = cancelled
    BY <1>2, <2>1 DEF startQueuedDispatch
  <2>3. n.root \in Tasks /\ n.checkout \in Checkouts
    BY <2>1, <2>2 DEF IndInv, RootsAreRoots, ControlTypeOK
  <2> QED
    BY <2>1, <2>2, <2>3, StartIsJoin
<1>3. ASSUME NEW t \in Tasks, NEW a \in ActualsChoices,
             completeDispatch(t, a) \/ cancelDispatch(t, a)
      PROVE  DispatchPool!Next
  BY <1>3, FinishMovesPool DEF completeDispatch, cancelDispatch
<1>4. ASSUME NEW r \in Tasks, NEW actuals, cancelRoot(r, actuals)
      PROVE  DispatchPool!Next
  <2> DEFINE ends == [t \in Tasks |-> "cancelled"]
  <2>1. /\ Leave(r, TrackedUnder(r), ends, actuals)
        /\ cancelled' = [cancelled EXCEPT ![r] = ROOT_CANCELLED_REASON]
    BY <1>4, CancellableIsTracked DEF cancelRoot, IndInv
  <2>2. ends \in [Tasks -> {"completed", "cancelled"}]
    OBVIOUS
  <2> HIDE DEF ends
  <2> QED
    BY <2>1, <2>2, CancelIsDisband
<1>5. ASSUME UNCHANGED <<nodes, cancelled, writeByTask>>
      PROVE  UNCHANGED DispatchPool!poolVars
  BY <1>5 DEF DispatchPool!poolVars, Active, isRootCancelled
<1>6. CASE UNCHANGED vars
  BY <1>5, <1>6 DEF vars
<1>7. CASE Tick
  BY <1>5, <1>7 DEF Tick
<1>8. CASE \E t \in Tasks : submitRecommendation(t)
  BY <1>5, <1>8 DEF submitRecommendation
<1> QED
  BY <1>1, <1>2, <1>3, <1>4, <1>6, <1>7, <1>8 DEF Next

\* Every behaviour of the scheduler is a behaviour of the pool: the limits,
\* the write exclusion and the cancellation of whole roots hold step by step,
\* whatever the order of calls (delegation-scheduler.ts:365-638).
THEOREM ImplementsDispatchPoolHolds ==
  RootsStayRoots => (Spec => ImplementsDispatchPool)
<1> SUFFICES ASSUME RootsStayRoots PROVE Spec => ImplementsDispatchPool
  OBVIOUS
<1>1. Init => DispatchPool!Init
  BY PoolInit
<1>2. IndInv /\ [Next]_vars => [DispatchPool!Next]_(DispatchPool!poolVars)
  BY PoolStep
<1>3. Spec => []IndInv
  BY SpecIndInv
<1> QED
  BY <1>1, <1>2, <1>3, PTL DEF Spec, ImplementsDispatchPool, DispatchPool!Spec

----------------------------------------------------------------------------
(***************************************************************************)
(* The ledgers, the types and the tree.  The ledgers need no discipline of *)
(* the callers: whoever is dispatched under whom, what is reserved came    *)
(* from the pools and goes back to them.                                   *)
(***************************************************************************)

\* A present node has a root and a checkout, and every ledger is in order.
Rooted == \A t \in Tasks : nodes[t].status # "absent" => nodes[t].root \in Tasks /\ nodes[t].checkout \in Checkouts
LedgersOK == \A r \in Tasks : LedgerOK(ledgers[r])
LedgerInv == TypeOK /\ Rooted /\ LedgersOK

LEMMA SchedulerNodes ==
  ASSUME NEW n \in SchedulerNode, NEW status \in NodeStatus
  PROVE  /\ [n EXCEPT !.status = status] \in SchedulerNode
         /\ [n EXCEPT !.status = status].status = status
         /\ [n EXCEPT !.status = status].root = n.root
         /\ [n EXCEPT !.status = status].parent = n.parent
         /\ [n EXCEPT !.status = status].depth = n.depth
         /\ [n EXCEPT !.status = status].checkout = n.checkout
         /\ n.parent \in Tasks \cup {NoTask} /\ n.root \in Tasks \cup {NoTask} /\ n.depth \in Nat
BY DEF SchedulerNode

LEMMA InitLedgerInv == Init => LedgerInv
<1> SUFFICES ASSUME Init PROVE LedgerInv
  OBVIOUS
<1>1. NoNode \in SchedulerNode /\ NoNode.status = "absent"
  BY DEF NoNode, SchedulerNode, NodeStatus
<1>2. NoLedger \in RootBudgetLedger /\ LedgerOK(NoLedger)
  BY NoLedgerOK DEF LedgerOK
<1> QED
  BY <1>1, <1>2 DEF Init, LedgerInv, TypeOK, Rooted, LedgersOK

\* The node a validated request is queued with.
LEMMA QueuedNodeOK ==
  ASSUME LedgerInv, NEW t \in Tasks, NEW p \in ParentChoices[t], NEW c \in Checkouts,
         NEW perms \in PermissionChoices, validateDispatchAdmission(t, p, perms)
  PROVE  LET n == QueuedNode(t, p, c, perms) IN
         /\ n \in SchedulerNode /\ n.root \in Tasks /\ n.checkout \in Checkouts
         /\ n.status = "queued" /\ n.parent = p
         /\ nodes[t].status \notin {"queued", "active"}
<1>1. p \in Tasks \cup {NoTask} /\ perms \in SUBSET {"read", "write"}
  BY SchedulerAssumption
<1>2. nodes[t].status \notin {"queued", "active"}
  BY DEF validateDispatchAdmission, isTaskTracked
<1>3. RootUnder(t, p) \in Tasks /\ DepthUnder(p) \in Nat
  <2>1. CASE p = NoTask
    BY <2>1 DEF RootUnder, DepthUnder
  <2>2. CASE p # NoTask
    <3>1. p \in Tasks /\ nodes[p] \in SchedulerNode /\ nodes[p].status # "absent"
      BY <1>1, <2>2 DEF LedgerInv, TypeOK, validateDispatchAdmission
    <3>2. nodes[p].root \in Tasks /\ nodes[p].depth \in Nat
      BY <3>1 DEF LedgerInv, Rooted, SchedulerNode
    <3> QED
      BY <2>2, <3>2 DEF RootUnder, DepthUnder
  <2> QED
    BY <2>1, <2>2
<1> QED
  BY <1>1, <1>2, <1>3 DEF QueuedNode, SchedulerNode, NodeStatus

LEMMA ChildrenTypes ==
  ASSUME children \in [Tasks -> SUBSET Tasks], NEW p, NEW t \in Tasks
  PROVE  AddChild(p, t) \in [Tasks -> SUBSET Tasks] /\ RemoveChild(p, t) \in [Tasks -> SUBSET Tasks]
BY DEF AddChild, RemoveChild

\* A reservation is made by a start and by nothing else, and it fits.
LEMMA StartLedgers ==
  ASSUME LedgerInv, NEW t \in Tasks, NEW n \in SchedulerNode, n.root \in Tasks,
         CanStart(t, n), Start(t, n)
  PROVE  /\ ledgers' \in [Tasks -> RootBudgetLedger] /\ LedgersOK'
         /\ \A r \in Tasks : ledgers[r].open =>
              /\ ledgers'[r].open /\ ledgers'[r].createdAt = ledgers[r].createdAt
              /\ \A d \in Pooled : ledgers'[r].consumed[d] >= ledgers[r].consumed[d]
         /\ \A d \in Dimensions : Remaining(ledgers'[n.root], now, d) >= 0
<1> DEFINE r == n.root
           L == ensureRootLedger(r)
           M == tryReserveDispatch(L, now, t)
<1>1. /\ ledgers \in [Tasks -> RootBudgetLedger] /\ now \in Nat /\ IsFiniteSet(Tasks)
      /\ \A q \in Tasks : LedgerOK(ledgers[q])
  BY SchedulerAssumption DEF LedgerInv, TypeOK, LedgersOK
<1>2. LedgerOK(L) /\ L.open /\ (ledgers[r].open => L = ledgers[r])
  BY <1>1, CreateOK DEF ensureRootLedger
<1>3. CanReserve(L, now, t) /\ ledgers' = [ledgers EXCEPT ![r] = M]
  BY DEF CanStart, Start
<1> HIDE DEF L
<1>4. /\ LedgerOK(M) /\ M.open = L.open /\ M.createdAt = L.createdAt /\ M.consumed = L.consumed
      /\ \A d \in Dimensions : Remaining(M, now, d) >= 0
  BY <1>1, <1>2, <1>3, ReserveOK
<1>5. M \in RootBudgetLedger
  BY <1>4 DEF LedgerOK
<1> HIDE DEF M
<1>6. ledgers'[r] = M /\ \A q \in Tasks : q # r => ledgers'[q] = ledgers[q]
  BY <1>1, <1>3
<1>7. ledgers' \in [Tasks -> RootBudgetLedger]
  BY <1>1, <1>3, <1>5
<1>8. LedgersOK'
  BY <1>1, <1>4, <1>6 DEF LedgersOK
<1>9. ASSUME NEW q \in Tasks, ledgers[q].open
      PROVE  /\ ledgers'[q].open /\ ledgers'[q].createdAt = ledgers[q].createdAt
             /\ \A d \in Pooled : ledgers'[q].consumed[d] >= ledgers[q].consumed[d]
  <2>1. /\ ledgers'[q].open /\ ledgers'[q].createdAt = ledgers[q].createdAt
        /\ ledgers'[q].consumed = ledgers[q].consumed
    BY <1>2, <1>4, <1>6, <1>9
  <2>2. \A d \in Pooled : ledgers[q].consumed[d] \in Nat
    BY <1>1 DEF RootBudgetLedger
  <2> QED
    BY <2>1, <2>2
<1> QED
  BY <1>4, <1>6, <1>7, <1>8, <1>9

LEMMA LeaveLedgers ==
  ASSUME LedgerInv, NEW r \in Tasks, NEW S, NEW terminal,
         NEW actuals, \A t \in Tasks : actuals[t] \in BudgetActuals, Leave(r, S, terminal, actuals)
  PROVE  /\ ledgers' \in [Tasks -> RootBudgetLedger] /\ LedgersOK'
         /\ \A q \in Tasks : ledgers[q].open =>
              /\ ledgers'[q].open /\ ledgers'[q].createdAt = ledgers[q].createdAt
              /\ \A d \in Pooled : ledgers'[q].consumed[d] >= ledgers[q].consumed[d]
<1> DEFINE L == ledgers[r]
           ended == (S \cap Active) \cap L.holders
           M == reconcileDispatch(L, ended, actuals)
<1>1. /\ ledgers \in [Tasks -> RootBudgetLedger] /\ IsFiniteSet(Tasks)
      /\ \A q \in Tasks : LedgerOK(ledgers[q])
  BY SchedulerAssumption DEF LedgerInv, TypeOK, LedgersOK
<1>2. ledgers' = [ledgers EXCEPT ![r] = M]
  BY <1>1 DEF Leave
<1>3. LedgerOK(L) /\ ended \in SUBSET L.holders /\ \A t \in ended : actuals[t] \in BudgetActuals
  <2>1. L.holders \subseteq Tasks
    BY <1>1 DEF RootBudgetLedger
  <2> QED
    BY <1>1, <2>1
<1> HIDE DEF ended
<1>4. /\ LedgerOK(M) /\ M.open = L.open /\ M.createdAt = L.createdAt
      /\ \A d \in Pooled : M.consumed[d] >= L.consumed[d]
  BY <1>1, <1>3, ReconcileOK
<1>5. M \in RootBudgetLedger
  BY <1>4 DEF LedgerOK
<1> HIDE DEF M
<1>6. ledgers'[r] = M /\ \A q \in Tasks : q # r => ledgers'[q] = ledgers[q]
  BY <1>1, <1>2
<1>7. ledgers' \in [Tasks -> RootBudgetLedger] /\ LedgersOK'
  BY <1>1, <1>2, <1>4, <1>5, <1>6 DEF LedgersOK
<1>8. ASSUME NEW q \in Tasks, ledgers[q].open
      PROVE  /\ ledgers'[q].open /\ ledgers'[q].createdAt = ledgers[q].createdAt
             /\ \A d \in Pooled : ledgers'[q].consumed[d] >= ledgers[q].consumed[d]
  <2>1. CASE q = r
    BY <1>4, <1>6, <1>8, <2>1
  <2>2. CASE q # r
    <3>1. \A d \in Pooled : ledgers[q].consumed[d] \in Nat
      BY <1>1 DEF RootBudgetLedger
    <3> QED
      BY <1>6, <1>8, <2>2, <3>1
  <2> QED
    BY <2>1, <2>2
<1> QED
  BY <1>7, <1>8

\* Whatever leaves, the types stay and every present node keeps its place.
LEMMA LeaveTypes ==
  ASSUME TypeOK, Rooted, NEW r \in Tasks, NEW S, S \subseteq Tasks,
         \A t \in S : nodes[t].status # "absent",
         NEW terminal \in [Tasks -> {"completed", "cancelled"}], NEW actuals,
         Leave(r, S, terminal, actuals), ledgers' \in [Tasks -> RootBudgetLedger],
         cancelled' \in [Tasks -> {NotCancelled, ROOT_CANCELLED_REASON, ROOT_WALL_TIME_EXHAUSTED_REASON}]
  PROVE  TypeOK' /\ Rooted'
<1> DEFINE running == S \cap Active
<1>1. /\ nodes' = [t \in Tasks |->
           IF t \in S THEN [nodes[t] EXCEPT !.status = terminal[t]] ELSE nodes[t]]
      /\ globalActive' = Less(globalActive, Cardinality(running))
      /\ activeByRoot' = [activeByRoot EXCEPT ![r] = RootCountWithout(r, running)]
      /\ recommendations' = recommendations \ S /\ UNCHANGED <<children, now>>
      /\ releaseWriteOwnership(running)
  BY DEF Leave, RecommendationsWithout
<1>2. \A t \in Tasks :
        /\ nodes[t] \in SchedulerNode /\ nodes'[t] \in SchedulerNode
        /\ nodes'[t].root = nodes[t].root /\ nodes'[t].checkout = nodes[t].checkout
        /\ nodes'[t].status # "absent" => nodes[t].status # "absent"
  <2> TAKE t \in Tasks
  <2>1. nodes[t] \in SchedulerNode /\ terminal[t] \in NodeStatus
    BY DEF TypeOK, NodeStatus
  <2>2. CASE t \in S
    BY <1>1, <2>1, <2>2, SchedulerNodes
  <2>3. CASE t \notin S
    BY <1>1, <2>1, <2>3
  <2> QED
    BY <2>2, <2>3
<1>3. nodes' \in [Tasks -> SchedulerNode] /\ Rooted'
  BY <1>1, <1>2 DEF Rooted
<1>4. Cardinality(running) \in Nat
  <2>1. running \in SUBSET Tasks
    BY DEF Active
  <2> QED
    BY <2>1, SchedulerAssumption, FS_Subset, FS_CardinalityType
<1>5. globalActive' \in Nat /\ activeByRoot' \in [Tasks -> Nat]
  BY <1>1, <1>4 DEF TypeOK, Less, RootCountWithout
<1>6. /\ writeByCheckout' \in [Checkouts -> Tasks \cup {NoTask}]
      /\ writeByTask' \in [Tasks -> Checkouts \cup {NoCheckout}]
  BY <1>1 DEF TypeOK, releaseWriteOwnership
<1> QED
  BY <1>1, <1>3, <1>5, <1>6 DEF TypeOK
\* No ledger is replaced and none gives consumption back.
LedgersGrow ==
  \A r \in Tasks : ledgers[r].open =>
    /\ ledgers'[r].open /\ ledgers'[r].createdAt = ledgers[r].createdAt
    /\ \A d \in Pooled : ledgers'[r].consumed[d] >= ledgers[r].consumed[d]

\* What starts in this step fits into what its root has left.
StartsFit ==
  \A t \in Tasks : t \notin Active /\ nodes'[t].status = "active" =>
    \A d \in Dimensions : Remaining(ledgers'[nodes'[t].root], now', d) >= 0

\* A step that starts nothing and leaves the ledgers alone.
LEMMA LedgersStay ==
  ASSUME LedgerInv, ledgers' = ledgers,
         \A t \in Tasks : nodes'[t].status = "active" => t \in Active
  PROVE  LedgersOK' /\ LedgersGrow /\ StartsFit
<1>1. LedgersOK'
  BY DEF LedgerInv, LedgersOK
<1>2. LedgersGrow
  <2>1. \A r \in Tasks, d \in Pooled : ledgers[r].consumed[d] \in Nat
    BY DEF LedgerInv, TypeOK, RootBudgetLedger
  <2> QED
    BY <2>1 DEF LedgersGrow
<1> QED
  BY <1>1, <1>2 DEF StartsFit

\* A start gives t the node n, counts it and lets it own its checkout.
LEMMA StartLedgerStep ==
  ASSUME LedgerInv, NEW t \in Tasks, NEW n \in SchedulerNode,
         n.root \in Tasks, n.checkout \in Checkouts,
         CanStart(t, n), Start(t, n),
         children' \in [Tasks -> SUBSET Tasks], UNCHANGED <<recommendations, cancelled, now>>
  PROVE  LedgerInv' /\ LedgersGrow /\ StartsFit
<1> DEFINE m == [n EXCEPT !.status = "active"]
<1>1. m \in SchedulerNode /\ m.status = "active" /\ m.root = n.root /\ m.checkout = n.checkout
  BY SchedulerNodes DEF NodeStatus
<1>2. nodes \in [Tasks -> SchedulerNode] /\ nodes' = [nodes EXCEPT ![t] = m]
  BY DEF LedgerInv, TypeOK, Start
<1> HIDE DEF m
<1>3. nodes'[t] = m /\ \A u \in Tasks : u # t => nodes'[u] = nodes[u]
  BY <1>2
<1>4. nodes' \in [Tasks -> SchedulerNode] /\ Rooted'
  BY <1>1, <1>2, <1>3 DEF LedgerInv, Rooted
<1>5. /\ ledgers' \in [Tasks -> RootBudgetLedger] /\ LedgersOK' /\ LedgersGrow
      /\ \A d \in Dimensions : Remaining(ledgers'[n.root], now, d) >= 0
  BY StartLedgers DEF LedgersGrow
<1>6. /\ globalActive' \in Nat /\ activeByRoot' \in [Tasks -> Nat]
      /\ writeByCheckout' \in [Checkouts -> Tasks \cup {NoTask}]
      /\ writeByTask' \in [Tasks -> Checkouts \cup {NoCheckout}]
  BY DEF LedgerInv, TypeOK, Start, tryAcquireWriteOwnership
<1>7. TypeOK'
  BY <1>4, <1>5, <1>6 DEF LedgerInv, TypeOK
<1>8. StartsFit
  BY <1>1, <1>3, <1>5 DEF StartsFit, Active
<1> QED
  BY <1>4, <1>5, <1>7, <1>8 DEF LedgerInv

\* What leaves is charged to the ledger of one root, and nothing starts.
LEMMA LeaveLedgerStep ==
  ASSUME LedgerInv, NEW r \in Tasks, NEW S, S \subseteq Tasks,
         \A t \in S : nodes[t].status # "absent",
         NEW terminal \in [Tasks -> {"completed", "cancelled"}],
         NEW actuals, \A t \in Tasks : actuals[t] \in BudgetActuals,
         Leave(r, S, terminal, actuals),
         cancelled' \in [Tasks -> {NotCancelled, ROOT_CANCELLED_REASON, ROOT_WALL_TIME_EXHAUSTED_REASON}]
  PROVE  LedgerInv' /\ LedgersGrow /\ StartsFit
<1>1. ledgers' \in [Tasks -> RootBudgetLedger] /\ LedgersOK' /\ LedgersGrow
  BY LeaveLedgers DEF LedgersGrow
<1>2. TypeOK' /\ Rooted'
  BY <1>1, LeaveTypes DEF LedgerInv
<1>3. \A t \in Tasks : nodes'[t].status = "active" => t \in Active
  <2> SUFFICES ASSUME NEW t \in Tasks, nodes'[t].status = "active" PROVE t \in Active
    OBVIOUS
  <2>1. nodes' = [u \in Tasks |->
           IF u \in S THEN [nodes[u] EXCEPT !.status = terminal[u]] ELSE nodes[u]]
    BY DEF Leave
  <2>2. nodes[t] \in SchedulerNode /\ terminal[t] \in NodeStatus /\ terminal[t] # "active"
    BY DEF LedgerInv, TypeOK, NodeStatus
  <2>3. t \notin S
    BY <2>1, <2>2, SchedulerNodes
  <2> QED
    BY <2>1, <2>3 DEF Active
<1> QED
  BY <1>1, <1>2, <1>3 DEF LedgerInv, StartsFit

\* What a caller can report is typed, measured or not.
LEMMA ActualsTyped == UnknownActuals \in BudgetActuals /\ ActualsChoices \subseteq BudgetActuals
BY SchedulerAssumption, BudgetAssumption DEF UnknownActuals, BudgetActuals

LEMMA CancellablePresent ==
  \A r \in Tasks : Cancellable(r) \subseteq Tasks /\ \A t \in Cancellable(r) : nodes[t].status # "absent"
BY DEF Cancellable, TrackedUnder, isTaskTracked

LEMMA FinishLedgerStep ==
  ASSUME LedgerInv, NEW t \in Tasks, NEW a \in ActualsChoices,
         NEW terminal \in {"completed", "cancelled"}, finishDispatch(t, a, terminal)
  PROVE  LedgerInv' /\ LedgersGrow /\ StartsFit
<1> DEFINE r == nodes[t].root
           rest == IF WallExhaustedWithout(r, t) THEN Cancellable(r) \ {t} ELSE {}
           ends == [x \in Tasks |-> IF x = t THEN terminal ELSE "cancelled"]
           reported == [x \in Tasks |-> IF x = t THEN a ELSE UnknownActuals]
<1>1. /\ nodes[t].status = "active" /\ Leave(r, {t} \cup rest, ends, reported)
      /\ cancelled' = IF WallExhaustedWithout(r, t)
                      THEN [cancelled EXCEPT ![r] = ROOT_WALL_TIME_EXHAUSTED_REASON]
                      ELSE cancelled
  BY DEF finishDispatch
<1>2. r \in Tasks
  BY <1>1 DEF LedgerInv, Rooted
<1>3. /\ {t} \cup rest \subseteq Tasks
      /\ \A u \in {t} \cup rest : nodes[u].status # "absent"
  BY <1>1, <1>2, CancellablePresent
<1>4. ends \in [Tasks -> {"completed", "cancelled"}] /\ \A u \in Tasks : reported[u] \in BudgetActuals
  BY ActualsTyped
<1>5. cancelled' \in [Tasks -> {NotCancelled, ROOT_CANCELLED_REASON, ROOT_WALL_TIME_EXHAUSTED_REASON}]
  BY <1>1 DEF LedgerInv, TypeOK
<1> HIDE DEF r, rest, ends, reported
<1> QED
  BY <1>1, <1>2, <1>3, <1>4, <1>5, LeaveLedgerStep

LEMMA CancelLedgerStep ==
  ASSUME LedgerInv, NEW r \in Tasks, NEW a \in ActualsChoices \cup {UnknownActuals},
         cancelRoot(r, [t \in Tasks |-> a])
  PROVE  LedgerInv' /\ LedgersGrow /\ StartsFit
<1> DEFINE ends == [t \in Tasks |-> "cancelled"]
           reported == [t \in Tasks |-> a]
<1>1. Leave(r, Cancellable(r), ends, reported) /\ cancelled' = [cancelled EXCEPT ![r] = ROOT_CANCELLED_REASON]
  BY DEF cancelRoot
<1>2. ends \in [Tasks -> {"completed", "cancelled"}] /\ \A u \in Tasks : reported[u] \in BudgetActuals
  BY ActualsTyped
<1>3. cancelled' \in [Tasks -> {NotCancelled, ROOT_CANCELLED_REASON, ROOT_WALL_TIME_EXHAUSTED_REASON}]
  BY <1>1 DEF LedgerInv, TypeOK
<1>4. Cancellable(r) \subseteq Tasks /\ \A t \in Cancellable(r) : nodes[t].status # "absent"
  BY CancellablePresent
<1> HIDE DEF ends, reported
<1> QED
  BY <1>1, <1>2, <1>3, <1>4, LeaveLedgerStep

LEMMA NextLedgerInv ==
  ASSUME LedgerInv, [Next]_vars PROVE LedgerInv' /\ LedgersGrow /\ StartsFit
<1>1. ASSUME NEW t \in Tasks, NEW p \in ParentChoices[t], NEW c \in Checkouts,
             NEW perms \in PermissionChoices,
             \/ queueDispatch(t, p, c, perms)
             \/ admitDispatch(t, p, c, perms)
             \/ admitDispatchDenied(t, p, c, perms)
      PROVE  LedgerInv' /\ LedgersGrow /\ StartsFit
  <2> DEFINE n == QueuedNode(t, p, c, perms)
  <2>1. /\ n \in SchedulerNode /\ n.root \in Tasks /\ n.checkout \in Checkouts
        /\ n.status = "queued" /\ nodes[t].status \notin {"queued", "active"}
    <3>1. validateDispatchAdmission(t, p, perms)
      BY <1>1 DEF queueDispatch, admitDispatch, admitDispatchDenied
    <3> QED
      BY <3>1, QueuedNodeOK
  <2>2. /\ children \in [Tasks -> SUBSET Tasks] /\ nodes \in [Tasks -> SchedulerNode]
        /\ AddChild(p, t) \in [Tasks -> SUBSET Tasks] /\ RemoveChild(p, t) \in [Tasks -> SUBSET Tasks]
    BY ChildrenTypes DEF LedgerInv, TypeOK
  <2>3. NoNode \in SchedulerNode /\ NoNode.status = "absent"
    BY DEF NoNode, SchedulerNode, NodeStatus
  <2> HIDE DEF n
  <2>4. CASE admitDispatch(t, p, c, perms)
    <3>1. /\ CanStart(t, n) /\ Start(t, n) /\ children' = AddChild(p, t)
          /\ UNCHANGED <<recommendations, cancelled, now>>
      BY <2>4 DEF admitDispatch, n
    <3> QED
      BY <2>1, <2>2, <3>1, StartLedgerStep
  <2>5. ASSUME NEW m \in SchedulerNode, m.status # "active",
               m.status # "absent" => m.root \in Tasks /\ m.checkout \in Checkouts,
               nodes' = [nodes EXCEPT ![t] = m], children' \in [Tasks -> SUBSET Tasks],
               UNCHANGED <<recommendations, globalActive, activeByRoot, ledgers, cancelled,
                           writeByCheckout, writeByTask, now>>
        PROVE  LedgerInv' /\ LedgersGrow /\ StartsFit
    <3>1. nodes'[t] = m /\ \A u \in Tasks : u # t => nodes'[u] = nodes[u]
      BY <2>2, <2>5
    <3>2. TypeOK' /\ Rooted'
      BY <2>2, <2>5, <3>1 DEF LedgerInv, TypeOK, Rooted
    <3>3. \A u \in Tasks : nodes'[u].status = "active" => u \in Active
      BY <2>5, <3>1 DEF Active
    <3> QED
      BY <2>5, <3>2, <3>3, LedgersStay DEF LedgerInv
  <2>6. CASE queueDispatch(t, p, c, perms)
    <3>1. /\ nodes' = [nodes EXCEPT ![t] = n] /\ children' = AddChild(p, t)
          /\ UNCHANGED <<recommendations, globalActive, activeByRoot, ledgers, cancelled,
                         writeByCheckout, writeByTask, now>>
      BY <2>6 DEF queueDispatch, n
    <3> QED
      BY <2>1, <2>2, <2>5, <3>1
  <2>7. CASE admitDispatchDenied(t, p, c, perms)
    <3>1. /\ nodes' = [nodes EXCEPT ![t] = NoNode] /\ children' = RemoveChild(p, t)
          /\ UNCHANGED <<recommendations, globalActive, activeByRoot, ledgers, cancelled,
                         writeByCheckout, writeByTask, now>>
      BY <2>7 DEF admitDispatchDenied
    <3> QED
      BY <2>2, <2>3, <2>5, <3>1
  <2> QED
    BY <1>1, <2>4, <2>6, <2>7
<1>2. ASSUME NEW t \in Tasks, startQueuedDispatch(t)
      PROVE  LedgerInv' /\ LedgersGrow /\ StartsFit
  <2>1. /\ nodes[t] \in SchedulerNode /\ nodes[t].status = "queued"
        /\ nodes[t].root \in Tasks /\ nodes[t].checkout \in Checkouts
    BY <1>2 DEF LedgerInv, TypeOK, Rooted, startQueuedDispatch
  <2>2. /\ CanStart(t, nodes[t]) /\ Start(t, nodes[t])
        /\ UNCHANGED <<children, recommendations, cancelled, now>>
    BY <1>2 DEF startQueuedDispatch
  <2>3. children' \in [Tasks -> SUBSET Tasks]
    BY <2>2 DEF LedgerInv, TypeOK
  <2> QED
    BY <2>1, <2>2, <2>3, StartLedgerStep
<1>3. ASSUME NEW t \in Tasks, NEW a \in ActualsChoices, completeDispatch(t, a) \/ cancelDispatch(t, a)
      PROVE  LedgerInv' /\ LedgersGrow /\ StartsFit
  BY <1>3, FinishLedgerStep DEF completeDispatch, cancelDispatch
<1>4. ASSUME NEW r \in Tasks, NEW a \in ActualsChoices \cup {UnknownActuals},
             cancelRoot(r, [t \in Tasks |-> a])
      PROVE  LedgerInv' /\ LedgersGrow /\ StartsFit
  BY <1>4, CancelLedgerStep
<1>5. ASSUME UNCHANGED <<nodes, children, globalActive, activeByRoot, ledgers, cancelled,
                         writeByCheckout, writeByTask>>,
             recommendations' \subseteq Tasks, now' \in Nat
      PROVE  LedgerInv' /\ LedgersGrow /\ StartsFit
  <2>1. TypeOK' /\ Rooted'
    BY <1>5 DEF LedgerInv, TypeOK, Rooted
  <2>2. \A u \in Tasks : nodes'[u].status = "active" => u \in Active
    BY <1>5 DEF Active
  <2> QED
    BY <1>5, <2>1, <2>2, LedgersStay DEF LedgerInv
<1>6. CASE \E t \in Tasks : submitRecommendation(t)
  BY <1>5, <1>6 DEF submitRecommendation, LedgerInv, TypeOK
<1>7. CASE Tick
  BY <1>5, <1>7 DEF Tick, LedgerInv, TypeOK
<1>8. CASE UNCHANGED vars
  BY <1>5, <1>8 DEF vars, LedgerInv, TypeOK
<1> QED
  BY <1>1, <1>2, <1>3, <1>4, <1>6, <1>7, <1>8 DEF Next

LEMMA SpecLedgerInv == Spec => []LedgerInv
<1>1. Init => LedgerInv
  BY InitLedgerInv
<1>2. LedgerInv /\ [Next]_vars => LedgerInv'
  BY NextLedgerInv
<1> QED
  BY <1>1, <1>2, PTL DEF Spec

LEMMA LedgerInvSound == LedgerInv => LedgersSound
<1> SUFFICES ASSUME LedgerInv PROVE LedgersSound
  OBVIOUS
<1>1. \A r \in Tasks : LedgerOK(ledgers[r]) /\ IsFiniteSet(Tasks)
  BY SchedulerAssumption DEF LedgerInv, LedgersOK
<1>2. BudgetConserved
  BY <1>1 DEF BudgetConserved, LedgerOK, Conserves
<1>3. SlotsNeverOverdrawn
  <2> SUFFICES ASSUME NEW r \in Tasks, ledgers[r].open, NEW d \in SlotDimensions
               PROVE  ledgers[r].consumed[d] + Cardinality(ledgers[r].holders) <= RootLimits[d]
    BY DEF SlotsNeverOverdrawn
  <2> QED
    BY <1>1, SlotsWithin
<1> QED
  BY <1>2, <1>3 DEF LedgersSound, LedgerInv

\* Whoever calls the scheduler, whatever it dispatches under whom and whatever
\* the runners report, no ledger mints or loses budget and none is overdrawn
\* in calls or concurrency (delegation-budget.ts:147-255).
THEOREM LedgersSoundHolds == Spec => []LedgersSound
BY SpecLedgerInv, LedgerInvSound, PTL

\* No call makes a ledger forget what it has charged: consumption only grows
\* and an open ledger stays the one it was (delegation-budget.ts:223-255).
THEOREM ConsumptionNeverResetsHolds == Spec => ConsumptionNeverResets
<1>1. LedgerInv /\ [Next]_vars => [LedgersGrow]_vars
  BY NextLedgerInv
<1>2. Spec => [][LedgersGrow]_vars
  BY <1>1, SpecLedgerInv, PTL DEF Spec
<1> QED
  BY <1>2 DEF ConsumptionNeverResets, LedgersGrow

\* However many workers run at once, a dispatch is only started with a
\* reservation that its root can pay in every dimension, wall time included
\* (delegation-budget.ts:147-185, delegation-scheduler.ts:365-444).
THEOREM StartsNeverOvercommitHolds == Spec => StartsNeverOvercommit
<1>1. LedgerInv /\ [Next]_vars => [StartsFit]_vars
  BY NextLedgerInv
<1>2. Spec => [][StartsFit]_vars
  BY <1>1, SpecLedgerInv, PTL DEF Spec
<1> QED
  BY <1>2 DEF StartsNeverOvercommit, StartsFit

----------------------------------------------------------------------------
(***************************************************************************)
(* The tree.  A node may be removed while its children stay, and come back *)
(* later: its place must then be the one its children were given.  Placed  *)
(* is the place of every task that the parents the callers name allow, and *)
(* where each task has one parent it is a function of the task.            *)
(***************************************************************************)

\* The caller's discipline the driver keeps: a session has one parentTaskKey
\* for good (task-orchestrator.ts:281-291).
OneParent == \A t \in Tasks : \A p, q \in ParentChoices[t] : p = q

\* Task, depth and root: a root is its own root at depth zero, any other task
\* is one below a parent that is in P as well.
Sound(P) ==
  \A x \in P :
    \/ NoTask \in ParentChoices[x[1]] /\ x[2] = 0 /\ x[3] = x[1]
    \/ \E p \in ParentChoices[x[1]] \ {NoTask} : x[2] # 0 /\ <<p, x[2] - 1, x[3]>> \in P

Placed == UNION {P \in SUBSET (Tasks \X Nat \X Tasks) : Sound(P)}

InPlace(t) ==
  /\ nodes[t].depth <= MAX_DELEGATION_DEPTH
  /\ nodes[t].status = "absent" => nodes[t] = NoNode
  /\ nodes[t].status # "absent" =>
       nodes[t].parent \in ParentChoices[t] /\ <<t, nodes[t].depth, nodes[t].root>> \in Placed

TreeInv ==
  /\ \A t \in Tasks : InPlace(t)
  /\ FanOutBounded
  /\ RecommendationsFromRunning

LEMMA PlacedSound == Placed \in SUBSET (Tasks \X Nat \X Tasks) /\ Sound(Placed)
<1>1. Placed \in SUBSET (Tasks \X Nat \X Tasks)
  BY DEF Placed
<1>2. ASSUME NEW x \in Placed
      PROVE  \/ NoTask \in ParentChoices[x[1]] /\ x[2] = 0 /\ x[3] = x[1]
             \/ \E p \in ParentChoices[x[1]] \ {NoTask} : x[2] # 0 /\ <<p, x[2] - 1, x[3]>> \in Placed
  <2>1. PICK P \in SUBSET (Tasks \X Nat \X Tasks) : Sound(P) /\ x \in P
    BY DEF Placed
  <2>2. P \subseteq Placed
    BY <2>1 DEF Placed
  <2> QED
    BY <2>1, <2>2 DEF Sound
<1> QED
  BY <1>1, <1>2 DEF Sound

LEMMA RootPlaced ==
  ASSUME NEW t \in Tasks, NoTask \in ParentChoices[t] PROVE <<t, 0, t>> \in Placed
<1>1. Sound({<<t, 0, t>>})
  BY DEF Sound
<1> QED
  BY <1>1 DEF Placed

LEMMA ChildPlaced ==
  ASSUME NEW t \in Tasks, NEW p \in ParentChoices[t], p # NoTask,
         NEW d \in Nat, NEW r \in Tasks, <<p, d, r>> \in Placed
  PROVE  <<t, d + 1, r>> \in Placed
<1> DEFINE P == Placed \cup {<<t, d + 1, r>>}
<1>1. P \in SUBSET (Tasks \X Nat \X Tasks)
  BY PlacedSound
<1>2. Sound(P)
  <2>1. \A x \in Placed :
           \/ NoTask \in ParentChoices[x[1]] /\ x[2] = 0 /\ x[3] = x[1]
           \/ \E q \in ParentChoices[x[1]] \ {NoTask} : x[2] # 0 /\ <<q, x[2] - 1, x[3]>> \in P
    BY PlacedSound DEF Sound
  <2>2. (d + 1) # 0 /\ (d + 1) - 1 = d
    OBVIOUS
  <2>3. \E q \in ParentChoices[t] \ {NoTask} : (d + 1) # 0 /\ <<q, (d + 1) - 1, r>> \in P
    BY <2>2
  <2> QED
    BY <2>1, <2>3 DEF Sound
<1> QED
  BY <1>1, <1>2 DEF Placed

\* Where every task has one parent it has one place.
LEMMA OnePlace ==
  ASSUME OneParent,
         NEW t \in Tasks, NEW d \in Nat, NEW e \in Nat, NEW r \in Tasks, NEW s \in Tasks,
         <<t, d, r>> \in Placed, <<t, e, s>> \in Placed
  PROVE  d = e /\ r = s
<1> DEFINE Bad == {k \in Nat : \E u \in Tasks, l \in Nat, q, v \in Tasks :
                     /\ <<u, k, q>> \in Placed /\ <<u, l, v>> \in Placed
                     /\ ~ (k = l /\ q = v)}
<1>1. SUFFICES ASSUME Bad # {} PROVE FALSE
  OBVIOUS
<1>2. PICK k \in Bad : \A l \in Bad : ~ (<<l, k>> \in OpToRel(<, Nat))
  <2>1. Bad \subseteq Nat
    OBVIOUS
  <2> HIDE DEF Bad
  <2> QED
    BY <1>1, <2>1, NatLessThanWellFounded, WFMin
<1>3. PICK u \in Tasks, l \in Nat, q \in Tasks, v \in Tasks :
        /\ <<u, k, q>> \in Placed /\ <<u, l, v>> \in Placed /\ ~ (k = l /\ q = v)
  OBVIOUS
<1>4. k \in Nat
  OBVIOUS
<1>5. /\ \/ NoTask \in ParentChoices[u] /\ k = 0 /\ q = u
         \/ \E p \in ParentChoices[u] \ {NoTask} : k # 0 /\ <<p, k - 1, q>> \in Placed
      /\ \/ NoTask \in ParentChoices[u] /\ l = 0 /\ v = u
         \/ \E p \in ParentChoices[u] \ {NoTask} : l # 0 /\ <<p, l - 1, v>> \in Placed
  BY <1>3, PlacedSound DEF Sound
<1>6. PICK p \in ParentChoices[u] : p # NoTask /\ k # 0 /\ l # 0
                                     /\ <<p, k - 1, q>> \in Placed /\ <<p, l - 1, v>> \in Placed
  BY <1>3, <1>5 DEF OneParent
<1>7. p \in Tasks
  BY <1>6, SchedulerAssumption
<1>8. k - 1 \in Nat /\ l - 1 \in Nat /\ k - 1 < k /\ ~ (k - 1 = l - 1 /\ q = v)
  BY <1>3, <1>4, <1>6
<1>9. k - 1 \in Bad
  BY <1>6, <1>7, <1>8
<1>10. <<k - 1, k>> \in OpToRel(<, Nat)
  BY <1>4, <1>8 DEF OpToRel
<1> QED
  BY <1>2, <1>9, <1>10

LEMMA TreeInvConsistent == OneParent /\ LedgerInv /\ TreeInv => TreeConsistent
<1> SUFFICES ASSUME OneParent, LedgerInv, TreeInv PROVE LineageConsistent
  BY DEF TreeConsistent, TreeInv
<1> SUFFICES ASSUME NEW t \in Tasks, nodes[t].parent # NoTask,
                    nodes[nodes[t].parent].status # "absent"
             PROVE  /\ nodes[t].depth = nodes[nodes[t].parent].depth + 1
                    /\ nodes[t].root = nodes[nodes[t].parent].root
  BY DEF LineageConsistent, TreeInv, InPlace
<1> DEFINE p == nodes[t].parent
           d == nodes[t].depth
           r == nodes[t].root
<1>1. nodes[t].status # "absent"
  <2>1. NoNode.parent = NoTask
    BY DEF NoNode
  <2> QED
    BY <2>1 DEF TreeInv, InPlace
<1>2. /\ p \in ParentChoices[t] /\ p \in Tasks /\ <<t, d, r>> \in Placed
      /\ d \in Nat /\ r \in Tasks
  <2>1. nodes[t] \in SchedulerNode
    BY DEF LedgerInv, TypeOK
  <2> QED
    BY <1>1, <2>1, SchedulerAssumption DEF LedgerInv, Rooted, TreeInv, InPlace, SchedulerNode
<1>3. /\ <<p, nodes[p].depth, nodes[p].root>> \in Placed
      /\ nodes[p].depth \in Nat /\ nodes[p].root \in Tasks
  <2>1. nodes[p] \in SchedulerNode
    BY <1>2 DEF LedgerInv, TypeOK
  <2> QED
    BY <1>2, <2>1 DEF LedgerInv, Rooted, TreeInv, InPlace, SchedulerNode
<1> HIDE DEF p, d, r
<1>4. d # 0 /\ <<p, d - 1, r>> \in Placed
  <2>1. \/ NoTask \in ParentChoices[t] /\ d = 0 /\ r = t
        \/ \E q \in ParentChoices[t] \ {NoTask} : d # 0 /\ <<q, d - 1, r>> \in Placed
    BY <1>2, PlacedSound DEF Sound
  <2> QED
    BY <1>2, <2>1 DEF OneParent, p
<1>5. d - 1 = nodes[p].depth /\ r = nodes[p].root
  BY <1>2, <1>3, <1>4, OnePlace
<1> QED
  BY <1>2, <1>3, <1>5 DEF p, d, r

LEMMA InitTreeInv == Init => TreeInv
<1> SUFFICES ASSUME Init PROVE TreeInv
  OBVIOUS
<1>1. /\ NoNode.parent = NoTask /\ NoNode.status = "absent" /\ NoNode.depth = 0
      /\ \A t \in Tasks : nodes[t] = NoNode
  BY DEF Init, NoNode
<1>2. \A t \in Tasks : InPlace(t)
  BY <1>1, SchedulerAssumption DEF InPlace
<1>3. FanOutBounded
  <2>1. \A p \in Tasks : children[p] = {} /\ {t \in Tasks : nodes[t].parent = p} = {}
    BY <1>1, SchedulerAssumption DEF Init
  <2>2. Cardinality({}) <= MAX_DIRECT_FAN_OUT
    BY SchedulerAssumption, FS_EmptySet
  <2> QED
    BY <2>1, <2>2 DEF FanOutBounded
<1>4. RecommendationsFromRunning
  BY DEF Init, RecommendationsFromRunning
<1> QED
  BY <1>2, <1>3, <1>4 DEF TreeInv

\* A step that leaves every node at its place and every running one running,
\* but for those it takes the recommendations of.
LEMMA PlacesStay ==
  ASSUME TreeInv, UNCHANGED children, recommendations' \subseteq Active',
         \A t \in Tasks :
           /\ nodes'[t].parent = nodes[t].parent /\ nodes'[t].depth = nodes[t].depth
           /\ nodes'[t].root = nodes[t].root
           /\ nodes'[t] = nodes[t] \/ (nodes[t].status # "absent" /\ nodes'[t].status # "absent")
  PROVE  TreeInv'
<1>1. \A t \in Tasks : InPlace(t)'
  BY DEF TreeInv, InPlace
<1>2. FanOutBounded'
  BY DEF TreeInv, FanOutBounded
<1> QED
  BY <1>1, <1>2 DEF TreeInv, RecommendationsFromRunning

\* A validated request has a place under its parent.
LEMMA RequestInPlace ==
  ASSUME LedgerInv, TreeInv, NEW t \in Tasks, NEW p \in ParentChoices[t],
         NEW perms, validateDispatchAdmission(t, p, perms)
  PROVE  /\ DepthUnder(p) <= MAX_DELEGATION_DEPTH
         /\ <<t, DepthUnder(p), RootUnder(t, p)>> \in Placed
<1>1. CASE p = NoTask
  <2>1. DepthUnder(p) = 0 /\ RootUnder(t, p) = t
    BY <1>1 DEF DepthUnder, RootUnder
  <2> QED
    BY <1>1, <2>1, RootPlaced, SchedulerAssumption
<1>2. CASE p # NoTask
  <2>1. p \in Tasks /\ nodes[p].status # "absent" /\ DepthUnder(p) <= MAX_DELEGATION_DEPTH
    BY <1>2, SchedulerAssumption DEF validateDispatchAdmission
  <2>2. /\ <<p, nodes[p].depth, nodes[p].root>> \in Placed
        /\ nodes[p].depth \in Nat /\ nodes[p].root \in Tasks
    <3>1. nodes[p] \in SchedulerNode
      BY <2>1 DEF LedgerInv, TypeOK
    <3> QED
      BY <2>1, <3>1 DEF LedgerInv, Rooted, TreeInv, InPlace, SchedulerNode
  <2>3. <<t, nodes[p].depth + 1, nodes[p].root>> \in Placed
    BY <1>2, <2>2, ChildPlaced
  <2> QED
    BY <1>2, <2>1, <2>3 DEF DepthUnder, RootUnder
<1> QED
  BY <1>1, <1>2

\* Before its dispatch t hangs under p already or under nobody.
LEMMA NoOtherParent ==
  ASSUME OneParent, TreeInv, NEW t \in Tasks, NEW p \in ParentChoices[t]
  PROVE  nodes[t].parent \in {p, NoTask}
<1>1. CASE nodes[t].status = "absent"
  <2>1. nodes[t] = NoNode /\ NoNode.parent = NoTask
    BY <1>1 DEF TreeInv, InPlace, NoNode
  <2> QED
    BY <2>1
<1>2. CASE nodes[t].status # "absent"
  BY <1>2 DEF TreeInv, InPlace, OneParent
<1> QED
  BY <1>1, <1>2

\* A list within a limit stays within it when one leaves, or one comes to a
\* list that was below it.
LEMMA ListWithin ==
  ASSUME NEW A \in SUBSET Tasks, NEW t \in Tasks, NEW limit \in Nat, Cardinality(A) <= limit
  PROVE  /\ Cardinality(A \ {t}) <= limit
         /\ Cardinality(A) < limit => Cardinality(A \cup {t}) <= limit
<1>1. IsFiniteSet(A) /\ IsFiniteSet(A \ {t}) /\ IsFiniteSet(A \cup {t})
  BY SchedulerAssumption, FS_Subset
<1>2. Cardinality(A) \in Nat /\ Cardinality(A \ {t}) \in Nat /\ Cardinality(A \cup {t}) \in Nat
  BY <1>1, FS_CardinalityType
<1>3. Cardinality(A \cup {t}) <= Cardinality(A) + 1
  <2>1. Cardinality(A \cup {t}) = Cardinality(A) \/ Cardinality(A \cup {t}) = Cardinality(A) + 1
    BY <1>1, FS_AddElement
  <2> QED
    BY <1>2, <2>1
<1>4. Cardinality(A \ {t}) <= Cardinality(A)
  BY <1>1, FS_Subset
<1> QED
  BY <1>2, <1>3, <1>4

\* The node of a validated request goes in: queued, or started at once.
LEMMA PlaceStep ==
  ASSUME OneParent, LedgerInv, TreeInv,
         NEW t \in Tasks, NEW p \in ParentChoices[t], NEW perms,
         validateDispatchAdmission(t, p, perms),
         NEW m, m.parent = p, m.depth = DepthUnder(p), m.root = RootUnder(t, p), m.status # "absent",
         nodes' = [nodes EXCEPT ![t] = m], children' = AddChild(p, t),
         recommendations' = recommendations
  PROVE  TreeInv'
<1>1. nodes \in [Tasks -> SchedulerNode] /\ children \in [Tasks -> SUBSET Tasks] /\ p \in Tasks \cup {NoTask}
  BY SchedulerAssumption DEF LedgerInv, TypeOK
<1>2. nodes'[t] = m /\ \A u \in Tasks : u # t => nodes'[u] = nodes[u]
  BY <1>1
<1>3. \A u \in Tasks : InPlace(u)'
  BY <1>2, RequestInPlace DEF TreeInv, InPlace
<1>4. t \notin Active
  BY DEF validateDispatchAdmission, isTaskTracked, Active
<1>5. RecommendationsFromRunning'
  <2>1. Active \subseteq Active'
    BY <1>2, <1>4 DEF Active
  <2> QED
    BY <2>1 DEF TreeInv, RecommendationsFromRunning
<1>6. FanOutBounded'
  <2> SUFFICES ASSUME NEW q \in Tasks
               PROVE  /\ children'[q] = {u \in Tasks : nodes'[u].parent = q}
                      /\ Cardinality(children'[q]) <= MAX_DIRECT_FAN_OUT
    BY DEF FanOutBounded
  <2>1. /\ children[q] = {u \in Tasks : nodes[u].parent = q}
        /\ Cardinality(children[q]) <= MAX_DIRECT_FAN_OUT /\ q # NoTask
        /\ nodes[t].parent \in {p, NoTask}
    BY NoOtherParent, SchedulerAssumption DEF TreeInv, FanOutBounded
  <2>2. CASE q # p
    <3>1. children'[q] = children[q]
      BY <1>1, <2>2 DEF AddChild
    <3> QED
      BY <1>2, <2>1, <2>2, <3>1
  <2>3. CASE q = p
    <3>1. children'[q] = children[q] \cup {t}
      BY <1>1, <2>1, <2>3 DEF AddChild
    <3>2. Cardinality(children[q]) < MAX_DIRECT_FAN_OUT
      BY <2>1, <2>3 DEF validateDispatchAdmission
    <3>3. Cardinality(children'[q]) <= MAX_DIRECT_FAN_OUT
      <4>1. children[q] \in SUBSET Tasks /\ MAX_DIRECT_FAN_OUT \in Nat
        BY <1>1, SchedulerAssumption
      <4> QED
        BY <2>1, <3>1, <3>2, <4>1, ListWithin
    <3> QED
      BY <1>2, <2>1, <2>3, <3>1, <3>3
  <2> QED
    BY <2>2, <2>3
<1> QED
  BY <1>3, <1>5, <1>6 DEF TreeInv

\* A node that was queued and not started goes out, from its parent's list too.
LEMMA UnplaceStep ==
  ASSUME OneParent, LedgerInv, TreeInv,
         NEW t \in Tasks, NEW p \in ParentChoices[t], NEW perms,
         validateDispatchAdmission(t, p, perms),
         nodes' = [nodes EXCEPT ![t] = NoNode], children' = RemoveChild(p, t),
         recommendations' = recommendations
  PROVE  TreeInv'
<1>1. nodes \in [Tasks -> SchedulerNode] /\ children \in [Tasks -> SUBSET Tasks] /\ p \in Tasks \cup {NoTask}
  BY SchedulerAssumption DEF LedgerInv, TypeOK
<1>2. nodes'[t] = NoNode /\ \A u \in Tasks : u # t => nodes'[u] = nodes[u]
  BY <1>1
<1>3. NoNode.parent = NoTask /\ NoNode.status = "absent" /\ NoNode.depth = 0
  BY DEF NoNode
<1>4. \A u \in Tasks : InPlace(u)'
  BY <1>2, <1>3, SchedulerAssumption DEF TreeInv, InPlace
<1>5. t \notin Active
  BY DEF validateDispatchAdmission, isTaskTracked, Active
<1>6. RecommendationsFromRunning'
  <2>1. Active \subseteq Active'
    BY <1>2, <1>5 DEF Active
  <2> QED
    BY <2>1 DEF TreeInv, RecommendationsFromRunning
<1>7. FanOutBounded'
  <2> SUFFICES ASSUME NEW q \in Tasks
               PROVE  /\ children'[q] = {u \in Tasks : nodes'[u].parent = q}
                      /\ Cardinality(children'[q]) <= MAX_DIRECT_FAN_OUT
    BY DEF FanOutBounded
  <2>1. /\ children[q] = {u \in Tasks : nodes[u].parent = q}
        /\ Cardinality(children[q]) <= MAX_DIRECT_FAN_OUT /\ q # NoTask
        /\ nodes[t].parent \in {p, NoTask}
    BY NoOtherParent, SchedulerAssumption DEF TreeInv, FanOutBounded
  <2>2. CASE q # p
    <3>1. children'[q] = children[q]
      BY <1>1, <2>2 DEF RemoveChild
    <3> QED
      BY <1>2, <1>3, <2>1, <2>2, <3>1
  <2>3. CASE q = p
    <3>1. children'[q] = children[q] \ {t}
      BY <1>1, <2>1, <2>3 DEF RemoveChild
    <3>2. Cardinality(children'[q]) <= MAX_DIRECT_FAN_OUT
      <4>1. children[q] \in SUBSET Tasks /\ MAX_DIRECT_FAN_OUT \in Nat
        BY <1>1, SchedulerAssumption
      <4> QED
        BY <2>1, <3>1, <4>1, ListWithin
    <3> QED
      BY <1>2, <1>3, <2>1, <3>1, <3>2
  <2> QED
    BY <2>2, <2>3
<1> QED
  BY <1>4, <1>6, <1>7 DEF TreeInv

\* What leaves keeps its place and loses its recommendation.
LEMMA LeaveTree ==
  ASSUME LedgerInv, TreeInv, NEW r, NEW S, S \subseteq Tasks,
         \A t \in S : nodes[t].status # "absent",
         NEW terminal \in [Tasks -> {"completed", "cancelled"}], NEW actuals,
         Leave(r, S, terminal, actuals)
  PROVE  TreeInv'
<1>1. /\ nodes' = [u \in Tasks |->
           IF u \in S THEN [nodes[u] EXCEPT !.status = terminal[u]] ELSE nodes[u]]
      /\ children' = children /\ recommendations' = recommendations \ S
  BY DEF Leave, RecommendationsWithout
<1>2. ASSUME NEW t \in Tasks
      PROVE  /\ nodes'[t].parent = nodes[t].parent /\ nodes'[t].depth = nodes[t].depth
             /\ nodes'[t].root = nodes[t].root
             /\ nodes'[t] = nodes[t] \/ (nodes[t].status # "absent" /\ nodes'[t].status # "absent")
             /\ t \notin S => nodes'[t] = nodes[t]
  <2>1. nodes[t] \in SchedulerNode /\ terminal[t] \in NodeStatus /\ terminal[t] # "absent"
    BY DEF LedgerInv, TypeOK, NodeStatus
  <2>2. CASE t \in S
    BY <1>1, <2>1, <2>2, SchedulerNodes
  <2>3. CASE t \notin S
    BY <1>1, <2>3
  <2> QED
    BY <2>2, <2>3
<1>3. recommendations' \subseteq Active'
  BY <1>1, <1>2 DEF TreeInv, RecommendationsFromRunning, Active
<1> QED
  BY <1>1, <1>2, <1>3, PlacesStay

LEMMA NextTreeInv ==
  ASSUME OneParent, LedgerInv, TreeInv, [Next]_vars PROVE TreeInv'
<1>1. ASSUME NEW t \in Tasks, NEW p \in ParentChoices[t], NEW c \in Checkouts,
             NEW perms \in PermissionChoices,
             \/ queueDispatch(t, p, c, perms)
             \/ admitDispatch(t, p, c, perms)
             \/ admitDispatchDenied(t, p, c, perms)
      PROVE  TreeInv'
  <2> DEFINE n == QueuedNode(t, p, c, perms)
  <2>1. validateDispatchAdmission(t, p, perms)
    BY <1>1 DEF queueDispatch, admitDispatch, admitDispatchDenied
  <2>2. /\ n \in SchedulerNode /\ n.status = "queued"
        /\ n.parent = p /\ n.depth = DepthUnder(p) /\ n.root = RootUnder(t, p)
    BY <2>1, QueuedNodeOK DEF QueuedNode
  <2> HIDE DEF n
  <2>3. CASE queueDispatch(t, p, c, perms)
    <3>1. /\ nodes' = [nodes EXCEPT ![t] = n] /\ children' = AddChild(p, t)
          /\ recommendations' = recommendations
      BY <2>3 DEF queueDispatch, n
    <3> QED
      BY <2>1, <2>2, <3>1, PlaceStep
  <2>4. CASE admitDispatch(t, p, c, perms)
    <3> DEFINE m == [n EXCEPT !.status = "active"]
    <3>1. /\ nodes' = [nodes EXCEPT ![t] = m] /\ children' = AddChild(p, t)
          /\ recommendations' = recommendations
      BY <2>4 DEF admitDispatch, Start, n
    <3>2. m.status = "active" /\ m.parent = p /\ m.depth = DepthUnder(p) /\ m.root = RootUnder(t, p)
      BY <2>2, SchedulerNodes DEF NodeStatus
    <3> HIDE DEF m
    <3> QED
      BY <2>1, <3>1, <3>2, PlaceStep
  <2>5. CASE admitDispatchDenied(t, p, c, perms)
    <3>1. /\ nodes' = [nodes EXCEPT ![t] = NoNode] /\ children' = RemoveChild(p, t)
          /\ recommendations' = recommendations
      BY <2>5 DEF admitDispatchDenied
    <3> QED
      BY <2>1, <3>1, UnplaceStep
  <2> QED
    BY <1>1, <2>3, <2>4, <2>5
<1>2. ASSUME NEW t \in Tasks, startQueuedDispatch(t) PROVE TreeInv'
  <2> DEFINE m == [nodes[t] EXCEPT !.status = "active"]
  <2>1. /\ nodes \in [Tasks -> SchedulerNode] /\ nodes' = [nodes EXCEPT ![t] = m]
        /\ children' = children /\ recommendations' = recommendations
        /\ nodes[t].status = "queued"
    BY <1>2 DEF LedgerInv, TypeOK, startQueuedDispatch, Start
  <2>2. /\ m.status = "active" /\ m.parent = nodes[t].parent
        /\ m.depth = nodes[t].depth /\ m.root = nodes[t].root
    BY <2>1, SchedulerNodes DEF NodeStatus
  <2> HIDE DEF m
  <2>3. nodes'[t] = m /\ \A u \in Tasks : u # t => nodes'[u] = nodes[u]
    BY <2>1
  <2>4. recommendations' \subseteq Active'
    BY <2>1, <2>2, <2>3 DEF TreeInv, RecommendationsFromRunning, Active
  <2> QED
    BY <2>1, <2>2, <2>3, <2>4, PlacesStay
<1>3. ASSUME NEW t \in Tasks, NEW a, NEW terminal \in {"completed", "cancelled"},
             finishDispatch(t, a, terminal)
      PROVE  TreeInv'
  <2> DEFINE r == nodes[t].root
             rest == IF WallExhaustedWithout(r, t) THEN Cancellable(r) \ {t} ELSE {}
             ends == [x \in Tasks |-> IF x = t THEN terminal ELSE "cancelled"]
             reported == [x \in Tasks |-> IF x = t THEN a ELSE UnknownActuals]
  <2>1. nodes[t].status = "active" /\ Leave(r, {t} \cup rest, ends, reported)
    BY <1>3 DEF finishDispatch
  <2>2. r \in Tasks
    BY <2>1 DEF LedgerInv, Rooted
  <2>3. {t} \cup rest \subseteq Tasks /\ \A u \in {t} \cup rest : nodes[u].status # "absent"
    BY <2>1, <2>2, CancellablePresent
  <2>4. ends \in [Tasks -> {"completed", "cancelled"}]
    OBVIOUS
  <2> HIDE DEF r, rest, ends, reported
  <2> QED
    BY <2>1, <2>3, <2>4, LeaveTree
<1>4. ASSUME NEW r \in Tasks, NEW actuals, cancelRoot(r, actuals) PROVE TreeInv'
  <2> DEFINE ends == [t \in Tasks |-> "cancelled"]
  <2>1. Leave(r, Cancellable(r), ends, actuals) /\ ends \in [Tasks -> {"completed", "cancelled"}]
    BY <1>4 DEF cancelRoot
  <2> HIDE DEF ends
  <2> QED
    BY <2>1, CancellablePresent, LeaveTree
<1>5. ASSUME UNCHANGED <<nodes, children>>, recommendations' \subseteq Active
      PROVE  TreeInv'
  <2>1. Active' = Active
    BY <1>5 DEF Active
  <2> QED
    BY <1>5, <2>1, PlacesStay
<1>6. CASE \E t \in Tasks : submitRecommendation(t)
  BY <1>5, <1>6 DEF submitRecommendation, TreeInv, RecommendationsFromRunning, Active
<1>7. CASE Tick
  BY <1>5, <1>7 DEF Tick, TreeInv, RecommendationsFromRunning
<1>8. CASE UNCHANGED vars
  BY <1>5, <1>8 DEF vars, TreeInv, RecommendationsFromRunning
<1>9. ASSUME NEW t \in Tasks, NEW a \in ActualsChoices, completeDispatch(t, a) \/ cancelDispatch(t, a)
      PROVE  TreeInv'
  BY <1>3, <1>9 DEF completeDispatch, cancelDispatch
<1> QED
  BY <1>1, <1>2, <1>4, <1>6, <1>7, <1>8, <1>9 DEF Next

\* Where every task has one parent, the nodes, the child lists and the pending
\* recommendations make up one bounded tree, although refused starts take
\* nodes out and re-dispatches put them back above children that stayed
\* (delegation-scheduler.ts:288-363, 640-730, 845-860).
THEOREM TreeConsistentHolds == OneParent => (Spec => []TreeConsistent)
<1> SUFFICES ASSUME OneParent PROVE Spec => []TreeConsistent
  OBVIOUS
<1>1. Init => TreeInv
  BY InitTreeInv
<1>2. LedgerInv /\ TreeInv /\ [Next]_vars => TreeInv'
  BY NextTreeInv
<1>3. LedgerInv /\ TreeInv => TreeConsistent
  BY TreeInvConsistent
<1> QED
  BY <1>1, <1>2, <1>3, SpecLedgerInv, PTL DEF Spec
=============================================================================
