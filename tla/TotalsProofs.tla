---------------------------- MODULE TotalsProofs ----------------------------
(***************************************************************************)
(* What a total over a finite set is: a number that changes by what one of *)
(* its summands changes.  The sum is a fold, a recursive function over the *)
(* subsets; what is proved of it by induction on their size goes by the    *)
(* least counterexample.                                                   *)
(***************************************************************************)
EXTENDS Totals, FiniteSetTheorems, WellFoundedInduction, TLAPS

\* The element of a set that the fold takes first.
FirstTaken(T) == CHOOSE x \in T : TRUE

\* The totals of f over the subsets of S, as the fold computes them.
AreTotals(h, f, S) ==
    h = [T \in SUBSET S |-> IF T = {} THEN 0 ELSE f[FirstTaken(T)] + h[T \ {FirstTaken(T)}]]

\* A set of numbers has a least one.
LEMMA LeastExists ==
    ASSUME NEW numbers \in SUBSET Nat, numbers # {}
    PROVE  \E n \in numbers : \A m \in numbers : n <= m
<1>. DEFINE Below == {pair \in Nat \X Nat : pair[1] < pair[2]}
<1>1. Below = OpToRel(<, Nat)
  BY DEF OpToRel
<1>2. IsWellFoundedOn(Below, Nat)
  BY <1>1, NatLessThanWellFounded
<1>3. \A m, n \in Nat : m < n => <<m, n>> \in Below
  OBVIOUS
<1>. HIDE DEF Below
<1>4. PICK n \in numbers : \A m \in numbers : <<m, n>> \notin Below
  BY <1>2, WFMin
<1>5. \A m \in numbers : ~(m < n)
  BY <1>3, <1>4
<1>. QED
  BY <1>5

\* What holds of a set as soon as it holds of the set without any one of its
\* elements, holds of every subset of a finite set.
LEMMA SubsetInduction ==
    ASSUME NEW S, IsFiniteSet(S), NEW good,
           \A T \in SUBSET S : (\A x \in T : T \ {x} \in good) => T \in good
    PROVE  \A T \in SUBSET S : T \in good
<1>1. SUFFICES ASSUME NEW U \in SUBSET S, U \notin good PROVE FALSE
  OBVIOUS
<1>2. \A T \in SUBSET S : IsFiniteSet(T) /\ Cardinality(T) \in Nat
  BY FS_Subset, FS_CardinalityType
<1>. DEFINE sizes == {n \in Nat : \E T \in SUBSET S : T \notin good /\ Cardinality(T) = n}
<1>3. sizes \in SUBSET Nat /\ Cardinality(U) \in sizes
  BY <1>1, <1>2
<1>4. PICK n \in sizes : \A m \in sizes : n <= m
  <2>. HIDE DEF sizes
  <2>. QED BY <1>3, LeastExists
<1>5. PICK T \in SUBSET S : T \notin good /\ Cardinality(T) = n
  OBVIOUS
<1>6. PICK x \in T : T \ {x} \notin good
  BY <1>5
<1>7. Cardinality(T \ {x}) = n - 1 /\ T \ {x} \in SUBSET S
  BY <1>2, <1>5, <1>6, FS_RemoveElement
<1>8. n - 1 \in sizes
  BY <1>2, <1>6, <1>7
<1>. HIDE DEF sizes
<1>. QED
  BY <1>3, <1>4, <1>8

\* For a finite set the recursion of the fold has a solution: otherwise there
\* is a least n for which none covers the subsets of at most n elements.
LEMMA TotalsExist ==
    ASSUME NEW S, IsFiniteSet(S), NEW f
    PROVE  \E h : AreTotals(h, f, S)
<1>. DEFINE Small(n) == {T \in SUBSET S : Cardinality(T) <= n}
            Step(h, T) == IF T = {} THEN 0 ELSE f[FirstTaken(T)] + h[T \ {FirstTaken(T)}]
            Partial(h, n) == h = [T \in Small(n) |-> Step(h, T)]
            failing == {n \in Nat : ~\E h : Partial(h, n)}
<1>1. \A T \in SUBSET S : IsFiniteSet(T) /\ Cardinality(T) \in Nat
  BY FS_Subset, FS_CardinalityType
<1>2. \A n \in Nat : n # 0 /\ (\E h : Partial(h, n - 1)) => \E h : Partial(h, n)
  <2>. SUFFICES ASSUME NEW n \in Nat, n # 0, NEW h, Partial(h, n - 1)
                PROVE  \E k : Partial(k, n)
    OBVIOUS
  <2>. DEFINE k == [T \in Small(n) |-> Step(h, T)]
  <2>1. ASSUME NEW T \in Small(n), T # {}
        PROVE  k[T \ {FirstTaken(T)}] = h[T \ {FirstTaken(T)}]
    <3>. DEFINE U == T \ {FirstTaken(T)}
    <3>1. FirstTaken(T) \in T
      BY <2>1 DEF FirstTaken
    <3>2. U \in SUBSET S /\ Cardinality(U) = Cardinality(T) - 1
      BY <1>1, <3>1, FS_RemoveElement
    <3>3. U \in Small(n - 1) /\ U \in Small(n)
      BY <1>1, <3>2
    <3>. HIDE DEF U, Small, Step
    <3>4. h[U] = Step(h, U)
      BY <3>3
    <3>5. k[U] = Step(h, U)
      BY <3>3
    <3>. QED
      BY <3>4, <3>5 DEF U
  <2>2. \A T \in Small(n) : Step(h, T) = Step(k, T)
    <3>. HIDE DEF k, Small
    <3>. SUFFICES ASSUME NEW T \in Small(n) PROVE Step(h, T) = Step(k, T)
      OBVIOUS
    <3>1. CASE T = {}
      BY <3>1
    <3>2. CASE T # {}
      BY <2>1, <3>2
    <3>. QED BY <3>1, <3>2
  <2>3. Partial(k, n)
    <3>. HIDE DEF Step, Small
    <3>. QED BY <2>2
  <2>. QED
    BY <2>3
<1>3. \E h : Partial(h, 0)
  <2>. DEFINE h == [T \in Small(0) |-> 0]
  <2>1. \A T \in Small(0) : T = {}
    BY <1>1, FS_EmptySet
  <2>2. \A T \in Small(0) : Step(h, T) = 0
    BY <2>1
  <2>3. Partial(h, 0)
    <3>. HIDE DEF Step, Small
    <3>. QED BY <2>2
  <2>. QED BY <2>3
<1>4. failing = {}
  <2>1. SUFFICES ASSUME failing # {} PROVE FALSE
    OBVIOUS
  <2>2. PICK n \in failing : \A m \in failing : n <= m
    <3>1. failing \in SUBSET Nat
      OBVIOUS
    <3>. HIDE DEF failing
    <3>. QED BY <2>1, <3>1, LeastExists
  <2>3. n \in Nat /\ ~\E h : Partial(h, n)
    OBVIOUS
  <2>. HIDE DEF Partial
  <2>4. n # 0
    BY <1>3, <2>3
  <2>5. n - 1 \in failing
    BY <1>2, <2>3, <2>4
  <2>. QED
    BY <2>2, <2>3, <2>5
<1>5. Cardinality(S) \in Nat
  BY FS_CardinalityType
<1>6. PICK h : Partial(h, Cardinality(S))
  <2>. HIDE DEF Partial
  <2>. QED BY <1>4, <1>5
<1>7. Small(Cardinality(S)) = SUBSET S
  BY FS_Subset
<1>8. h = [T \in SUBSET S |-> Step(h, T)]
  <2>. HIDE DEF Step, Small
  <2>. QED BY <1>6, <1>7
<1>. QED
  BY <1>8 DEF AreTotals

\* The fold is one of these solutions.
LEMMA TotalUnfolds ==
    ASSUME NEW S, IsFiniteSet(S), NEW f
    PROVE  \E h : AreTotals(h, f, S) /\ Total(f, S) = h[S]
<1>. DEFINE P(h) == h = [T \in SUBSET S |->
            IF T = {} THEN 0 ELSE f[FirstTaken(T)] + h[T \ {FirstTaken(T)}]]
<1>0. PICK h : AreTotals(h, f, S)
  BY TotalsExist
<1>1. P(h)
  BY <1>0 DEF AreTotals, FirstTaken
<1>2. P(CHOOSE k : P(k))
  BY <1>1
<1>3. Total(f, S) = (CHOOSE k : P(k))[S]
  BY DEF Total, MapThenSumSet, MapThenFoldSet, FirstTaken
<1>. QED
  BY <1>2, <1>3 DEF AreTotals, FirstTaken

\* Totals of numbers are numbers.
LEMMA TotalsAreNumbers ==
    ASSUME NEW S, IsFiniteSet(S), NEW f, \A x \in S : f[x] \in Nat, NEW h, AreTotals(h, f, S)
    PROVE  \A T \in SUBSET S : h[T] \in Nat
<1>. DEFINE good == {T \in SUBSET S : h[T] \in Nat}
<1>1. ASSUME NEW T \in SUBSET S, \A x \in T : T \ {x} \in good PROVE T \in good
  <2>1. CASE T = {}
    BY <2>1 DEF AreTotals
  <2>2. CASE T # {}
    <3>. DEFINE z == FirstTaken(T)
    <3>1. z \in T
      BY <2>2 DEF FirstTaken
    <3>2. h[T] = f[z] + h[T \ {z}]
      BY <2>2 DEF AreTotals
    <3>. HIDE DEF z
    <3>3. h[T \ {z}] \in Nat /\ f[z] \in Nat
      BY <1>1, <3>1
    <3>. QED
      BY <3>2, <3>3
  <2>. QED
    BY <2>1, <2>2
<1>2. \A T \in SUBSET S : T \in good
  <2>. HIDE DEF good
  <2>. QED BY <1>1, SubsetInduction
<1>. QED
  BY <1>2

\* Whichever element the fold chooses, each one counts once.
LEMMA TotalsRemove ==
    ASSUME NEW S, IsFiniteSet(S), NEW f \in [S -> Nat], NEW h, AreTotals(h, f, S)
    PROVE  \A T \in SUBSET S : \A y \in T : h[T] = f[y] + h[T \ {y}]
<1>. DEFINE good == {T \in SUBSET S : \A y \in T : h[T] = f[y] + h[T \ {y}]}
<1>n. \A T \in SUBSET S : h[T] \in Nat
  BY TotalsAreNumbers
<1>1. ASSUME NEW T \in SUBSET S, \A x \in T : T \ {x} \in good PROVE T \in good
  <2>1. CASE T = {}
    BY <2>1
  <2>2. CASE T # {}
    <3>. DEFINE z == FirstTaken(T)
    <3>1. z \in T
      BY <2>2 DEF FirstTaken
    <3>2. h[T] = f[z] + h[T \ {z}]
      BY <2>2 DEF AreTotals
    <3>. HIDE DEF z
    <3>3. ASSUME NEW y \in T, y # z PROVE h[T] = f[y] + h[T \ {y}]
      <4>. DEFINE rest == h[(T \ {z}) \ {y}]
      <4>1. h[T \ {z}] = f[y] + rest
        BY <1>1, <3>1, <3>3
      <4>2. h[T \ {y}] = f[z] + h[(T \ {y}) \ {z}]
        BY <1>1, <3>1, <3>3
      <4>3. (T \ {z}) \ {y} = (T \ {y}) \ {z}
        OBVIOUS
      <4>4. f[y] \in Nat /\ f[z] \in Nat /\ rest \in Nat
        BY <1>n, <3>1
      <4>5. h[T \ {y}] = f[z] + rest
        BY <4>2, <4>3
      <4>. HIDE DEF rest
      <4>. QED
        BY <3>2, <4>1, <4>4, <4>5
    <3>. QED
      BY <3>2, <3>3
  <2>. QED
    BY <2>1, <2>2
<1>2. \A T \in SUBSET S : T \in good
  <2>. HIDE DEF good
  <2>. QED BY <1>1, SubsetInduction
<1>. QED
  BY <1>2

\* Totals over sets without y do not depend on what y counts.
LEMMA TotalsAgree ==
    ASSUME NEW S, IsFiniteSet(S), NEW f, NEW e, NEW h, AreTotals(h, f, S), NEW k, AreTotals(k, e, S),
           NEW y, \A x \in S : x # y => e[x] = f[x]
    PROVE  \A T \in SUBSET S : y \notin T => k[T] = h[T]
<1>. DEFINE good == {T \in SUBSET S : y \notin T => k[T] = h[T]}
<1>1. ASSUME NEW T \in SUBSET S, \A x \in T : T \ {x} \in good PROVE T \in good
  <2>1. CASE T = {}
    BY <2>1 DEF AreTotals
  <2>2. CASE T # {} /\ y \notin T
    <3>. DEFINE z == FirstTaken(T)
    <3>1. z \in T
      BY <2>2 DEF FirstTaken
    <3>2. h[T] = f[z] + h[T \ {z}] /\ k[T] = e[z] + k[T \ {z}]
      BY <2>2 DEF AreTotals
    <3>. HIDE DEF z
    <3>3. k[T \ {z}] = h[T \ {z}] /\ e[z] = f[z]
      BY <1>1, <2>2, <3>1
    <3>. QED
      BY <3>2, <3>3
  <2>. QED
    BY <2>1, <2>2
<1>2. \A T \in SUBSET S : T \in good
  <2>. HIDE DEF good
  <2>. QED BY <1>1, SubsetInduction
<1>. QED
  BY <1>2

LEMMA TotalIsNumber ==
    ASSUME NEW S, IsFiniteSet(S), NEW f, \A x \in S : f[x] \in Nat
    PROVE  Total(f, S) \in Nat
BY TotalUnfolds, TotalsAreNumbers

\* A total changes by what one summand changes.
LEMMA TotalChanges ==
    ASSUME NEW S, IsFiniteSet(S), NEW f \in [S -> Nat], NEW e \in [S -> Nat],
           NEW y \in S, \A x \in S : x # y => e[x] = f[x]
    PROVE  Total(e, S) + f[y] = Total(f, S) + e[y]
<1>1. PICK h : AreTotals(h, f, S) /\ Total(f, S) = h[S]
  BY TotalUnfolds
<1>2. PICK k : AreTotals(k, e, S) /\ Total(e, S) = k[S]
  BY TotalUnfolds
<1>3. h[S] = f[y] + h[S \ {y}]
  BY <1>1, TotalsRemove
<1>4. k[S] = e[y] + k[S \ {y}]
  BY <1>2, TotalsRemove
<1>5. k[S \ {y}] = h[S \ {y}]
  BY <1>1, <1>2, TotalsAgree
<1>6. h[S \ {y}] \in Nat /\ f[y] \in Nat /\ e[y] \in Nat
  BY <1>1, TotalsAreNumbers
<1>. QED
  BY <1>1, <1>2, <1>3, <1>4, <1>5, <1>6

\* A total of zeros is zero.
LEMMA TotalOfZeros ==
    ASSUME NEW S, IsFiniteSet(S), NEW f, \A x \in S : f[x] = 0
    PROVE  Total(f, S) = 0
<1>1. PICK h : AreTotals(h, f, S) /\ Total(f, S) = h[S]
  BY TotalUnfolds
<1>. DEFINE good == {T \in SUBSET S : h[T] = 0}
<1>2. ASSUME NEW T \in SUBSET S, \A x \in T : T \ {x} \in good PROVE T \in good
  <2>1. CASE T = {}
    BY <1>1, <2>1 DEF AreTotals
  <2>2. CASE T # {}
    <3>. DEFINE z == FirstTaken(T)
    <3>1. z \in T
      BY <2>2 DEF FirstTaken
    <3>2. h[T] = f[z] + h[T \ {z}]
      BY <1>1, <2>2 DEF AreTotals
    <3>. HIDE DEF z
    <3>3. h[T \ {z}] = 0 /\ f[z] = 0
      BY <1>2, <3>1
    <3>. QED
      BY <3>2, <3>3
  <2>. QED
    BY <2>1, <2>2
<1>3. \A T \in SUBSET S : T \in good
  <2>. HIDE DEF good
  <2>. QED BY <1>2, SubsetInduction
<1>. QED
  BY <1>1, <1>3
=============================================================================
