------------------------------ MODULE Induction ------------------------------
(***************************************************************************)
(* Induction over the natural numbers in the form of facts about sets, and *)
(* what follows from it for sums that are defined by recursion, over an    *)
(* interval of numbers and over a finite set.                              *)
(***************************************************************************)
EXTENDS Integers, FiniteSetTheorems, TLAPS

(* A set of numbers has a least one.                                       *)
LEMMA Smallest ==
  ASSUME NEW S, S \subseteq Nat, S # {}
  PROVE  \E x \in S : \A y \in S : x <= y
<1>1. IsWellFoundedOn(OpToRel(<, Nat), Nat)
  BY NatLessThanWellFounded
<1>2. PICK x \in S : \A y \in S : <<y, x>> \notin OpToRel(<, Nat)
  BY <1>1, WFMin
<1>3. ASSUME NEW y \in S
      PROVE  x <= y
  <2>1. x \in Nat /\ y \in Nat /\ ~(y < x)
    BY <1>2 DEF OpToRel
  <2> QED BY <2>1
<1> QED BY <1>3

(* So has one that is bounded a greatest one.                              *)
LEMMA Greatest ==
  ASSUME NEW n \in Nat, NEW S, S \subseteq 0 .. n, S # {}
  PROVE  \E x \in S : \A y \in S : y <= x
<1> DEFINE T == {n - x : x \in S}
<1>1. T \subseteq Nat /\ T # {}
  OBVIOUS
<1>2. PICK t \in T : \A u \in T : t <= u
  BY <1>1, Smallest
<1>3. PICK x \in S : t = n - x
  BY <1>2
<1>4. ASSUME NEW y \in S
      PROVE  y <= x
  <2>1. n - x <= n - y
    BY <1>2, <1>3
  <2> QED BY <2>1
<1> QED BY <1>4

LEMMA InductionOnNat ==
  ASSUME NEW S, 0 \in S, \A n \in Nat : n \in S => n + 1 \in S
  PROVE  Nat \subseteq S
<1> SUFFICES ASSUME Nat \ S # {} PROVE FALSE
  OBVIOUS
<1>1. PICK x \in Nat \ S : \A y \in Nat \ S : x <= y
  BY Smallest
<1>2. x - 1 \in Nat /\ x - 1 \in S
  BY <1>1
<1>3. (x - 1) + 1 \in S
  BY <1>2
<1> QED BY <1>1, <1>3

(* f holds the sums of the first n values of g.                            *)
IsSum(f, g, n) ==
  f = [m \in 0 .. n |-> IF m = 0 THEN 0 ELSE f[m - 1] + g[m]]

LEMMA SumSteps ==
  ASSUME NEW f, NEW g, NEW n \in Nat, IsSum(f, g, n)
  PROVE  f[0] = 0 /\ \A m \in 1 .. n : f[m] = f[m - 1] + g[m]
  BY DEF IsSum

LEMMA SumExists ==
  ASSUME NEW g, NEW n \in Nat
  PROVE  \E f : IsSum(f, g, n)
<1> DEFINE S == {k \in Nat : \E f : IsSum(f, g, k)}
<1>1. 0 \in S
  <2> DEFINE f == [m \in 0 .. 0 |-> 0]
  <2>1. IsSum(f, g, 0)
    BY DEF IsSum
  <2> QED BY <2>1
<1>2. ASSUME NEW k \in Nat, k \in S
      PROVE  k + 1 \in S
  <2>1. PICK f : IsSum(f, g, k)
    BY <1>2
  <2> DEFINE h == [m \in 0 .. k + 1 |-> IF m = k + 1 THEN f[k] + g[m] ELSE f[m]]
  <2>2. \A m \in 0 .. k : f[m] = IF m = 0 THEN 0 ELSE f[m - 1] + g[m]
    BY <2>1 DEF IsSum
  <2>3. ASSUME NEW m \in 0 .. k + 1
        PROVE  h[m] = IF m = 0 THEN 0 ELSE h[m - 1] + g[m]
    <3>1. CASE m = k + 1
      BY <3>1
    <3>2. CASE m # k + 1
      BY <2>2, <3>2
    <3> QED BY <3>1, <3>2
  <2>4. h = [m \in 0 .. k + 1 |-> IF m = 0 THEN 0 ELSE h[m - 1] + g[m]]
    BY <2>3
  <2>5. IsSum(h, g, k + 1)
    BY <2>4 DEF IsSum
  <2> HIDE DEF h
  <2> QED BY <2>5
<1> HIDE DEF S
<1>3. n \in S
  BY <1>1, <1>2, InductionOnNat
<1> QED BY <1>3 DEF S

(* Sums of numbers are numbers.                                            *)
LEMMA SumType ==
  ASSUME NEW n \in Nat, NEW f, NEW g, IsSum(f, g, n), \A m \in 1 .. n : g[m] \in Nat
  PROVE  f[n] \in Nat
<1> DEFINE S == {k \in Nat : k <= n => f[k] \in Nat}
<1>1. 0 \in S
  BY SumSteps
<1>2. ASSUME NEW k \in Nat, k \in S
      PROVE  k + 1 \in S
  BY <1>2, SumSteps
<1> HIDE DEF S
<1>3. n \in S
  BY <1>1, <1>2, InductionOnNat
<1> QED BY <1>3 DEF S

(* Sums of the same values are the same.                                   *)
LEMMA SumSame ==
  ASSUME NEW n \in Nat, NEW f, NEW g, IsSum(f, g, n), NEW e, NEW h, IsSum(e, h, n),
         \A m \in 1 .. n : g[m] = h[m]
  PROVE  f[n] = e[n]
<1> DEFINE S == {k \in Nat : k <= n => f[k] = e[k]}
<1>1. 0 \in S
  BY SumSteps
<1>2. ASSUME NEW k \in Nat, k \in S
      PROVE  k + 1 \in S
  BY <1>2, SumSteps
<1> HIDE DEF S
<1>3. n \in S
  BY <1>1, <1>2, InductionOnNat
<1> QED BY <1>3 DEF S

(* A sum of nothing is zero.                                               *)
LEMMA SumOfNothing ==
  ASSUME NEW n \in Nat, NEW f, NEW g, IsSum(f, g, n), \A m \in 1 .. n : g[m] = 0
  PROVE  f[n] = 0
<1> DEFINE S == {k \in Nat : k <= n => f[k] = 0}
<1>1. 0 \in S
  BY SumSteps
<1>2. ASSUME NEW k \in Nat, k \in S
      PROVE  k + 1 \in S
  BY <1>2, SumSteps
<1> HIDE DEF S
<1>3. n \in S
  BY <1>1, <1>2, InductionOnNat
<1> QED BY <1>3 DEF S

-----------------------------------------------------------------------------
(* Sums over a finite set, taken in the order of CHOOSE as the folds of the*)
(* community modules do.                                                   *)
Pick(s) == CHOOSE x \in s : TRUE
IsFold(iter, f, S) ==
  iter = [s \in SUBSET S |-> IF s = {} THEN 0 ELSE f[Pick(s)] + iter[s \ {Pick(s)}]]
SumOver(f, S) ==
  LET iter[s \in SUBSET S] ==
        IF s = {} THEN 0
        ELSE LET x == CHOOSE x \in s : TRUE IN f[x] + iter[s \ {x}]
  IN  iter[S]

LEMMA PickIsElement ==
  ASSUME NEW s, s # {}
  PROVE  Pick(s) \in s
  BY DEF Pick

(* Induction over the subsets of a finite set.                             *)
LEMMA SubsetInduction ==
  ASSUME NEW S, IsFiniteSet(S), NEW T, {} \in T,
         \A s \in SUBSET S : s # {} /\ s \ {Pick(s)} \in T => s \in T
  PROVE  S \in T
<1> DEFINE N == {n \in Nat : \A s \in SUBSET S : Cardinality(s) = n => s \in T}
<1>1. 0 \in N
  <2>1. \A s \in SUBSET S : Cardinality(s) = 0 => s = {}
    BY FS_Subset, FS_EmptySet
  <2> QED BY <2>1
<1>2. ASSUME NEW n \in Nat, n \in N
      PROVE  n + 1 \in N
  <2>1. ASSUME NEW s \in SUBSET S, Cardinality(s) = n + 1
        PROVE  s \in T
    <3>1. IsFiniteSet(s) /\ s # {}
      BY <2>1, FS_Subset, FS_EmptySet
    <3>2. Pick(s) \in s
      BY <3>1, PickIsElement
    <3>3. Cardinality(s \ {Pick(s)}) = Cardinality(s) - 1
      BY <3>1, <3>2, FS_RemoveElement
    <3>4. s \ {Pick(s)} \in T
      BY <1>2, <2>1, <3>3
    <3> QED BY <3>1, <3>4
  <2> QED BY <2>1
<1> HIDE DEF N
<1>3. Nat \subseteq N
  BY <1>1, <1>2, InductionOnNat
<1>4. Cardinality(S) \in Nat
  BY FS_CardinalityType
<1> QED BY <1>3, <1>4 DEF N

LEMMA FoldExists ==
  ASSUME NEW f, NEW S, IsFiniteSet(S)
  PROVE  \E iter : IsFold(iter, f, S)
<1> DEFINE Up(n) == {s \in SUBSET S : Cardinality(s) <= n}
           Fits(h, n) == h = [s \in Up(n) |-> IF s = {} THEN 0
                                ELSE f[Pick(s)] + h[s \ {Pick(s)}]]
           N == {n \in Nat : \E h : Fits(h, n)}
<1>1. \A s \in SUBSET S : IsFiniteSet(s) /\ Cardinality(s) \in Nat
  BY FS_Subset, FS_CardinalityType
<1>2. ASSUME NEW s \in SUBSET S, s # {}
      PROVE  /\ s \ {Pick(s)} \in SUBSET S
             /\ Cardinality(s \ {Pick(s)}) = Cardinality(s) - 1
  BY <1>1, <1>2, FS_RemoveElement, PickIsElement
<1>3. 0 \in N
  <2> DEFINE h == [s \in Up(0) |-> 0]
  <2>1. \A s \in Up(0) : s = {}
    BY <1>1, FS_EmptySet
  <2>2. Fits(h, 0)
    BY <2>1
  <2> QED BY <2>2
<1>4. ASSUME NEW n \in Nat, n \in N
      PROVE  n + 1 \in N
  <2>1. PICK h : Fits(h, n)
    BY <1>4
  <2> DEFINE g == [s \in Up(n + 1) |-> IF s = {} THEN 0
                                       ELSE f[Pick(s)] + h[s \ {Pick(s)}]]
  <2>2. ASSUME NEW s \in Up(n)
        PROVE  s \in Up(n + 1) /\ g[s] = h[s]
    <3>1. s \in Up(n + 1)
      BY <1>1, <2>2
    <3>2. h[s] = IF s = {} THEN 0 ELSE f[Pick(s)] + h[s \ {Pick(s)}]
      BY <2>1, <2>2
    <3> QED BY <3>1, <3>2
  <2>3. ASSUME NEW s \in Up(n + 1), s # {}
        PROVE  g[s] = f[Pick(s)] + g[s \ {Pick(s)}]
    <3>1. s \ {Pick(s)} \in Up(n)
      BY <1>1, <1>2, <2>3
    <3> QED BY <2>2, <2>3, <3>1
  <2>4. Fits(g, n + 1)
    BY <2>3
  <2> HIDE DEF g, Fits
  <2> QED BY <2>4
<1> HIDE DEF N
<1>5. Cardinality(S) \in N
  BY <1>1, <1>3, <1>4, InductionOnNat
<1>6. Up(Cardinality(S)) = SUBSET S
  BY FS_Subset
<1>7. PICK h : Fits(h, Cardinality(S))
  BY <1>5 DEF N
<1> QED BY <1>6, <1>7 DEF IsFold

LEMMA FoldSteps ==
  ASSUME NEW iter, NEW f, NEW S, IsFold(iter, f, S)
  PROVE  /\ iter[{}] = 0
         /\ \A s \in SUBSET S : s # {} => iter[s] = f[Pick(s)] + iter[s \ {Pick(s)}]
  BY DEF IsFold

(* What a fold says of a set does not depend on the set it is taken over.  *)
LEMMA FoldUnique ==
  ASSUME NEW S, IsFiniteSet(S), NEW f, NEW g, NEW U, NEW V, NEW e, NEW h,
         S \subseteq U, S \subseteq V, IsFold(e, f, U), IsFold(h, g, V),
         \A x \in S : f[x] = g[x]
  PROVE  e[S] = h[S]
<1> DEFINE T == {s \in SUBSET S : e[s] = h[s]}
<1>1. {} \in T
  BY FoldSteps
<1>2. ASSUME NEW s \in SUBSET S, s # {}, s \ {Pick(s)} \in T
      PROVE  s \in T
  <2>1. e[s] = f[Pick(s)] + e[s \ {Pick(s)}] /\ h[s] = g[Pick(s)] + h[s \ {Pick(s)}]
    BY <1>2, FoldSteps
  <2> QED BY <1>2, <2>1, PickIsElement
<1> HIDE DEF T
<1>3. S \in T
  BY <1>1, <1>2, SubsetInduction
<1> QED BY <1>3 DEF T

LEMMA SumIsFold ==
  ASSUME NEW f, NEW S, IsFiniteSet(S)
  PROVE  \E iter : IsFold(iter, f, S) /\ SumOver(f, S) = iter[S]
<1> DEFINE iter == CHOOSE iter : IsFold(iter, f, S)
<1>1. IsFold(iter, f, S)
  BY FoldExists
<1>2. SumOver(f, S) = iter[S]
  BY DEF SumOver, IsFold, Pick
<1> HIDE DEF iter
<1> QED BY <1>1, <1>2

(* The sum over nothing, and over something.                               *)
LEMMA SumOverNothing ==
  ASSUME NEW f
  PROVE  SumOver(f, {}) = 0
  BY FS_EmptySet, SumIsFold, FoldSteps

LEMMA SumOverStep ==
  ASSUME NEW f, NEW S, IsFiniteSet(S), S # {}
  PROVE  SumOver(f, S) = f[Pick(S)] + SumOver(f, S \ {Pick(S)})
<1> DEFINE R == S \ {Pick(S)}
<1>1. IsFiniteSet(R)
  BY FS_RemoveElement
<1>2. PICK h : IsFold(h, f, S) /\ SumOver(f, S) = h[S]
  BY SumIsFold
<1>3. PICK e : IsFold(e, f, R) /\ SumOver(f, R) = e[R]
  BY <1>1, SumIsFold
<1>4. e[R] = h[R]
  BY <1>1, <1>2, <1>3, FoldUnique
<1>5. h[S] = f[Pick(S)] + h[R]
  BY <1>2, FoldSteps
<1> QED BY <1>2, <1>3, <1>4, <1>5

(* Induction for sums over subsets.                                        *)
LEMMA SumOverType ==
  ASSUME NEW S, IsFiniteSet(S), NEW f, \A x \in S : f[x] \in Nat
  PROVE  SumOver(f, S) \in Nat
<1> DEFINE T == {s \in SUBSET S : SumOver(f, s) \in Nat}
<1>1. {} \in T
  BY SumOverNothing
<1>2. ASSUME NEW s \in SUBSET S, s # {}, s \ {Pick(s)} \in T
      PROVE  s \in T
  <2>1. IsFiniteSet(s) /\ Pick(s) \in S
    BY <1>2, FS_Subset, PickIsElement
  <2>2. SumOver(f, s) = f[Pick(s)] + SumOver(f, s \ {Pick(s)})
    BY <1>2, <2>1, SumOverStep
  <2> QED BY <1>2, <2>1, <2>2
<1> HIDE DEF T
<1>3. S \in T
  BY <1>1, <1>2, SubsetInduction
<1> QED BY <1>3 DEF T

(* What is more everywhere, sums to more.                                  *)
LEMMA SumMonotone ==
  ASSUME NEW S, IsFiniteSet(S), NEW f, NEW g,
         \A x \in S : f[x] \in Nat /\ g[x] \in Nat /\ f[x] <= g[x]
  PROVE  SumOver(f, S) <= SumOver(g, S)
<1> DEFINE T == {s \in SUBSET S : SumOver(f, s) <= SumOver(g, s)}
<1>1. {} \in T
  BY SumOverNothing
<1>2. ASSUME NEW s \in SUBSET S, s # {}, s \ {Pick(s)} \in T
      PROVE  s \in T
  <2>1. IsFiniteSet(s) /\ Pick(s) \in S /\ IsFiniteSet(s \ {Pick(s)})
    BY <1>2, FS_Subset, PickIsElement
  <2>2. /\ SumOver(f, s) = f[Pick(s)] + SumOver(f, s \ {Pick(s)})
        /\ SumOver(g, s) = g[Pick(s)] + SumOver(g, s \ {Pick(s)})
    BY <1>2, <2>1, SumOverStep
  <2>3. SumOver(f, s \ {Pick(s)}) \in Nat /\ SumOver(g, s \ {Pick(s)}) \in Nat
    BY <2>1, SumOverType
  <2> QED BY <1>2, <2>1, <2>2, <2>3
<1> HIDE DEF T
<1>3. S \in T
  BY <1>1, <1>2, SubsetInduction
<1> QED BY <1>3 DEF T

(* Sums of multiples and of sums: if b h is at most a f + c g everywhere.  *)
LEMMA SumBounded ==
  ASSUME NEW S, IsFiniteSet(S), NEW f, NEW g, NEW h,
         NEW a \in Nat, NEW b \in Nat, NEW c \in Nat,
         \A x \in S : /\ f[x] \in Nat /\ g[x] \in Nat /\ h[x] \in Nat
                     /\ b * h[x] <= a * f[x] + c * g[x]
  PROVE  b * SumOver(h, S) <= a * SumOver(f, S) + c * SumOver(g, S)
<1> DEFINE T == {s \in SUBSET S :
                   b * SumOver(h, s) <= a * SumOver(f, s) + c * SumOver(g, s)}
<1>1. {} \in T
  BY SumOverNothing
<1>2. ASSUME NEW s \in SUBSET S, s # {}, s \ {Pick(s)} \in T
      PROVE  s \in T
  <2>1. IsFiniteSet(s) /\ Pick(s) \in S /\ IsFiniteSet(s \ {Pick(s)})
    BY <1>2, FS_Subset, PickIsElement
  <2>2. /\ SumOver(f, s) = f[Pick(s)] + SumOver(f, s \ {Pick(s)})
        /\ SumOver(g, s) = g[Pick(s)] + SumOver(g, s \ {Pick(s)})
        /\ SumOver(h, s) = h[Pick(s)] + SumOver(h, s \ {Pick(s)})
    BY <1>2, <2>1, SumOverStep
  <2>3. /\ SumOver(f, s \ {Pick(s)}) \in Nat /\ SumOver(g, s \ {Pick(s)}) \in Nat
        /\ SumOver(h, s \ {Pick(s)}) \in Nat
    BY <2>1, SumOverType
  <2>4. ASSUME NEW m \in Nat, NEW p \in Nat, NEW q \in Nat
        PROVE  m * (p + q) = m * p + m * q /\ m * p \in Nat
    OBVIOUS
  <2>5. /\ b * SumOver(h, s) = b * h[Pick(s)] + b * SumOver(h, s \ {Pick(s)})
        /\ a * SumOver(f, s) = a * f[Pick(s)] + a * SumOver(f, s \ {Pick(s)})
        /\ c * SumOver(g, s) = c * g[Pick(s)] + c * SumOver(g, s \ {Pick(s)})
    BY <2>1, <2>2, <2>3, <2>4
  <2>6. /\ b * h[Pick(s)] <= a * f[Pick(s)] + c * g[Pick(s)]
        /\ b * SumOver(h, s \ {Pick(s)})
             <= a * SumOver(f, s \ {Pick(s)}) + c * SumOver(g, s \ {Pick(s)})
    BY <1>2, <2>1
  <2>7. /\ b * h[Pick(s)] \in Nat /\ a * f[Pick(s)] \in Nat /\ c * g[Pick(s)] \in Nat
        /\ b * SumOver(h, s \ {Pick(s)}) \in Nat /\ a * SumOver(f, s \ {Pick(s)}) \in Nat
        /\ c * SumOver(g, s \ {Pick(s)}) \in Nat
    BY <2>1, <2>3, <2>4
  <2>8. b * SumOver(h, s) <= a * SumOver(f, s) + c * SumOver(g, s)
    BY <2>5, <2>6, <2>7
  <2> QED BY <2>8
<1> HIDE DEF T
<1>3. S \in T
  BY <1>1, <1>2, SubsetInduction
<1> QED BY <1>3 DEF T

(* Ones add up to how many there are.                                      *)
LEMMA SumOfOnes ==
  ASSUME NEW S, IsFiniteSet(S), NEW f, \A x \in S : f[x] = 1
  PROVE  SumOver(f, S) = Cardinality(S)
<1> DEFINE T == {s \in SUBSET S : SumOver(f, s) = Cardinality(s)}
<1>1. {} \in T
  BY SumOverNothing, FS_EmptySet
<1>2. ASSUME NEW s \in SUBSET S, s # {}, s \ {Pick(s)} \in T
      PROVE  s \in T
  <2>1. IsFiniteSet(s) /\ Pick(s) \in s
    BY <1>2, FS_Subset, PickIsElement
  <2>2. SumOver(f, s) = 1 + SumOver(f, s \ {Pick(s)})
    BY <1>2, <2>1, SumOverStep
  <2>3. Cardinality(s \ {Pick(s)}) = Cardinality(s) - 1 /\ Cardinality(s) \in Nat
    BY <2>1, FS_RemoveElement, FS_CardinalityType
  <2> QED BY <1>2, <2>2, <2>3
<1> HIDE DEF T
<1>3. S \in T
  BY <1>1, <1>2, SubsetInduction
<1> QED BY <1>3 DEF T

LEMMA SumOfZeros ==
  ASSUME NEW S, IsFiniteSet(S), NEW f, \A x \in S : f[x] = 0
  PROVE  SumOver(f, S) = 0
<1> DEFINE T == {s \in SUBSET S : SumOver(f, s) = 0}
<1>1. {} \in T
  BY SumOverNothing
<1>2. ASSUME NEW s \in SUBSET S, s # {}, s \ {Pick(s)} \in T
      PROVE  s \in T
  <2>1. IsFiniteSet(s) /\ Pick(s) \in S
    BY <1>2, FS_Subset, PickIsElement
  <2> QED BY <1>2, <2>1, SumOverStep
<1> HIDE DEF T
<1>3. S \in T
  BY <1>1, <1>2, SubsetInduction
<1> QED BY <1>3 DEF T

(* A sum of sums is the sum of the sums.                                   *)
LEMMA SumSplits ==
  ASSUME NEW S, IsFiniteSet(S), NEW f, NEW g, NEW h,
         \A x \in S : f[x] \in Nat /\ g[x] \in Nat /\ h[x] = f[x] + g[x]
  PROVE  SumOver(h, S) = SumOver(f, S) + SumOver(g, S)
<1> DEFINE T == {s \in SUBSET S : SumOver(h, s) = SumOver(f, s) + SumOver(g, s)}
<1>1. {} \in T
  BY SumOverNothing
<1>2. ASSUME NEW s \in SUBSET S, s # {}, s \ {Pick(s)} \in T
      PROVE  s \in T
  <2>1. IsFiniteSet(s) /\ Pick(s) \in S /\ IsFiniteSet(s \ {Pick(s)})
    BY <1>2, FS_Subset, PickIsElement
  <2>2. /\ SumOver(f, s) = f[Pick(s)] + SumOver(f, s \ {Pick(s)})
        /\ SumOver(g, s) = g[Pick(s)] + SumOver(g, s \ {Pick(s)})
        /\ SumOver(h, s) = h[Pick(s)] + SumOver(h, s \ {Pick(s)})
    BY <1>2, <2>1, SumOverStep
  <2>3. SumOver(f, s \ {Pick(s)}) \in Nat /\ SumOver(g, s \ {Pick(s)}) \in Nat
    BY <2>1, SumOverType
  <2> QED BY <1>2, <2>1, <2>2, <2>3
<1> HIDE DEF T
<1>3. S \in T
  BY <1>1, <1>2, SubsetInduction
<1> QED BY <1>3 DEF T

(* Raising one of the numbers raises the sum by as much.                   *)
LEMMA SumRaised ==
  ASSUME NEW S, IsFiniteSet(S), NEW f, NEW g, NEW x \in S, NEW a \in Nat,
         \A y \in S : f[y] \in Nat /\ g[y] = f[y] + (IF y = x THEN a ELSE 0)
  PROVE  SumOver(g, S) = SumOver(f, S) + a
<1> DEFINE T == {s \in SUBSET S :
                   SumOver(g, s) = SumOver(f, s) + (IF x \in s THEN a ELSE 0)}
<1>1. {} \in T
  BY SumOverNothing
<1>2. ASSUME NEW s \in SUBSET S, s # {}, s \ {Pick(s)} \in T
      PROVE  s \in T
  <2>1. IsFiniteSet(s) /\ Pick(s) \in s /\ IsFiniteSet(s \ {Pick(s)})
    BY <1>2, FS_Subset, PickIsElement
  <2>2. /\ SumOver(f, s) = f[Pick(s)] + SumOver(f, s \ {Pick(s)})
        /\ SumOver(g, s) = g[Pick(s)] + SumOver(g, s \ {Pick(s)})
    BY <1>2, <2>1, SumOverStep
  <2>3. SumOver(f, s \ {Pick(s)}) \in Nat
    BY <2>1, SumOverType
  <2>4. SumOver(g, s \ {Pick(s)}) =
          SumOver(f, s \ {Pick(s)}) + (IF x \in s \ {Pick(s)} THEN a ELSE 0)
    BY <1>2
  <2>5. /\ f[Pick(s)] \in Nat
        /\ g[Pick(s)] = f[Pick(s)] + (IF Pick(s) = x THEN a ELSE 0)
    BY <2>1
  <2>6. CASE Pick(s) = x
    BY <2>1, <2>2, <2>3, <2>4, <2>5, <2>6
  <2>7. CASE Pick(s) # x
    BY <2>1, <2>2, <2>3, <2>4, <2>5, <2>7
  <2> QED BY <2>6, <2>7
<1> HIDE DEF T
<1>3. S \in T
  BY <1>1, <1>2, SubsetInduction
<1> QED BY <1>3 DEF T

(* What is counted value by value adds up to what has any of the values.   *)
Having(S, c, I) == {x \in S : c[x] \in I}
LEMMA CountsAddUp ==
  ASSUME NEW set, IsFiniteSet(set), NEW value, NEW values, IsFiniteSet(values), NEW counts,
         \A i \in values : counts[i] = Cardinality(Having(set, value, {i}))
  PROVE  SumOver(counts, values) = Cardinality(Having(set, value, values))
<1> DEFINE Has(J) == Having(set, value, J)
           T == {J \in SUBSET values : SumOver(counts, J) = Cardinality(Has(J))}
<1>1. {} \in T
  <2>1. Has({}) = {}
    BY DEF Having
  <2> QED BY <2>1, SumOverNothing, FS_EmptySet
<1>2. ASSUME NEW J \in SUBSET values, J # {}, J \ {Pick(J)} \in T
      PROVE  J \in T
  <2> DEFINE R == J \ {Pick(J)}
             V == Having(set, value, {Pick(J)})
  <2>1. IsFiniteSet(J) /\ Pick(J) \in values /\ Pick(J) \in J
    BY <1>2, FS_Subset, PickIsElement
  <2>2. SumOver(counts, J) = Cardinality(V) + SumOver(counts, R)
    BY <1>2, <2>1, SumOverStep
  <2>3. Has(J) = V \cup Has(R) /\ V \cap Has(R) = {}
    BY <2>1 DEF Having
  <2>4. V \subseteq set /\ Has(R) \subseteq set
    BY DEF Having
  <2>5. SumOver(counts, R) = Cardinality(Has(R))
    BY <1>2
  <2> HIDE DEF V, R, Has
  <2>6. /\ IsFiniteSet(V) /\ IsFiniteSet(Has(R))
        /\ Cardinality(V) \in Nat /\ Cardinality(Has(R)) \in Nat
    BY <2>4, FS_Subset, FS_CardinalityType
  <2>7. Cardinality(V \cup Has(R)) = Cardinality(V) + Cardinality(Has(R)) - Cardinality(V \cap Has(R))
    BY <2>6, FS_Union
  <2>8. Cardinality(V \cap Has(R)) = 0
    BY <2>3, FS_EmptySet
  <2>9. SumOver(counts, J) = Cardinality(Has(J))
    BY <2>2, <2>3, <2>5, <2>6, <2>7, <2>8
  <2> QED BY <2>9 DEF Has
<1> HIDE DEF T
<1>3. values \in T
  BY <1>1, <1>2, SubsetInduction
<1> QED BY <1>3 DEF T
=============================================================================
