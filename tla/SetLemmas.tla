------------------------------ MODULE SetLemmas ------------------------------
(***************************************************************************)
(* Finite sets, for every proof that needs them: their members, their      *)
(* greatest and least, and the sum of a weight over one, as the score of   *)
(* an assessment takes it over the controls that deduct (MapThenSumSet):   *)
(* it does not depend on the order, and it grows with the set.             *)
(*                                                                         *)
(* The folds sum in the order CHOOSE gives.  Facts about every set are     *)
(* proved from a smallest counterexample: a family of subsets of a finite  *)
(* set has a member that contains no other (MinimalSubset).                *)
(***************************************************************************)
EXTENDS Integers, FiniteSetsExt, FiniteSetTheorems, WellFoundedInduction, TLAPS

\* Some set of a family of subsets of a finite set contains no other of it.
LEMMA MinimalSubset ==
    ASSUME NEW S, IsFiniteSet(S), NEW B \in SUBSET (SUBSET S), B # {}
    PROVE  \E m \in B : \A b \in B : b \subseteq m => b = m
<1>1. IsWellFoundedOn(StrictSubsetOrdering(S), SUBSET S)
  BY FS_StrictSubsetOrderingWellFounded, FS_FiniteSubsetsOfFinite
<1>2. PICK m \in B : \A b \in B : ~ (<<b, m>> \in StrictSubsetOrdering(S))
  BY <1>1, WFMin
<1>3. \A b \in B : b \subseteq m => b = m
  BY <1>2 DEF StrictSubsetOrdering
<1> QED
  BY <1>3

\* The highest of a finite set of numbers is one of them.
LEMMA HighestExists ==
    ASSUME NEW S, \A x \in S : x \in Int, S # {}, IsFiniteSet(S)
    PROVE  \E x \in S : \A y \in S : x >= y
<1> DEFINE Highest(T) == \E x \in T : \A y \in T : x >= y
           B == {T \in SUBSET S : T # {} /\ ~ Highest(T)}
<1>1. SUFFICES ASSUME B # {} PROVE FALSE
  OBVIOUS
<1>2. B \in SUBSET (SUBSET S)
  OBVIOUS
<1>3. PICK m \in B : \A b \in B : b \subseteq m => b = m
  <2> HIDE DEF B
  <2> QED
    BY <1>1, <1>2, MinimalSubset
<1>4. PICK z \in m : TRUE
  OBVIOUS
<1>5. (\A x \in m : x \in Int) /\ m \ {z} \in SUBSET S /\ m \ {z} \notin B
  BY <1>3
<1>6. CASE m \ {z} = {}
  BY <1>3, <1>5, <1>6
<1>7. CASE m \ {z} # {}
  <2>1. PICK x \in m \ {z} : \A y \in m \ {z} : x >= y
    BY <1>5, <1>7
  <2>2. CASE x >= z
    BY <1>3, <2>1, <2>2
  <2>3. CASE ~ (x >= z)
    <3>1. \A y \in m : z >= y
      BY <1>5, <2>1, <2>3
    <3> QED
      BY <1>3, <3>1
  <2> QED
    BY <2>2, <2>3
<1> QED
  BY <1>6, <1>7

\* The greatest of a finite set of numbers is one of them.
LEMMA MaxIsAMember ==
    ASSUME NEW S \in SUBSET Int, S # {}, IsFiniteSet(S)
    PROVE  Max(S) \in S
BY HighestExists DEF Max

\* The least of a finite set of numbers exists.
LEMMA LeastExists ==
    ASSUME NEW S \in SUBSET Int, S # {}, IsFiniteSet(S)
    PROVE  \E x \in S : \A y \in S : x =< y
<1> DEFINE T == {- x : x \in S}
<1>1. IsFiniteSet(T) /\ T # {} /\ \A x \in T : x \in Int
  <2>1. [x \in S |-> - x] \in Surjection(S, T)
    BY DEF Surjection
  <2>2. IsFiniteSet(T)
    <3> HIDE DEF T
    <3> QED
      BY <2>1, FS_Surjection
  <2>3. PICK z \in S : TRUE
    OBVIOUS
  <2>4. T # {}
    BY <2>3
  <2>5. \A x \in T : x \in Int
    <3>1. \A x \in S : x \in Int
      OBVIOUS
    <3> QED
      BY <3>1
  <2> QED
    BY <2>2, <2>4, <2>5
<1>2. PICK x \in T : \A y \in T : x >= y
  <2> HIDE DEF T
  <2> QED
    BY <1>1, HighestExists
<1>3. \E x1 \in S : \A y \in S : x1 =< y
  <2>1. PICK z \in S : x = - z
    OBVIOUS
  <2>2. \A y \in S : z =< y
    BY <1>2, <2>1
  <2> QED
    BY <2>2
<1> QED
  BY <1>3

\* The least of a finite set of numbers is one of them.
LEMMA MinIsAMember ==
    ASSUME NEW S \in SUBSET Int, S # {}, IsFiniteSet(S)
    PROVE  Min(S) \in S /\ \A y \in S : Min(S) =< y
BY LeastExists DEF Min

\* A set that has 0, and with each number up to n the next, has them all: a
\* proof by induction on the steps of a loop, without an operator.
LEMMA StepByStep ==
    ASSUME NEW n \in Nat, NEW T, 0 \in T, \A i \in 1..n : i - 1 \in T => i \in T
    PROVE  \A i \in 0..n : i \in T
<1> DEFINE B == {i \in 0..n : i \notin T}
<1>1. SUFFICES ASSUME B # {} PROVE FALSE
  OBVIOUS
<1>2. B \in SUBSET Int
  OBVIOUS
<1>3. IsFiniteSet(B)
  BY FS_Interval, FS_Subset, 0 \in Int, n \in Int
<1>4. PICK m \in B : \A i \in B : m =< i
  <2> HIDE DEF B
  <2> QED
    BY <1>1, <1>2, <1>3, LeastExists
<1>5. m \in 1..n
  BY <1>4
<1>6. m - 1 \in 0..n /\ m - 1 \notin B
  BY <1>4, <1>5
<1> QED
  BY <1>4, <1>5, <1>6

\* A set whose members are all the same has one at most.
LEMMA AtMostOne ==
    ASSUME NEW S, \A v, w \in S : v = w
    PROVE  IsFiniteSet(S) /\ Cardinality(S) <= 1
<1>1. CASE S = {}
  BY <1>1, FS_EmptySet
<1>2. CASE S # {}
  <2>1. PICK x \in S : TRUE
    BY <1>2
  <2>2. S = {x}
    BY <2>1
  <2>3. IsFiniteSet({x}) /\ Cardinality({x}) = 1
    BY FS_Singleton
  <2> QED
    BY <2>2, <2>3
<1> QED
  BY <1>1, <1>2

-----------------------------------------------------------------------------

\* MapThenSumSet, unfolded: g is the sum on every subset of S.
Pick(s) == CHOOSE x \in s : TRUE
SumStep(W, g, s) == IF s = {} THEN 0 ELSE W[Pick(s)] + g[s \ {Pick(s)}]
IsSum(W, g, S) == g = [s \in SUBSET S |-> SumStep(W, g, s)]
SumFcn(W, S) == CHOOSE g : IsSum(W, g, S)
Sum(W, S) == SumFcn(W, S)[S]

\* The fold of the community modules is this sum.
LEMMA FoldIsSum ==
    ASSUME NEW W, NEW S
    PROVE  MapThenSumSet(LAMBDA c : W[c], S) = Sum(W, S)
BY DEF MapThenSumSet, MapThenFoldSet, Sum, SumFcn, IsSum, SumStep, Pick

\* The order takes the elements of the set.
LEMMA PickIn == ASSUME NEW s, s # {} PROVE Pick(s) \in s
BY DEF Pick

\* The recursion determines the sum of every subset.
LEMMA SumUnique ==
    ASSUME NEW W, NEW S, IsFiniteSet(S), NEW g, NEW h, IsSum(W, g, S), IsSum(W, h, S)
    PROVE  g = h
<1> DEFINE B == {s \in SUBSET S : g[s] # h[s]}
<1>1. SUFFICES ASSUME B # {} PROVE FALSE
  BY DEF IsSum
<1>0. B \in SUBSET (SUBSET S)
  OBVIOUS
<1>2. PICK m \in B : \A b \in B : b \subseteq m => b = m
  <2> HIDE DEF B
  <2> QED
    BY <1>0, <1>1, MinimalSubset
<1>3. m # {}
  BY DEF IsSum, SumStep
<1>4. Pick(m) \in m
  BY <1>3, PickIn
<1>5. m \ {Pick(m)} \in SUBSET S /\ m \ {Pick(m)} \notin B
  BY <1>2, <1>4
<1>6. g[m \ {Pick(m)}] = h[m \ {Pick(m)}]
  BY <1>5
<1>7. g[m] = SumStep(W, g, m) /\ h[m] = SumStep(W, h, m)
  BY DEF IsSum
<1> QED
  BY <1>3, <1>6, <1>7 DEF SumStep

\* The sums on S, restricted to the subsets of T, are the sums on T.
LEMMA SumRestrict ==
    ASSUME NEW W, NEW S, NEW T \in SUBSET S, NEW g, IsSum(W, g, S)
    PROVE  IsSum(W, [s \in SUBSET T |-> g[s]], T)
<1> DEFINE h == [s \in SUBSET T |-> g[s]]
<1>1. ASSUME NEW s \in SUBSET T PROVE h[s] = SumStep(W, h, s)
  <2>1. s \in SUBSET S
    OBVIOUS
  <2>2. h[s] = g[s] /\ g[s] = SumStep(W, g, s)
    BY <2>1 DEF IsSum
  <2>3. CASE s = {}
    BY <2>2, <2>3 DEF SumStep
  <2>4. CASE s # {}
    <3>1. s \ {Pick(s)} \in SUBSET T
      OBVIOUS
    <3>2. h[s \ {Pick(s)}] = g[s \ {Pick(s)}]
      BY <3>1
    <3> QED
      BY <2>2, <2>4, <3>2 DEF SumStep
  <2> QED
    BY <2>3, <2>4
<1> QED
  BY <1>1 DEF IsSum

\* The recursion has a solution on every finite set.
LEMMA SumExists ==
    ASSUME NEW W, NEW S, IsFiniteSet(S)
    PROVE  \E g : IsSum(W, g, S)
<1> DEFINE B == {s \in SUBSET S : ~ \E g : IsSum(W, g, s)}
<1>1. SUFFICES ASSUME B # {} PROVE FALSE
  OBVIOUS
<1>0. B \in SUBSET (SUBSET S)
  OBVIOUS
<1>2. PICK m \in B : \A b \in B : b \subseteq m => b = m
  <2> HIDE DEF B
  <2> QED
    BY <1>0, <1>1, MinimalSubset
<1>3. \A s \in SUBSET m : s # m => IsSum(W, SumFcn(W, s), s)
  <2> TAKE s \in SUBSET m
  <2> HAVE s # m
  <2>1. s \in SUBSET S /\ s \notin B
    BY <1>2
  <2>2. \E g : IsSum(W, g, s)
    BY <2>1
  <2> QED
    BY <2>2 DEF SumFcn
<1> DEFINE f == [s \in SUBSET m |-> IF s = m THEN SumStep(W, [t \in SUBSET m |-> Sum(W, t)], m) ELSE Sum(W, s)]
<1>4. ASSUME NEW s \in SUBSET m PROVE f[s] = SumStep(W, f, s)
  <2>1. CASE s = {}
    <3>1. CASE s = m
      BY <2>1, <3>1 DEF SumStep
    <3>2. CASE s # m
      <4>1. IsSum(W, SumFcn(W, s), s)
        BY <1>3, <3>2
      <4>2. SumFcn(W, s)[s] = SumStep(W, SumFcn(W, s), s)
        BY <4>1 DEF IsSum
      <4> QED
        BY <2>1, <3>2, <4>2 DEF Sum, SumStep
    <3> QED
      BY <3>1, <3>2
  <2>2. CASE s # {}
    <3> DEFINE r == s \ {Pick(s)}
    <3>1. Pick(s) \in s
      BY <2>2, PickIn
    <3>2. r \in SUBSET m /\ r # m /\ r \in SUBSET s
      BY <3>1
    <3>3. f[r] = Sum(W, r)
      BY <3>2
    <3>4. CASE s = m
      <4>1. f[s] = SumStep(W, [t \in SUBSET m |-> Sum(W, t)], m)
        BY <3>4
      <4>2. [t \in SUBSET m |-> Sum(W, t)][r] = Sum(W, r)
        BY <3>2
      <4> QED
        BY <2>2, <3>3, <3>4, <4>1, <4>2 DEF SumStep
    <3>5. CASE s # m
      <4>1. IsSum(W, SumFcn(W, s), s) /\ IsSum(W, SumFcn(W, r), r)
        BY <1>3, <3>2, <3>5
      <4>2. IsSum(W, [t \in SUBSET r |-> SumFcn(W, s)[t]], r)
        BY <3>2, <4>1, SumRestrict
      <4>3. IsFiniteSet(r)
        BY <3>2, FS_Subset
      <4>4. SumFcn(W, r) = [t \in SUBSET r |-> SumFcn(W, s)[t]]
        BY <4>1, <4>2, <4>3, SumUnique
      <4>5. Sum(W, r) = SumFcn(W, s)[r]
        BY <4>4 DEF Sum
      <4>6. SumFcn(W, s)[s] = SumStep(W, SumFcn(W, s), s)
        BY <4>1 DEF IsSum
      <4>7. f[s] = Sum(W, s)
        BY <3>5
      <4> QED
        BY <2>2, <3>3, <4>5, <4>6, <4>7 DEF SumStep, Sum
    <3> QED
      BY <3>4, <3>5
  <2> QED
    BY <2>1, <2>2
<1>5. IsSum(W, f, m)
  BY <1>4 DEF IsSum
<1> QED
  BY <1>5

\* The chosen function is the solution.
LEMMA SumIsSum ==
    ASSUME NEW W, NEW S, IsFiniteSet(S)
    PROVE  IsSum(W, SumFcn(W, S), S)
BY SumExists DEF SumFcn

\* The sum of a set is the sum of the rest and the weight of the element picked.
LEMMA SumStepwise ==
    ASSUME NEW W, NEW S, IsFiniteSet(S)
    PROVE  /\ S = {} => Sum(W, S) = 0
           /\ S # {} => Sum(W, S) = W[Pick(S)] + Sum(W, S \ {Pick(S)})
<1>1. IsSum(W, SumFcn(W, S), S)
  BY SumIsSum
<1>2. Sum(W, S) = SumStep(W, SumFcn(W, S), S)
  BY <1>1 DEF IsSum, Sum
<1>3. CASE S = {}
  BY <1>2, <1>3 DEF SumStep
<1>4. CASE S # {}
  <2> DEFINE r == S \ {Pick(S)}
  <2>1. r \in SUBSET S /\ IsFiniteSet(r)
    BY FS_Subset
  <2>2. IsSum(W, SumFcn(W, r), r)
    BY <2>1, SumIsSum
  <2>3. IsSum(W, [t \in SUBSET r |-> SumFcn(W, S)[t]], r)
    BY <1>1, <2>1, SumRestrict
  <2>4. SumFcn(W, r) = [t \in SUBSET r |-> SumFcn(W, S)[t]]
    BY <2>1, <2>2, <2>3, SumUnique
  <2>5. Sum(W, r) = SumFcn(W, S)[r]
    BY <2>4 DEF Sum
  <2> QED
    BY <1>2, <1>4, <2>5 DEF SumStep
<1> QED
  BY <1>3, <1>4

\* A sum of natural weights is a natural number.
LEMMA SumIsNat ==
    ASSUME NEW C, NEW W \in [C -> Nat], NEW S \in SUBSET C, IsFiniteSet(S)
    PROVE  Sum(W, S) \in Nat
<1> DEFINE B == {s \in SUBSET S : Sum(W, s) \notin Nat}
<1>1. SUFFICES ASSUME B # {} PROVE FALSE
  OBVIOUS
<1>2. B \in SUBSET (SUBSET S)
  OBVIOUS
<1>3. PICK m \in B : \A b \in B : b \subseteq m => b = m
  <2> HIDE DEF B
  <2> QED
    BY <1>1, <1>2, MinimalSubset
<1>4. IsFiniteSet(m)
  BY FS_Subset
<1>5. CASE m = {}
  <2>1. Sum(W, m) = 0
    BY <1>4, <1>5, SumStepwise
  <2> QED
    BY <1>3, <2>1
<1>6. CASE m # {}
  <2>1. Pick(m) \in m
    BY <1>6, PickIn
  <2>2. Sum(W, m \ {Pick(m)}) \in Nat
    BY <1>3, <2>1
  <2>3. W[Pick(m)] \in Nat
    BY <2>1
  <2>4. Sum(W, m) = W[Pick(m)] + Sum(W, m \ {Pick(m)})
    BY <1>4, <1>6, SumStepwise
  <2> QED
    BY <2>2, <2>3, <2>4
<1> QED
  BY <1>5, <1>6

\* Whichever element is taken out, the sum loses its weight: order does not matter.
LEMMA SumWithout ==
    ASSUME NEW C, NEW W \in [C -> Nat], NEW S \in SUBSET C, IsFiniteSet(S),
           NEW x \in S
    PROVE  Sum(W, S) = W[x] + Sum(W, S \ {x})
<1> DEFINE Wrong(s) == \E y \in s : Sum(W, s) # W[y] + Sum(W, s \ {y})
           B == {s \in SUBSET S : Wrong(s)}
<1>1. SUFFICES ASSUME B # {} PROVE FALSE
  OBVIOUS
<1>2. B \in SUBSET (SUBSET S)
  OBVIOUS
<1>3. PICK m \in B : \A b \in B : b \subseteq m => b = m
  <2> HIDE DEF B
  <2> QED
    BY <1>1, <1>2, MinimalSubset
<1>4. PICK y \in m : Sum(W, m) # W[y] + Sum(W, m \ {y})
  OBVIOUS
<1>5. \A s \in SUBSET m : s # m => \A z \in s : Sum(W, s) = W[z] + Sum(W, s \ {z})
  BY <1>3
<1> DEFINE p == Pick(m)
<1>6. p \in m
  BY PickIn
<1>7. Sum(W, m) = W[p] + Sum(W, m \ {p})
  BY <1>6, SumStepwise, FS_Subset
<1>8. p # y
  BY <1>4, <1>7
<1>9. Sum(W, m \ {p}) = W[y] + Sum(W, m \ {p, y})
  <2>1. (m \ {p}) \ {y} = m \ {p, y}
    OBVIOUS
  <2>2. m \ {p} \in SUBSET m /\ m \ {p} # m /\ y \in m \ {p}
    BY <1>6, <1>8
  <2> QED
    BY <1>5, <2>1, <2>2
<1>10. Sum(W, m \ {y}) = W[p] + Sum(W, m \ {p, y})
  <2>1. (m \ {y}) \ {p} = m \ {p, y}
    OBVIOUS
  <2>2. m \ {y} \in SUBSET m /\ m \ {y} # m /\ p \in m \ {y}
    BY <1>6, <1>8
  <2> QED
    BY <1>5, <2>1, <2>2
<1>11. Sum(W, m \ {p, y}) \in Nat
  <2>1. m \ {p, y} \in SUBSET S
    OBVIOUS
  <2>2. m \ {p, y} \in SUBSET C /\ IsFiniteSet(m \ {p, y})
    BY <2>1, FS_Subset
  <2> QED
    BY <2>2, SumIsNat
<1>12. W[p] \in Nat /\ W[y] \in Nat
  BY <1>4, <1>6
<1> QED
  BY <1>4, <1>7, <1>9, <1>10, <1>11, <1>12

\* A subset sums to no more than the set.
LEMMA SumGrows ==
    ASSUME NEW C, NEW W \in [C -> Nat], NEW S \in SUBSET C, IsFiniteSet(S),
           NEW T \in SUBSET S
    PROVE  Sum(W, T) <= Sum(W, S)
<1> DEFINE B == {s \in SUBSET S : T \subseteq s /\ ~ (Sum(W, T) <= Sum(W, s))}
<1>1. SUFFICES ASSUME B # {} PROVE FALSE
  OBVIOUS
<1>2. B \in SUBSET (SUBSET S)
  OBVIOUS
<1>3. PICK m \in B : \A b \in B : b \subseteq m => b = m
  <2> HIDE DEF B
  <2> QED
    BY <1>1, <1>2, MinimalSubset
<1>4. IsFiniteSet(m) /\ IsFiniteSet(T) /\ m \in SUBSET C /\ T \in SUBSET C
  BY FS_Subset
<1>5. Sum(W, m) \in Nat /\ Sum(W, T) \in Nat
  BY <1>4, SumIsNat
<1>6. T # m
  BY <1>3, <1>5
<1>7. PICK x \in m : x \notin T
  BY <1>3, <1>6
<1>8. m \ {x} \in SUBSET S /\ m \ {x} \notin B /\ T \subseteq m \ {x}
  BY <1>3, <1>7
<1>9. Sum(W, T) <= Sum(W, m \ {x})
  BY <1>8
<1>10. Sum(W, m) = W[x] + Sum(W, m \ {x})
  BY <1>4, SumWithout
<1>11. Sum(W, m \ {x}) \in Nat
  BY <1>4, FS_Subset, SumIsNat
<1>12. W[x] \in Nat
  BY <1>4
<1> QED
  BY <1>3, <1>5, <1>9, <1>10, <1>11, <1>12
=============================================================================
