----------------------------- MODULE FoldLemmas -----------------------------
(***************************************************************************)
(* Induction and recursion, stated for sets and functions: what a          *)
(* recursive definition over the subsets of a finite set defines, and that *)
(* a sum does not depend on the order in which its terms are taken.        *)
(***************************************************************************)
EXTENDS Naturals, FiniteSets, FiniteSetTheorems, WellFoundedInduction, TLAPS

-----------------------------------------------------------------------------
(***************************************************************************)
(* Induction.                                                              *)
(***************************************************************************)
\* Among subsets of a finite set there is a minimal one.
LEMMA MinimalSubset ==
  ASSUME NEW S, IsFiniteSet(S), NEW T \in SUBSET SUBSET S, T # {}
  PROVE  \E A \in T : \A B \in T : B \subseteq A => B = A
<1>1. IsWellFoundedOn(StrictSubsetOrdering(S), FiniteSubsetsOf(S))
  BY FS_StrictSubsetOrderingWellFounded
<1>2. T \subseteq FiniteSubsetsOf(S)
  BY FS_Subset DEF FiniteSubsetsOf
<1>3. \E A \in T : \A B \in T : ~(<<B, A>> \in StrictSubsetOrdering(S))
  BY <1>1, <1>2, WFMin
<1>4. \A A, B \in T : <<B, A>> \in StrictSubsetOrdering(S) <=> (B \subseteq A /\ B # A)
  BY DEF StrictSubsetOrdering
<1>5. QED
  BY <1>3, <1>4

\* Among numbers there is a least one.
LEMMA LeastNumber ==
  ASSUME NEW T \in SUBSET Nat, T # {}
  PROVE  \E m \in T : \A n \in T : m <= n
<1>1. PICK t \in T : TRUE
  OBVIOUS
<1> DEFINE I(n) == 1 .. n
           U == {I(n) : n \in {k \in T : k <= t}}
<1>2. IsFiniteSet(I(t))
  BY FS_Interval
<1>3. U \in SUBSET SUBSET I(t) /\ U # {}
  BY <1>1
<1>4. PICK A \in U : \A B \in U : B \subseteq A => B = A
  <2> HIDE DEF U, I
  <2>1. QED
    BY <1>2, <1>3, MinimalSubset
<1>5. PICK m \in T : m <= t /\ A = I(m)
  BY <1>4
<1>6. ASSUME NEW n \in T, n < m PROVE FALSE
  <2>1. I(n) \in U
    BY <1>1, <1>5, <1>6
  <2>2. I(n) \subseteq A
    BY <1>5, <1>6
  <2>3. I(n) = I(m)
    BY <2>1, <2>2, <1>4, <1>5
  <2>4. m \in I(m) /\ m \notin I(n)
    BY <1>6
  <2>5. QED
    BY <2>3, <2>4
<1>7. QED
  BY <1>5, <1>6

\* Induction: a set of numbers that has 0, and with every number the next, has
\* them all.
LEMMA Induction ==
  ASSUME NEW S \in SUBSET Nat, 0 \in S, \A n \in S : n + 1 \in S
  PROVE  S = Nat
<1> SUFFICES ASSUME Nat \ S # {} PROVE FALSE
  OBVIOUS
<1>1. PICK m \in Nat \ S : \A n \in Nat \ S : m <= n
  <2> DEFINE T == Nat \ S
  <2>1. T \in SUBSET Nat /\ T # {}
    OBVIOUS
  <2> HIDE DEF T
  <2>2. \E m \in T : \A n \in T : m <= n
    BY <2>1, LeastNumber
  <2>3. QED
    BY <2>2 DEF T
<1>2. m # 0 /\ m - 1 \in Nat /\ m - 1 \in S
  BY <1>1
<1>3. (m - 1) + 1 \in S
  BY <1>2
<1>4. QED
  BY <1>1, <1>3

-----------------------------------------------------------------------------
(***************************************************************************)
(* Recursion.                                                              *)
(***************************************************************************)
\* The sequence f begins with a and goes on by step.
IsIteration(f, X, a, step) ==
  f \in [Nat -> X] /\ f[0] = a /\ \A n \in Nat : f[n + 1] = step[<<n, f[n]>>]

\* A first value and a step define a sequence.
LEMMA NatRecursion ==
  ASSUME NEW X, NEW a \in X, NEW step \in [Nat \X X -> X]
  PROVE  \E f : IsIteration(f, X, a, step)
<1> DEFINE Upto(n) == {f \in [Nat -> X] :
                         f[0] = a /\ \A k \in Nat : k < n => f[k + 1] = step[<<k, f[k]>>]}
<1>1. \A n \in Nat : Upto(n) # {}
  <2> DEFINE S == {n \in Nat : Upto(n) # {}}
  <2>1. 0 \in S
    <3>1. [k \in Nat |-> a] \in Upto(0)
      OBVIOUS
    <3>2. QED
      BY <3>1
  <2>2. ASSUME NEW n \in S PROVE n + 1 \in S
    <3>1. PICK f \in [Nat -> X] :
            f[0] = a /\ \A k \in Nat : k < n => f[k + 1] = step[<<k, f[k]>>]
      OBVIOUS
    <3> DEFINE v == step[<<n, f[n]>>]
               g == [f EXCEPT ![n + 1] = v]
    <3>2. v \in X
      OBVIOUS
    <3> HIDE DEF v
    <3>3. g \in [Nat -> X] /\ g[n + 1] = v /\ \A k \in Nat : k # n + 1 => g[k] = f[k]
      BY <3>2
    <3> HIDE DEF g
    <3>4. g[0] = a
      BY <3>1, <3>3
    <3>5. ASSUME NEW k \in Nat, k < n + 1 PROVE g[k + 1] = step[<<k, g[k]>>]
      <4>1. g[k] = f[k]
        BY <3>3, <3>5
      <4>2. CASE k = n
        BY <3>3, <4>1, <4>2 DEF v
      <4>3. CASE k # n
        <5>1. k < n /\ k + 1 # n + 1
          BY <3>5, <4>3
        <5>2. QED
          BY <3>1, <3>3, <4>1, <5>1
      <4>4. QED
        BY <4>2, <4>3
    <3>6. g \in Upto(n + 1)
      BY <3>3, <3>4, <3>5
    <3>7. QED
      BY <3>6
  <2> HIDE DEF S
  <2>3. S = Nat
    <3>1. S \in SUBSET Nat
      BY DEF S
    <3>2. QED
      BY <2>1, <2>2, <3>1, Induction
  <2>4. QED
    BY <2>3 DEF S
<1>2. ASSUME NEW n \in Nat, NEW m \in Nat, NEW f \in Upto(n), NEW g \in Upto(m)
      PROVE  \A k \in Nat : k <= n /\ k <= m => f[k] = g[k]
  <2> DEFINE S == {k \in Nat : k <= n /\ k <= m => f[k] = g[k]}
  <2>1. 0 \in S
    OBVIOUS
  <2>2. ASSUME NEW k \in S PROVE k + 1 \in S
    <3> SUFFICES ASSUME k + 1 <= n, k + 1 <= m PROVE f[k + 1] = g[k + 1]
      OBVIOUS
    <3>1. k < n /\ k < m /\ f[k] = g[k]
      OBVIOUS
    <3>2. f[k + 1] = step[<<k, f[k]>>] /\ g[k + 1] = step[<<k, g[k]>>]
      BY <3>1
    <3>3. QED
      BY <3>1, <3>2
  <2>3. S \in SUBSET Nat
    OBVIOUS
  <2> HIDE DEF S
  <2>4. S = Nat
    BY <2>1, <2>2, <2>3, Induction
  <2>5. QED
    BY <2>4 DEF S
<1> DEFINE F == [n \in Nat |-> (CHOOSE f \in Upto(n) : TRUE)[n]]
<1>3. \A n \in Nat : \E f \in Upto(n) : F[n] = f[n]
  <2> HIDE DEF Upto
  <2>1. QED
    BY <1>1
<1>4. F \in [Nat -> X]
  <2>1. \A n \in Nat : F[n] \in X
    <3> HIDE DEF F
    <3>1. QED
      BY <1>3
  <2>2. QED
    BY <2>1
<1> HIDE DEF F
<1>5. F[0] = a
  <2>1. PICK f \in Upto(0) : F[0] = f[0]
    BY <1>3
  <2>2. QED
    BY <2>1
<1>6. ASSUME NEW n \in Nat PROVE F[n + 1] = step[<<n, F[n]>>]
  <2>1. PICK f \in Upto(n) : F[n] = f[n]
    BY <1>3
  <2>2. PICK g \in Upto(n + 1) : F[n + 1] = g[n + 1]
    <3>1. n + 1 \in Nat
      OBVIOUS
    <3> HIDE DEF Upto
    <3>2. QED
      BY <1>3, <3>1
  <2>3. g[n + 1] = step[<<n, g[n]>>]
    OBVIOUS
  <2>4. f[n] = g[n]
    <3> HIDE DEF Upto
    <3>1. QED
      BY <1>2
  <2>5. QED
    BY <2>1, <2>2, <2>3, <2>4
<1>7. QED
  BY <1>4, <1>5, <1>6 DEF IsIteration

\* ch takes an element from every subset of S.
IsChoice(ch, S) == \A T \in SUBSET S : T # {} => ch[T] \in T

\* g folds the subsets of S with op, in the order in which ch takes their
\* elements; IsPartialFold says so only where it has a value in X.
IsFold(g, S, X, base, ch, op) ==
  /\ g[{}] = base
  /\ \A T \in SUBSET S : g[T] \in X
  /\ \A T \in SUBSET S : T # {} => g[T] = op[<<ch[T], g[T \ {ch[T]}]>>]

IsPartialFold(g, S, X, base, ch, op) ==
  /\ g[{}] = base
  /\ \A T \in SUBSET S :
       T # {} /\ g[T \ {ch[T]}] \in X => g[T] = op[<<ch[T], g[T \ {ch[T]}]>>]

\* There is such a fold.
LEMMA SetRecursion ==
  ASSUME NEW S, IsFiniteSet(S), NEW X, NEW base \in X, NEW ch, IsChoice(ch, S),
         NEW op \in [S \X X -> X]
  PROVE  \E g : IsFold(g, S, X, base, ch, op)
<1> DEFINE Y == [SUBSET S -> X]
           b == [T \in SUBSET S |-> base]
           next(h) == [T \in SUBSET S |-> IF T = {} THEN base ELSE op[<<ch[T], h[T \ {ch[T]}]>>]]
           step == [p \in Nat \X Y |-> next(p[2])]
<1>0. \A T \in SUBSET S : T # {} => ch[T] \in T
  BY DEF IsChoice
<1>1. b \in Y
  OBVIOUS
<1>2. ASSUME NEW h \in Y PROVE next(h) \in Y
  <2>1. ASSUME NEW T \in SUBSET S, T # {} PROVE op[<<ch[T], h[T \ {ch[T]}]>>] \in X
    <3>1. ch[T] \in S /\ T \ {ch[T]} \in SUBSET S
      BY <1>0, <2>1
    <3>2. QED
      BY <3>1
  <2>2. QED
    BY <2>1
<1>3. step \in [Nat \X Y -> Y] /\ \A n \in Nat, h \in Y : step[<<n, h>>] = next(h)
  <2> HIDE DEF Y, next
  <2>1. QED
    BY <1>2
<1>4. PICK F : IsIteration(F, Y, b, step)
  <2>1. step \in [Nat \X Y -> Y]
    BY <1>3
  <2> HIDE DEF Y, b, next, step
  <2>2. QED
    BY <1>1, <2>1, NatRecursion, Zenon
<1>4a. F \in [Nat -> Y] /\ F[0] = b /\ \A n \in Nat : F[n + 1] = step[<<n, F[n]>>]
  <2> HIDE DEF Y, b, step
  <2>1. QED
    BY <1>4 DEF IsIteration
<1>5. \A n \in Nat : F[n] \in Y /\ F[n + 1] = next(F[n])
  <2> HIDE DEF Y, step, next
  <2>1. QED
    BY <1>3, <1>4a
<1>6. \A T \in SUBSET S : IsFiniteSet(T) /\ Cardinality(T) \in Nat
  BY FS_Subset, FS_CardinalityType
<1> DEFINE g == [T \in SUBSET S |-> F[Cardinality(T)][T]]
<1>7. g \in Y
  <2>1. ASSUME NEW T \in SUBSET S PROVE F[Cardinality(T)][T] \in X
    <3>1. F[Cardinality(T)] \in Y
      BY <1>5, <1>6
    <3>2. QED
      BY <3>1
  <2>2. QED
    BY <2>1
<1>8. g[{}] = base
  BY <1>4a, FS_EmptySet
<1>9. ASSUME NEW T \in SUBSET S, T # {} PROVE g[T] = op[<<ch[T], g[T \ {ch[T]}]>>]
  <2> DEFINE U == T \ {ch[T]}
             k == Cardinality(U)
  <2>1. U \in SUBSET S /\ ch[T] \in T /\ k \in Nat
    BY <1>0, <1>6, <1>9
  <2>2. Cardinality(T) = k + 1
    <3>1. Cardinality(T) \in Nat /\ Cardinality(U) = Cardinality(T) - 1
      BY <1>6, <2>1, FS_RemoveElement
    <3>2. QED
      BY <3>1
  <2>3. g[U] = F[k][U] /\ g[T] = F[k + 1][T]
    BY <2>1, <2>2
  <2>4. F[k + 1] = next(F[k])
    BY <1>5, <2>1
  <2>5. F[k + 1][T] = op[<<ch[T], F[k][U]>>]
    BY <1>9, <2>4
  <2>6. QED
    BY <2>3, <2>5
<1>10. QED
  BY <1>7, <1>8, <1>9 DEF IsFold

\* A partial fold has its values in X everywhere.
LEMMA SetRecursionTyped ==
  ASSUME NEW S, IsFiniteSet(S), NEW X, NEW base \in X, NEW ch, IsChoice(ch, S),
         NEW op \in [S \X X -> X], NEW g, IsPartialFold(g, S, X, base, ch, op)
  PROVE  IsFold(g, S, X, base, ch, op)
<1>0. /\ \A T \in SUBSET S : T # {} => ch[T] \in T
      /\ g[{}] = base
      /\ \A T \in SUBSET S :
           T # {} /\ g[T \ {ch[T]}] \in X => g[T] = op[<<ch[T], g[T \ {ch[T]}]>>]
  BY DEF IsChoice, IsPartialFold
<1>1. \A T \in SUBSET S : IsFiniteSet(T) /\ Cardinality(T) \in Nat
  BY FS_Subset, FS_CardinalityType
<1> DEFINE P == {n \in Nat : \A T \in SUBSET S : Cardinality(T) = n => g[T] \in X}
<1>2. 0 \in P
  BY <1>0, <1>1, FS_EmptySet
<1>3. ASSUME NEW n \in P PROVE n + 1 \in P
  <2> SUFFICES ASSUME NEW T \in SUBSET S, Cardinality(T) = n + 1
               PROVE  g[T] \in X
    OBVIOUS
  <2> DEFINE U == T \ {ch[T]}
  <2>1. T # {}
    <3>1. n \in Nat /\ n + 1 # 0
      OBVIOUS
    <3>2. QED
      BY <3>1, FS_EmptySet
  <2>2. ch[T] \in T /\ U \in SUBSET S
    BY <1>0, <2>1
  <2>3. Cardinality(U) = n
    <3>1. Cardinality(U) = Cardinality(T) - 1
      BY <1>1, <2>2, FS_RemoveElement
    <3>2. QED
      BY <3>1
  <2>4. g[U] \in X
    BY <2>2, <2>3
  <2>5. g[T] = op[<<ch[T], g[U]>>]
    BY <1>0, <2>1, <2>4
  <2>6. QED
    BY <2>2, <2>4, <2>5
<1>4. P = Nat
  <2>1. P \in SUBSET Nat
    OBVIOUS
  <2> HIDE DEF P
  <2>2. QED
    BY <1>2, <1>3, <2>1, Induction
<1>5. \A T \in SUBSET S : g[T] \in X
  BY <1>1, <1>4
<1>6. ASSUME NEW T \in SUBSET S, T # {} PROVE g[T] = op[<<ch[T], g[T \ {ch[T]}]>>]
  <2>1. T \ {ch[T]} \in SUBSET S
    OBVIOUS
  <2>2. QED
    BY <1>0, <1>5, <1>6, <2>1
<1>7. QED
  BY <1>0, <1>5, <1>6 DEF IsFold

\* A function that folds wherever some fold exists to follow is a fold: this is
\* how a recursive definition, which chooses such a function, is taken.
LEMMA ChosenFold ==
  ASSUME NEW S, IsFiniteSet(S), NEW X, NEW base \in X, NEW ch, IsChoice(ch, S),
         NEW op \in [S \X X -> X], NEW f,
         \A g : IsFold(g, S, X, base, ch, op) => IsPartialFold(f, S, X, base, ch, op)
  PROVE  IsFold(f, S, X, base, ch, op)
<1>1. \E g : IsFold(g, S, X, base, ch, op)
  BY SetRecursion, Zenon
<1>2. IsPartialFold(f, S, X, base, ch, op)
  BY <1>1
<1>3. QED
  BY <1>2, SetRecursionTyped, Zenon

\* g sums w over the subsets of S, taking their elements in the order of ch.
IsSum(g, S, ch, w) ==
  /\ g[{}] = 0
  /\ \A T \in SUBSET S : g[T] \in Nat
  /\ \A T \in SUBSET S : T # {} => g[T] = w[ch[T]] + g[T \ {ch[T]}]

\* The order does not matter.
IsUnorderedSum(g, S, w) == \A T \in SUBSET S : \A x \in T : g[T] = w[x] + g[T \ {x}]

\* A sum over a finite set is what any of its elements contributes and the sum
\* of the others.
LEMMA SumRemove ==
  ASSUME NEW S, IsFiniteSet(S), NEW ch, IsChoice(ch, S),
         NEW w \in [S -> Nat], NEW g, IsSum(g, S, ch, w)
  PROVE  IsUnorderedSum(g, S, w)
<1>0. /\ \A T \in SUBSET S : T # {} => ch[T] \in T
      /\ \A T \in SUBSET S : g[T] \in Nat
      /\ \A T \in SUBSET S : T # {} => g[T] = w[ch[T]] + g[T \ {ch[T]}]
  BY DEF IsChoice, IsSum
<1>1. \A T \in SUBSET S : IsFiniteSet(T) /\ Cardinality(T) \in Nat
  BY FS_Subset, FS_CardinalityType
<1> DEFINE P == {n \in Nat : \A T \in SUBSET S : Cardinality(T) = n =>
                               \A x \in T : g[T] = w[x] + g[T \ {x}]}
<1>2. 0 \in P
  BY <1>1, FS_EmptySet
<1>3. ASSUME NEW n \in P PROVE n + 1 \in P
  <2> SUFFICES ASSUME NEW T \in SUBSET S, Cardinality(T) = n + 1, NEW x \in T
               PROVE  g[T] = w[x] + g[T \ {x}]
    OBVIOUS
  <2> DEFINE y == ch[T]
  <2>1. y \in T /\ g[T] = w[y] + g[T \ {y}]
    BY <1>0
  <2> HIDE DEF y
  <2>2. CASE x = y
    BY <2>1, <2>2
  <2>3. CASE x # y
    <3>1. Cardinality(T \ {x}) = n /\ Cardinality(T \ {y}) = n
      <4>1. /\ Cardinality(T \ {x}) = Cardinality(T) - 1
            /\ Cardinality(T \ {y}) = Cardinality(T) - 1
        BY <1>1, <2>1, FS_RemoveElement
      <4>2. QED
        BY <4>1
    <3>2. g[T \ {y}] = w[x] + g[(T \ {y}) \ {x}]
      BY <2>3, <3>1
    <3>3. g[T \ {x}] = w[y] + g[(T \ {x}) \ {y}]
      BY <2>1, <2>3, <3>1
    <3>4. (T \ {x}) \ {y} = (T \ {y}) \ {x} /\ (T \ {x}) \ {y} \in SUBSET S
      OBVIOUS
    <3> DEFINE z == g[(T \ {x}) \ {y}]
    <3>5. z \in Nat /\ w[x] \in Nat /\ w[y] \in Nat
      BY <1>0, <2>1, <3>4
    <3>6. g[T \ {y}] = w[x] + z /\ g[T \ {x}] = w[y] + z
      BY <3>2, <3>3, <3>4
    <3> HIDE DEF z
    <3>7. w[y] + (w[x] + z) = w[x] + (w[y] + z)
      BY <3>5
    <3>8. QED
      BY <2>1, <3>6, <3>7
  <2>4. QED
    BY <2>2, <2>3
<1>4. P = Nat
  <2>1. P \in SUBSET Nat
    OBVIOUS
  <2> HIDE DEF P
  <2>2. QED
    BY <1>2, <1>3, <2>1, Induction
<1>5. QED
  BY <1>1, <1>4 DEF IsUnorderedSum

\* A set of numbers up to n has a greatest one.
LEMMA GreatestNumber ==
  ASSUME NEW n \in Nat, NEW T \in SUBSET (1 .. n), T # {}
  PROVE  \E m \in T : \A k \in T : m >= k
<1> DEFINE U == {u \in Nat : \A k \in T : k <= u}
<1>1. U \in SUBSET Nat /\ n \in U
  OBVIOUS
<1>2. PICK m \in U : \A u \in U : m <= u
  <2> HIDE DEF U
  <2>1. QED
    BY <1>1, LeastNumber
<1>3. ASSUME m \notin T PROVE FALSE
  <2>1. \A k \in T : k \in 1 .. n /\ k <= m /\ k # m
    BY <1>3
  <2>2. m \in Nat /\ m # 0 /\ \A k \in T : k <= m - 1
    <3>1. m \in Nat /\ \E k \in T : TRUE
      OBVIOUS
    <3> HIDE DEF U
    <3>2. m # 0
      BY <2>1, <3>1
    <3>3. QED
      BY <2>1, <3>1, <3>2
  <2>3. m - 1 \in U
    BY <2>2
  <2>4. QED
    BY <1>2, <2>2, <2>3
<1>4. QED
  BY <1>3

-----------------------------------------------------------------------------
(***************************************************************************)
(* Sorting.                                                                *)
(***************************************************************************)
\* R is a strict order of the numbers 1 .. n, of any two of them.
IsOrder(R, n) ==
  /\ \A i \in 1 .. n : <<i, i>> \notin R
  /\ \A i, j, k \in 1 .. n : <<i, j>> \in R /\ <<j, k>> \in R => <<i, k>> \in R
  /\ \A i, j \in 1 .. n : i # j => <<i, j>> \in R \/ <<j, i>> \in R

\* How many numbers R puts before i.
NumberBefore(R, n, i) == Cardinality({k \in 1 .. n : <<k, i>> \in R})

\* They are counted through without a gap, in the order of R.
IsRanked(R, n) ==
  /\ \A i \in 1 .. n : NumberBefore(R, n, i) \in Nat /\ NumberBefore(R, n, i) + 1 \in 1 .. n
  /\ \A i, j \in 1 .. n : <<i, j>> \in R => NumberBefore(R, n, i) < NumberBefore(R, n, j)
  /\ \A m \in 1 .. n : \E i \in 1 .. n : NumberBefore(R, n, i) = m - 1

\* A strict order ranks the numbers.
LEMMA Ranking ==
  ASSUME NEW n \in Nat, NEW R, IsOrder(R, n)
  PROVE  IsRanked(R, n)
<1> DEFINE D == 1 .. n
           ahead(i) == {k \in D : <<k, i>> \in R}
           rank(i) == Cardinality(ahead(i))
<1>0. /\ \A i \in D : <<i, i>> \notin R
      /\ \A i, j, k \in D : <<i, j>> \in R /\ <<j, k>> \in R => <<i, k>> \in R
      /\ \A i, j \in D : i # j => <<i, j>> \in R \/ <<j, i>> \in R
  BY DEF IsOrder
<1>1. IsFiniteSet(D) /\ Cardinality(D) = n
  BY FS_Interval
<1>2. ASSUME NEW i \in D
      PROVE  /\ IsFiniteSet(ahead(i)) /\ rank(i) \in Nat
             /\ \A U \in SUBSET ahead(i) : Cardinality(U) <= rank(i) /\ Cardinality(U) \in Nat
             /\ \A k \in ahead(i) : Cardinality(ahead(i) \ {k}) = rank(i) - 1
  <2>1. ahead(i) \subseteq D
    OBVIOUS
  <2> HIDE DEF D, ahead
  <2>2. IsFiniteSet(ahead(i))
    BY <1>1, <2>1, FS_Subset
  <2>3. QED
    BY <2>2, FS_Subset, FS_CardinalityType, FS_RemoveElement
<1>3. ASSUME NEW i \in D, NEW j \in D, <<i, j>> \in R PROVE rank(i) < rank(j)
  <2>1. i \in ahead(j) /\ ahead(i) \subseteq ahead(j) \ {i} /\ ahead(i) \subseteq ahead(j)
    BY <1>0, <1>3
  <2>2. IsFiniteSet(ahead(j) \ {i}) /\ Cardinality(ahead(j) \ {i}) = rank(j) - 1
    <3>1. ahead(j) \ {i} \in SUBSET ahead(j)
      OBVIOUS
    <3> HIDE DEF D, ahead
    <3>2. IsFiniteSet(ahead(j) \ {i})
      BY <1>2, <3>1, FS_Subset
    <3>3. QED
      BY <1>2, <2>1, <3>2
  <2>3. Cardinality(ahead(i)) <= Cardinality(ahead(j) \ {i})
    <3> HIDE DEF ahead
    <3>1. QED
      BY <2>1, <2>2, FS_Subset
  <2>4. rank(i) \in Nat /\ rank(j) \in Nat
    BY <1>2
  <2> HIDE DEF ahead
  <2>5. QED
    BY <2>2, <2>3, <2>4
<1>4. ASSUME NEW i \in D PROVE rank(i) + 1 \in D
  <2>1. ahead(i) \subseteq D \ {i}
    BY <1>0
  <2>2. IsFiniteSet(D \ {i}) /\ Cardinality(D \ {i}) = n - 1
    <3> HIDE DEF D
    <3>1. QED
      BY <1>1, FS_RemoveElement
  <2>3. rank(i) <= n - 1
    <3> HIDE DEF D, ahead
    <3>1. QED
      BY <2>1, <2>2, FS_Subset
  <2>4. rank(i) \in Nat
    BY <1>2
  <2> HIDE DEF ahead
  <2>5. QED
    BY <2>3, <2>4
<1>5. ASSUME NEW m \in D, \A i \in D : rank(i) + 1 # m PROVE FALSE
  <2> DEFINE f == [i \in D |-> rank(i) + 1]
             T == D \ {m}
  <2>1. f \in [D -> T]
    <3> HIDE DEF D, ahead
    <3>1. \A i \in D : rank(i) + 1 \in T
      BY <1>4, <1>5
    <3>2. QED
      BY <3>1
  <2>2. IsFiniteSet(T) /\ Cardinality(T) = n - 1
    <3> HIDE DEF D
    <3>1. QED
      BY <1>1, FS_RemoveElement
  <2>3. Cardinality(T) < Cardinality(D)
    BY <1>1, <2>2
  <2>4. PICK i \in D, j \in D : i # j /\ f[i] = f[j]
    <3> HIDE DEF D, T, f
    <3>1. QED
      BY <1>1, <2>1, <2>2, <2>3, FS_PigeonHole
  <2>5. rank(i) = rank(j)
    <3>1. rank(i) \in Nat /\ rank(j) \in Nat
      BY <1>2
    <3> HIDE DEF ahead
    <3>2. rank(i) + 1 = rank(j) + 1
      BY <2>4
    <3>3. QED
      BY <3>1, <3>2
  <2>6. rank(i) < rank(j) \/ rank(j) < rank(i)
    <3>1. <<i, j>> \in R \/ <<j, i>> \in R
      BY <1>0, <2>4
    <3>2. QED
      BY <1>3, <3>1
  <2>7. rank(i) \in Nat /\ rank(j) \in Nat
    BY <1>2
  <2> HIDE DEF ahead
  <2>8. QED
    BY <2>5, <2>6, <2>7
<1>6. ASSUME NEW m \in D PROVE \E i \in D : rank(i) = m - 1
  <2>1. PICK i \in D : rank(i) + 1 = m
    BY <1>5
  <2>2. rank(i) \in Nat
    BY <1>2
  <2> HIDE DEF ahead
  <2>3. rank(i) = m - 1
    BY <2>1, <2>2
  <2>4. QED
    BY <2>3
<1>7. QED
  BY <1>2, <1>3, <1>4, <1>6 DEF IsRanked, NumberBefore

\* The values of a list of length n.
ValuesOf(f, n) == {f[i] : i \in 1 .. n}

\* A list without repetition has as many values as places.
LEMMA CountValues ==
  ASSUME NEW n \in Nat, NEW f, \A i, j \in 1 .. n : f[i] = f[j] => i = j
  PROVE  IsFiniteSet(ValuesOf(f, n)) /\ Cardinality(ValuesOf(f, n)) = n
<1> DEFINE D == 1 .. n
           V == {f[i] : i \in D}
           g == [i \in D |-> f[i]]
<1>1. g \in Bijection(D, V)
  BY DEF Bijection, Injection, Surjection, IsInjective
<1>2. ExistsBijection(D, V)
  BY <1>1 DEF ExistsBijection
<1>3. IsFiniteSet(D) /\ Cardinality(D) = n
  BY FS_Interval
<1> HIDE DEF D, V
<1>4. IsFiniteSet(V) /\ Cardinality(V) = n
  BY <1>2, <1>3, FS_Bijection
<1>5. QED
  BY <1>4 DEF V, D, ValuesOf
=============================================================================
