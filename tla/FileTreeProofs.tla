---------------------------- MODULE FileTreeProofs ----------------------------
(***************************************************************************)
(* What is proved of FileTree, for all users, limits, contents, requests   *)
(* and any number of them at a time.                                       *)
(***************************************************************************)
EXTENDS FileTree, FiniteSetTheorems, NaturalsInduction, WellFoundedInduction, TLAPS

-----------------------------------------------------------------------------
(* Recursion along the naturals and through finite sets.                   *)

\* What holds of 0, and of n + 1 if of n, holds of every natural.
LEMMA Inductive ==
  ASSUME NEW S \in SUBSET Nat, 0 \in S, \A n \in S : n + 1 \in S
  PROVE  S = Nat
<1>1. SUFFICES ASSUME Nat \ S # {}
               PROVE  FALSE
  OBVIOUS
<1>2. PICK m \in Nat \ S : \A n \in Nat \ S : ~(<<n, m>> \in OpToRel(<, Nat))
  BY <1>1, NatLessThanWellFounded, WFMin
<1>3. \A n \in Nat \ S : ~(n < m)
  BY <1>2 DEF OpToRel
<1>4. m - 1 \in Nat \ S /\ m - 1 < m
  <2>1. m \in Nat /\ m \notin S /\ m # 0
    BY <1>2
  <2>2. m - 1 \in Nat /\ m - 1 < m /\ (m - 1) + 1 = m
    BY <2>1
  <2> QED
    BY <2>1, <2>2
<1> QED
  BY <1>3, <1>4

\* A sequence that starts at base and goes on by a function of what came last.
GoesBy(f, base, step, n) ==
  /\ DOMAIN f = 0..n
  /\ f[0] = base
  /\ \A i \in 1..n : f[i] = step[<<i, f[i - 1]>>]

LEMMA Recursion ==
  ASSUME NEW X, NEW base \in X, NEW step \in [(Nat \X X) -> X]
  PROVE  \A n \in Nat : \E f \in [0..n -> X] : GoesBy(f, base, step, n)
<1> DEFINE T == {n \in Nat : \E f \in [0..n -> X] : GoesBy(f, base, step, n)}
<1>1. 0 \in T
  <2> DEFINE f == [i \in 0..0 |-> base]
  <2>1. f \in [0..0 -> X] /\ GoesBy(f, base, step, 0)
    BY DEF GoesBy
  <2> QED
    BY <2>1
<1>2. ASSUME NEW n \in T
      PROVE  n + 1 \in T
  <2>1. PICK f \in [0..n -> X] : GoesBy(f, base, step, n)
    OBVIOUS
  <2>2. n \in Nat /\ n \in 0..n /\ n + 1 \in Nat
    OBVIOUS
  <2>3. PICK next \in X : next = step[<<n + 1, f[n]>>]
    BY <2>2
  <2> DEFINE g == [i \in 0..(n + 1) |-> IF i = n + 1 THEN next ELSE f[i]]
  <2>4. g \in [0..(n + 1) -> X]
    BY <2>2
  <2>5. g[0] = base
    BY <2>1, <2>2 DEF GoesBy
  <2>6. ASSUME NEW i \in 1..(n + 1)
        PROVE  g[i] = step[<<i, g[i - 1]>>]
    <3>1. i - 1 \in 0..n /\ i - 1 # n + 1 /\ i \in 0..(n + 1)
      BY <2>2
    <3>2. g[i - 1] = f[i - 1]
      BY <2>2, <3>1
    <3>3. CASE i = n + 1
      <4>1. i - 1 = n
        BY <2>2, <3>3
      <4> QED
        BY <2>3, <3>1, <3>2, <3>3, <4>1
    <3>4. CASE i # n + 1
      <4>1. i \in 1..n
        BY <2>2, <3>4
      <4> QED
        BY <2>1, <3>1, <3>2, <3>4, <4>1 DEF GoesBy
    <3> QED
      BY <3>3, <3>4
  <2>7. GoesBy(g, base, step, n + 1)
    BY <2>4, <2>5, <2>6 DEF GoesBy
  <2> QED
    BY <2>2, <2>4, <2>7
<1> HIDE DEF T
<1>3. T = Nat
  BY <1>1, <1>2, Inductive DEF T
<1> QED
  BY <1>3 DEF T

\* What holds of the empty set, and goes on when an element is added, holds of
\* every finite set.
LEMMA SetInductive ==
  ASSUME NEW S, IsFiniteSet(S), NEW T, {} \in T,
         \A s \in SUBSET S : \A x \in S \ s : s \in T => s \cup {x} \in T
  PROVE  S \in T
<1> DEFINE N == {n \in Nat : \A s \in SUBSET S : Cardinality(s) = n => s \in T}
<1>1. \A s \in SUBSET S : IsFiniteSet(s) /\ Cardinality(s) \in Nat
  BY FS_Subset, FS_CardinalityType
<1>2. 0 \in N
  BY <1>1, FS_EmptySet
<1>3. ASSUME NEW n \in N
      PROVE  n + 1 \in N
  <2> SUFFICES ASSUME NEW s \in SUBSET S, Cardinality(s) = n + 1
               PROVE  s \in T
    OBVIOUS
  <2>1. n \in Nat /\ s # {}
    <3>1. n \in Nat /\ n + 1 # 0
      OBVIOUS
    <3> QED
      BY <3>1, FS_EmptySet
  <2>2. PICK x \in s : TRUE
    BY <2>1
  <2>3. Cardinality(s \ {x}) = n
    <3>1. IsFiniteSet(s)
      BY <1>1
    <3>2. Cardinality(s \ {x}) = Cardinality(s) - 1
      BY <3>1, FS_RemoveElement
    <3> QED
      BY <2>1, <3>2
  <2>4. s \ {x} \in T
    BY <2>3
  <2>5. s = (s \ {x}) \cup {x}
    OBVIOUS
  <2> QED
    BY <2>4, <2>5
<1> HIDE DEF N
<1>4. N = Nat
  <2>1. N \in SUBSET Nat
    BY DEF N
  <2> QED
    BY <1>2, <1>3, <2>1, Inductive
<1>5. Cardinality(S) \in N
  BY <1>1, <1>4
<1> QED
  BY <1>5 DEF N

-----------------------------------------------------------------------------
(* Sums.                                                                   *)

\* The fold of the community modules, with weights w.
Weighs(f, w, S) ==
  f = [s \in SUBSET S |->
         IF s = {} THEN 0 ELSE w[CHOOSE y \in s : TRUE] + f[s \ {CHOOSE y \in s : TRUE}]]

Sum(w, S) == (CHOOSE f : Weighs(f, w, S))[S]

NatsOn(w, S) == \A x \in S : w[x] \in Nat
TakesAny(f, w, S) == \A s \in SUBSET S : \A x \in s : f[s] = w[x] + f[s \ {x}]

\* A function that has the sums of the subsets of S.
Measures(f, w, S) ==
  IsFiniteSet(S) /\ NatsOn(w, S) /\ f \in [SUBSET S -> Nat] /\ Weighs(f, w, S)

LEMMA Swap ==
  \A a, b, c, d, e, g \in Nat : (a = b + c /\ c = d + e /\ g = b + e) => a = d + g
OBVIOUS

LEMMA WeighsExists ==
  ASSUME NEW S, IsFiniteSet(S), NEW w, NatsOn(w, S)
  PROVE  \E f : Measures(f, w, S)
<1> DEFINE pick(s) == CHOOSE y \in s : TRUE
           X == [SUBSET S -> Nat]
           Next1(g) == [s \in SUBSET S |-> IF s = {} THEN 0 ELSE w[pick(s)] + g[s \ {pick(s)}]]
           base == [s \in SUBSET S |-> 0]
           step == [k \in Nat \X X |-> Next1(k[2])]
           last == Cardinality(S)
<1>1. \A s \in SUBSET S : s # {} => pick(s) \in s
  OBVIOUS
<1> HIDE DEF pick
<1>2. base \in X
  OBVIOUS
<1>3. ASSUME NEW g \in X
      PROVE  Next1(g) \in X
  <2>1. ASSUME NEW s \in SUBSET S, s # {}
        PROVE  w[pick(s)] + g[s \ {pick(s)}] \in Nat
    <3>1. w[pick(s)] \in Nat
      BY <1>1, <2>1 DEF NatsOn
    <3>2. g[s \ {pick(s)}] \in Nat
      OBVIOUS
    <3> QED
      BY <3>1, <3>2
  <2> QED
    BY <2>1
<1>4. step \in [(Nat \X X) -> X]
  <2> HIDE DEF Next1
  <2> QED
    BY <1>3
<1>5. \A i \in Nat : \A g \in X : step[<<i, g>>] = Next1(g)
  OBVIOUS
<1>6. last \in Nat
  BY FS_CardinalityType
<1> HIDE DEF X, Next1, base, step, last
<1>7. PICK h \in [0..(last + 1) -> X] : GoesBy(h, base, step, last + 1)
  BY <1>2, <1>4, <1>6, Recursion
<1>8. \A i \in 1..(last + 1) : h[i] = Next1(h[i - 1])
  <2> TAKE i \in 1..(last + 1)
  <2>1. i - 1 \in 0..(last + 1) /\ i \in Nat
    BY <1>6
  <2>2. h[i - 1] \in X
    BY <2>1
  <2> QED
    BY <1>5, <1>7, <2>1, <2>2 DEF GoesBy
<1> DEFINE Same(i, s) == h[i][s] = h[i + 1][s]
           N == {i \in Nat : i <= last => \A s \in SUBSET S : Cardinality(s) <= i => Same(i, s)}
<1>9. \A s \in SUBSET S : IsFiniteSet(s) /\ Cardinality(s) \in Nat
  BY FS_Subset, FS_CardinalityType
<1>10. \A i \in 1..(last + 1) : \A s \in SUBSET S :
         h[i][s] = IF s = {} THEN 0 ELSE w[pick(s)] + h[i - 1][s \ {pick(s)}]
  BY <1>8 DEF Next1
<1>11. 0 \in N
  <2>1. h[0] = base /\ 1 \in 1..(last + 1)
    BY <1>6, <1>7 DEF GoesBy
  <2>2. h[0][{}] = 0 /\ h[1][{}] = 0
    BY <1>10, <2>1 DEF base
  <2>3. ASSUME NEW s \in SUBSET S, Cardinality(s) <= 0
        PROVE  s = {}
    BY <1>9, <2>3, FS_EmptySet
  <2>4. \A s \in SUBSET S : Cardinality(s) <= 0 => Same(0, s)
    <3>1. 0 + 1 = 1
      OBVIOUS
    <3> QED
      BY <2>2, <2>3, <3>1
  <2> QED
    BY <2>4
<1>12. ASSUME NEW i \in N
       PROVE  i + 1 \in N
  <2> SUFFICES ASSUME i + 1 <= last, NEW s \in SUBSET S, Cardinality(s) <= i + 1
               PROVE  Same(i + 1, s)
    OBVIOUS
  <2>1. /\ i \in Nat /\ i + 1 \in 1..(last + 1) /\ (i + 1) + 1 \in 1..(last + 1)
        /\ (i + 1) - 1 = i /\ ((i + 1) + 1) - 1 = i + 1 /\ i <= last
    BY <1>6
  <2>2. CASE s = {}
    BY <1>10, <2>1, <2>2
  <2>3. CASE s # {}
    <3>1. s \ {pick(s)} \in SUBSET S /\ Cardinality(s \ {pick(s)}) = Cardinality(s) - 1
      BY <1>1, <1>9, <2>3, FS_RemoveElement
    <3>2. Cardinality(s \ {pick(s)}) <= i
      BY <1>9, <2>1, <3>1
    <3>3. h[i][s \ {pick(s)}] = h[i + 1][s \ {pick(s)}]
      BY <2>1, <3>1, <3>2
    <3> QED
      BY <1>10, <2>1, <2>3, <3>3
  <2> QED
    BY <2>2, <2>3
<1>13. N = Nat
  <2> HIDE DEF N
  <2>1. N \in SUBSET Nat
    BY DEF N
  <2> QED
    BY <1>11, <1>12, <2>1, Inductive
<1>14. \A s \in SUBSET S : h[last][s] = h[last + 1][s]
  <2>1. ASSUME NEW s \in SUBSET S
        PROVE  Cardinality(s) <= last
    BY FS_Subset DEF last
  <2>2. last \in N
    BY <1>6, <1>13
  <2>3. last <= last
    BY <1>6
  <2> QED
    BY <2>1, <2>2, <2>3
<1> DEFINE f == h[last]
<1>15. f \in [SUBSET S -> Nat]
  <2>1. last \in 0..(last + 1)
    BY <1>6
  <2>2. f \in X
    BY <1>7, <2>1
  <2> QED
    BY <2>2 DEF X
<1>16. ASSUME NEW s \in SUBSET S
       PROVE  f[s] = IF s = {} THEN 0 ELSE w[pick(s)] + f[s \ {pick(s)}]
  <2>1. last + 1 \in 1..(last + 1) /\ (last + 1) - 1 = last
    BY <1>6
  <2> QED
    BY <1>10, <1>14, <2>1
<1> HIDE DEF f
<1>17. f = [s \in SUBSET S |-> IF s = {} THEN 0 ELSE w[pick(s)] + f[s \ {pick(s)}]]
  BY <1>15, <1>16
<1>18. Weighs(f, w, S)
  BY <1>17 DEF Weighs, pick
<1> QED
  BY <1>15, <1>18 DEF Measures

\* Whichever element is taken first.
LEMMA AnyFirst ==
  ASSUME NEW S, NEW w, NEW f, Measures(f, w, S)
  PROVE  TakesAny(f, w, S)
<1>0. IsFiniteSet(S) /\ NatsOn(w, S) /\ f \in [SUBSET S -> Nat] /\ Weighs(f, w, S)
  BY DEF Measures
<1> DEFINE Good(s) == \A x \in s : f[s] = w[x] + f[s \ {x}]
           N == {n \in Nat : \A s \in SUBSET S : Cardinality(s) = n => Good(s)}
<1>1. \A s \in SUBSET S : IsFiniteSet(s) /\ Cardinality(s) \in Nat
  BY <1>0, FS_Subset, FS_CardinalityType
<1>2. 0 \in N
  <2>1. \A s \in SUBSET S : Cardinality(s) = 0 => s = {}
    BY <1>1, FS_EmptySet
  <2> QED
    BY <2>1
<1>3. ASSUME NEW n \in N
      PROVE  n + 1 \in N
  <2> SUFFICES ASSUME NEW s \in SUBSET S, Cardinality(s) = n + 1
               PROVE  Good(s)
    <3> HIDE DEF Good
    <3> QED
      OBVIOUS
  <2> SUFFICES ASSUME NEW x \in s
               PROVE  f[s] = w[x] + f[s \ {x}]
    OBVIOUS
  <2>1. PICK y \in s : y = CHOOSE z \in s : TRUE
    OBVIOUS
  <2>2. f[s] = w[y] + f[s \ {y}]
    BY <1>0, <2>1 DEF Weighs
  <2>3. CASE x = y
    BY <2>2, <2>3
  <2>4. CASE x # y
    <3>1. s \ {x} \in SUBSET S /\ s \ {y} \in SUBSET S
      OBVIOUS
    <3>2. Cardinality(s \ {x}) = n /\ Cardinality(s \ {y}) = n
      <4>1. IsFiniteSet(s) /\ n \in Nat
        BY <1>1
      <4>2. Cardinality(s \ {x}) = Cardinality(s) - 1 /\ Cardinality(s \ {y}) = Cardinality(s) - 1
        BY <4>1, FS_RemoveElement
      <4> QED
        BY <4>1, <4>2
    <3>3. f[s \ {y}] = w[x] + f[(s \ {y}) \ {x}]
      BY <2>4, <3>1, <3>2
    <3>4. f[s \ {x}] = w[y] + f[(s \ {x}) \ {y}]
      BY <2>4, <3>1, <3>2
    <3>5. (s \ {y}) \ {x} = (s \ {x}) \ {y} /\ (s \ {x}) \ {y} \in SUBSET S
      OBVIOUS
    <3>6. /\ w[x] \in Nat /\ w[y] \in Nat /\ f[(s \ {x}) \ {y}] \in Nat
          /\ f[s] \in Nat /\ f[s \ {y}] \in Nat /\ f[s \ {x}] \in Nat
      BY <1>0, <3>1, <3>5 DEF NatsOn
    <3>7. f[s \ {y}] = w[x] + f[(s \ {x}) \ {y}]
      BY <3>3, <3>5, Zenon
    <3> QED
      BY <2>2, <3>4, <3>6, <3>7, Swap
  <2> QED
    BY <2>3, <2>4
<1> HIDE DEF N
<1>4. N = Nat
  <2>1. N \in SUBSET Nat
    BY DEF N
  <2> QED
    BY <1>2, <1>3, <2>1, Inductive
<1> QED
  BY <1>1, <1>4 DEF N, TakesAny

\* One value, whatever function and whatever superset it comes from.
LEMMA OneValue ==
  ASSUME NEW S, NEW w, NEW f, Measures(f, w, S),
         NEW T, NEW v, NEW g, Measures(g, v, T),
         NEW R, R \subseteq S, R \subseteq T, \A x \in R : w[x] = v[x]
  PROVE  f[R] = g[R]
<1> DEFINE P == {s \in SUBSET R : f[s] = g[s]}
<1>0. TakesAny(f, w, S) /\ TakesAny(g, v, T)
  BY AnyFirst
<1>1. {} \in P
  BY DEF Weighs, Measures
<1>2. ASSUME NEW s \in SUBSET R, NEW x \in R \ s, s \in P
      PROVE  s \cup {x} \in P
  <2>1. /\ s \cup {x} \in SUBSET S /\ s \cup {x} \in SUBSET T
        /\ (s \cup {x}) \ {x} = s /\ x \in s \cup {x}
    OBVIOUS
  <2>2. /\ f[s \cup {x}] = w[x] + f[(s \cup {x}) \ {x}]
        /\ g[s \cup {x}] = v[x] + g[(s \cup {x}) \ {x}]
    BY <1>0, <2>1, Zenon DEF TakesAny
  <2>3. f[s \cup {x}] = w[x] + f[s] /\ g[s \cup {x}] = v[x] + g[s]
    BY <2>1, <2>2
  <2> QED
    BY <1>2, <2>2, <2>3
<1>3. IsFiniteSet(R)
  BY FS_Subset DEF Measures
<1> HIDE DEF P
<1>4. R \in P
  BY <1>1, <1>2, <1>3, SetInductive
<1> QED
  BY <1>4 DEF P

\* A function that weighs, and the sum it comes to.
LEMMA SumIs ==
  ASSUME NEW S, IsFiniteSet(S), NEW w, NatsOn(w, S), NEW f, Weighs(f, w, S)
  PROVE  Measures(f, w, S) /\ Sum(w, S) = f[S]
<1>1. \A g : Weighs(g, w, S) => g \in [SUBSET S -> Nat]
  <2> SUFFICES ASSUME NEW g, Weighs(g, w, S)
               PROVE  g \in [SUBSET S -> Nat]
    OBVIOUS
  <2> DEFINE P == {s \in SUBSET S : \A r \in SUBSET s : g[r] \in Nat}
             N == {n \in Nat : \A s \in SUBSET S : Cardinality(s) = n => g[s] \in Nat}
  <2>1. \A s \in SUBSET S : IsFiniteSet(s) /\ Cardinality(s) \in Nat
    BY FS_Subset, FS_CardinalityType
  <2>2. \A s \in SUBSET S : g[s] = IF s = {} THEN 0
          ELSE w[CHOOSE y \in s : TRUE] + g[s \ {CHOOSE y \in s : TRUE}]
    BY DEF Weighs
  <2>3. 0 \in N
    <3>1. \A s \in SUBSET S : Cardinality(s) = 0 => s = {}
      BY <2>1, FS_EmptySet
    <3>2. g[{}] = 0
      BY <2>2
    <3> QED
      BY <3>1, <3>2
  <2>4. ASSUME NEW n \in N
        PROVE  n + 1 \in N
    <3> SUFFICES ASSUME NEW s \in SUBSET S, Cardinality(s) = n + 1
                 PROVE  g[s] \in Nat
      OBVIOUS
    <3>1. IsFiniteSet(s) /\ n \in Nat /\ n + 1 # 0
      BY <2>1
    <3>2. s # {}
      BY <3>1, FS_EmptySet
    <3>3. PICK y \in s : y = CHOOSE z \in s : TRUE
      BY <3>2
    <3>4. Cardinality(s \ {y}) = Cardinality(s) - 1
      BY <3>1, FS_RemoveElement
    <3>5. Cardinality(s \ {y}) = n /\ s \ {y} \in SUBSET S
      BY <3>1, <3>4
    <3>6. g[s \ {y}] \in Nat /\ w[y] \in Nat
      BY <3>5 DEF NatsOn
    <3>7. g[s] = w[y] + g[s \ {y}]
      BY <2>2, <3>2, <3>3
    <3> QED
      BY <3>6, <3>7
  <2> HIDE DEF N
  <2>5. N = Nat
    <3>1. N \in SUBSET Nat
      BY DEF N
    <3> QED
      BY <2>3, <2>4, <3>1, Inductive
  <2>6. \A s \in SUBSET S : g[s] \in Nat
    BY <2>1, <2>5 DEF N
  <2> QED
    BY <2>6 DEF Weighs
<1> DEFINE F == CHOOSE g : Weighs(g, w, S)
<1>2. Weighs(F, w, S) /\ Sum(w, S) = F[S]
  BY DEF Sum
<1> HIDE DEF F
<1>3. Measures(F, w, S) /\ Measures(f, w, S)
  BY <1>1, <1>2 DEF Measures
<1>4. S \subseteq S /\ \A x \in S : w[x] = w[x]
  OBVIOUS
<1>5. F[S] = f[S]
  BY <1>3, <1>4, OneValue
<1> QED
  BY <1>2, <1>3, <1>5

LEMMA SumOf ==
  ASSUME NEW S, NEW w, NEW f, Measures(f, w, S)
  PROVE  Sum(w, S) = f[S]
BY SumIs DEF Measures

LEMMA SumEmpty == \A w : Sum(w, {}) = 0
<1> TAKE w
<1>1. IsFiniteSet({}) /\ NatsOn(w, {})
  BY FS_EmptySet DEF NatsOn
<1>2. PICK f : Measures(f, w, {})
  BY <1>1, WeighsExists
<1>3. f[{}] = 0
  BY <1>2 DEF Weighs, Measures
<1> QED
  BY <1>2, <1>3, SumOf

LEMMA SumNat ==
  ASSUME NEW S, IsFiniteSet(S), NEW w, NatsOn(w, S)
  PROVE  Sum(w, S) \in Nat
<1>1. PICK f : Measures(f, w, S)
  BY WeighsExists
<1>2. f[S] \in Nat
  BY <1>1 DEF Measures
<1> QED
  BY <1>1, <1>2, SumOf

LEMMA SumSame ==
  ASSUME NEW S, IsFiniteSet(S), NEW w, NatsOn(w, S), NEW v, \A x \in S : w[x] = v[x]
  PROVE  Sum(w, S) = Sum(v, S)
<1>1. NatsOn(v, S) /\ S \subseteq S
  BY DEF NatsOn
<1>2. PICK f : Measures(f, w, S)
  BY WeighsExists
<1>3. PICK g : Measures(g, v, S)
  BY <1>1, WeighsExists
<1>4. f[S] = g[S]
  BY <1>1, <1>2, <1>3, OneValue
<1> QED
  BY <1>2, <1>3, <1>4, SumOf

LEMMA SumStep ==
  ASSUME NEW S, IsFiniteSet(S), NEW w, NatsOn(w, S), NEW x \in S
  PROVE  Sum(w, S) = w[x] + Sum(w, S \ {x})
<1> DEFINE R == S \ {x}
<1>1. IsFiniteSet(R) /\ NatsOn(w, R)
  BY FS_Subset DEF NatsOn
<1>2. PICK f : Measures(f, w, S)
  BY WeighsExists
<1>3. PICK g : Measures(g, w, R)
  BY <1>1, WeighsExists
<1>4. f[R] = g[R]
  <2>1. R \subseteq S /\ R \subseteq R /\ \A y \in R : w[y] = w[y]
    OBVIOUS
  <2> HIDE DEF R
  <2> QED
    BY <1>2, <1>3, <2>1, OneValue
<1>5. f[S] = w[x] + f[R]
  <2>1. TakesAny(f, w, S) /\ S \in SUBSET S
    BY <1>2, AnyFirst
  <2> QED
    BY <2>1, Zenon DEF TakesAny
<1>6. Sum(w, S) = f[S] /\ Sum(w, R) = g[R]
  BY <1>2, <1>3, SumOf
<1> QED
  BY <1>4, <1>5, <1>6

\* The laws of addition.
LEMMA SumAdded ==
  ASSUME NEW S, IsFiniteSet(S), NEW x, x \notin S, NEW w, NatsOn(w, S \cup {x})
  PROVE  Sum(w, S \cup {x}) = w[x] + Sum(w, S)
<1>1. IsFiniteSet(S \cup {x}) /\ (S \cup {x}) \ {x} = S
  BY FS_AddElement
<1> QED
  BY <1>1, SumStep

LEMMA SumUnion ==
  ASSUME NEW S, IsFiniteSet(S), NEW T, IsFiniteSet(T), S \cap T = {},
         NEW w, NatsOn(w, S \cup T)
  PROVE  Sum(w, S \cup T) = Sum(w, S) + Sum(w, T)
<1> DEFINE P == {s \in SUBSET S : Sum(w, s \cup T) = Sum(w, s) + Sum(w, T)}
<1>1. Sum(w, T) \in Nat
  BY SumNat DEF NatsOn
<1>2. {} \in P
  <2>1. {} \cup T = T
    OBVIOUS
  <2> QED
    BY <1>1, <2>1, SumEmpty
<1>3. ASSUME NEW s \in SUBSET S, NEW x \in S \ s, s \in P
      PROVE  s \cup {x} \in P
  <2>1. IsFiniteSet(s) /\ IsFiniteSet(s \cup T)
    BY FS_Subset, FS_Union
  <2>2. NatsOn(w, s \cup {x}) /\ NatsOn(w, (s \cup T) \cup {x}) /\ NatsOn(w, s)
    BY DEF NatsOn
  <2>3. Sum(w, s \cup {x}) = w[x] + Sum(w, s)
    BY <2>1, <2>2, SumAdded
  <2>4. Sum(w, (s \cup T) \cup {x}) = w[x] + Sum(w, s \cup T)
    <3>1. x \notin s \cup T
      OBVIOUS
    <3> QED
      BY <2>1, <2>2, <3>1, SumAdded
  <2>5. (s \cup {x}) \cup T = (s \cup T) \cup {x}
    OBVIOUS
  <2>6. w[x] \in Nat /\ Sum(w, s) \in Nat
    BY <2>1, <2>2, SumNat DEF NatsOn
  <2>7. Sum(w, s \cup T) = Sum(w, s) + Sum(w, T)
    BY <1>3
  <2>8. Sum(w, (s \cup {x}) \cup T) = Sum(w, s \cup {x}) + Sum(w, T)
    <3> HIDE DEF P
    <3>1. Sum(w, (s \cup {x}) \cup T) = w[x] + (Sum(w, s) + Sum(w, T))
      BY <2>4, <2>5, <2>7
    <3> QED
      BY <1>1, <2>3, <2>6, <3>1
  <2> QED
    BY <2>8
<1> HIDE DEF P
<1>4. S \in P
  BY <1>2, <1>3, SetInductive
<1> QED
  BY <1>4 DEF P

LEMMA SumOfParts ==
  ASSUME NEW S, IsFiniteSet(S), NEW u, NatsOn(u, S), NEW v, NatsOn(v, S),
         NEW w, \A x \in S : w[x] = u[x] + v[x]
  PROVE  Sum(w, S) = Sum(u, S) + Sum(v, S)
<1> DEFINE P == {s \in SUBSET S : Sum(w, s) = Sum(u, s) + Sum(v, s)}
<1>1. {} \in P
  BY SumEmpty
<1>2. ASSUME NEW s \in SUBSET S, NEW x \in S \ s, s \in P
      PROVE  s \cup {x} \in P
  <2>1. IsFiniteSet(s)
    BY FS_Subset
  <2>2. /\ NatsOn(u, s \cup {x}) /\ NatsOn(v, s \cup {x}) /\ NatsOn(w, s \cup {x})
        /\ NatsOn(u, s) /\ NatsOn(v, s)
    BY DEF NatsOn
  <2>3. /\ Sum(u, s \cup {x}) = u[x] + Sum(u, s)
        /\ Sum(v, s \cup {x}) = v[x] + Sum(v, s)
        /\ Sum(w, s \cup {x}) = w[x] + Sum(w, s)
    BY <2>1, <2>2, SumAdded
  <2>4. u[x] \in Nat /\ v[x] \in Nat /\ Sum(u, s) \in Nat /\ Sum(v, s) \in Nat
    BY <2>1, <2>2, SumNat DEF NatsOn
  <2>5. Sum(w, s) = Sum(u, s) + Sum(v, s) /\ w[x] = u[x] + v[x]
    BY <1>2
  <2> QED
    BY <2>3, <2>4, <2>5
<1> HIDE DEF P
<1>3. S \in P
  BY <1>1, <1>2, SetInductive
<1> QED
  BY <1>3 DEF P

\* The weights of other elements, one to one.
LEMMA SumRenamed ==
  ASSUME NEW S, IsFiniteSet(S), NEW w, NatsOn(w, S),
         NEW m, \A x, y \in S : m[x] = m[y] => x = y,
         NEW v, \A x \in S : v[m[x]] = w[x]
  PROVE  IsFiniteSet({m[x] : x \in S}) /\ Sum(v, {m[x] : x \in S}) = Sum(w, S)
<1> DEFINE Im(s) == {m[x] : x \in s}
           P == {s \in SUBSET S : IsFiniteSet(Im(s)) /\ Sum(v, Im(s)) = Sum(w, s)}
<1>1. {} \in P
  <2>1. Im({}) = {}
    OBVIOUS
  <2> QED
    BY <2>1, SumEmpty, FS_EmptySet
<1>2. ASSUME NEW s \in SUBSET S, NEW x \in S \ s, s \in P
      PROVE  s \cup {x} \in P
  <2>1. IsFiniteSet(s) /\ IsFiniteSet(Im(s)) /\ Sum(v, Im(s)) = Sum(w, s)
    BY <1>2, FS_Subset
  <2>2. Im(s \cup {x}) = Im(s) \cup {m[x]} /\ m[x] \notin Im(s)
    OBVIOUS
  <2>3. NatsOn(w, s \cup {x}) /\ NatsOn(v, Im(s) \cup {m[x]})
    BY DEF NatsOn
  <2> HIDE DEF Im
  <2>4. Sum(w, s \cup {x}) = w[x] + Sum(w, s)
    BY <2>1, <2>3, SumAdded
  <2>5. Sum(v, Im(s) \cup {m[x]}) = v[m[x]] + Sum(v, Im(s)) /\ IsFiniteSet(Im(s) \cup {m[x]})
    BY <2>1, <2>2, <2>3, SumAdded, FS_AddElement
  <2> QED
    BY <2>1, <2>2, <2>4, <2>5
<1> HIDE DEF P
<1>3. S \in P
  BY <1>1, <1>2, SetInductive
<1> QED
  BY <1>3 DEF P

\* Summed one owner after the other.
LEMMA SumByOwner ==
  ASSUME NEW S, IsFiniteSet(S), NEW w, NatsOn(w, S),
         NEW U, IsFiniteSet(U), NEW of, \A x \in S : of[x] \in U,
         NEW sums, sums = [u \in U |-> Sum(w, {x \in S : of[x] = u})]
  PROVE  Sum(sums, U) = Sum(w, S)
<1> DEFINE At(V) == {x \in S : of[x] \in V}
           P == {V \in SUBSET U : Sum(sums, V) = Sum(w, At(V))}
<1>1. {} \in P
  <2>1. At({}) = {}
    OBVIOUS
  <2> QED
    BY <2>1, SumEmpty
<1>2. ASSUME NEW V \in SUBSET U, NEW u \in U \ V, V \in P
      PROVE  V \cup {u} \in P
  <2>1. IsFiniteSet(V)
    BY FS_Subset
  <2> DEFINE Own == {x \in S : of[x] = u}
  <2>2. IsFiniteSet(At(V)) /\ IsFiniteSet(Own) /\ At(V) \cap Own = {} /\ At(V \cup {u}) = At(V) \cup Own
    <3>1. At(V) \in SUBSET S /\ Own \in SUBSET S
      OBVIOUS
    <3>2. IsFiniteSet(At(V)) /\ IsFiniteSet(Own)
      BY <3>1, FS_Subset
    <3> QED
      BY <3>2
  <2>3. NatsOn(w, At(V) \cup Own)
    BY DEF NatsOn
  <2>4. sums[u] = Sum(w, Own) /\ NatsOn(sums, V \cup {u})
    <3>1. \A a \in U : IsFiniteSet({x \in S : of[x] = a}) /\ NatsOn(w, {x \in S : of[x] = a})
      BY FS_Subset DEF NatsOn
    <3>2. \A a \in U : Sum(w, {x \in S : of[x] = a}) \in Nat
      BY <3>1, SumNat
    <3> QED
      BY <3>2 DEF NatsOn
  <2> HIDE DEF At, Own
  <2>5. Sum(w, At(V) \cup Own) = Sum(w, At(V)) + Sum(w, Own)
    BY <2>2, <2>3, SumUnion
  <2>6. Sum(sums, V \cup {u}) = sums[u] + Sum(sums, V)
    BY <2>1, <2>4, SumAdded
  <2>7. Sum(w, At(V)) \in Nat /\ Sum(w, Own) \in Nat
    <3>1. NatsOn(w, At(V)) /\ NatsOn(w, Own)
      BY <2>3 DEF NatsOn
    <3> QED
      BY <2>2, <3>1, SumNat
  <2>8. Sum(sums, V) = Sum(w, At(V))
    BY <1>2 DEF At
  <2>9. Sum(sums, V \cup {u}) = Sum(w, At(V \cup {u}))
    <3>1. Sum(w, At(V \cup {u})) = Sum(w, At(V)) + Sum(w, Own)
      BY <2>2, <2>5
    <3>2. Sum(sums, V \cup {u}) = Sum(w, Own) + Sum(w, At(V))
      BY <2>4, <2>6, <2>8
    <3> QED
      BY <2>7, <3>1, <3>2
  <2> QED
    BY <2>9 DEF At
<1> HIDE DEF P, At
<1>3. U \in P
  BY <1>1, <1>2, SetInductive
<1>4. At(U) = S
  BY DEF At
<1> QED
  BY <1>3, <1>4 DEF P

\* The two sums of the model.
LEMMA TotalIs == \A sums : Total(sums) = Sum(sums, DOMAIN sums)
BY Zenon DEF Total, MapThenSumSet, MapThenFoldSet, Sum, Weighs

Sizes(d) == [f \in DOMAIN d.files |-> d.files[f].size]
BytesWeigh(g, d, S) ==
  g = [s \in SUBSET S |->
         IF s = {} THEN 0
         ELSE d.files[CHOOSE y \in s : TRUE].size + g[s \ {CHOOSE y \in s : TRUE}]]

LEMMA FileBytesIs ==
  ASSUME NEW d, NEW S, IsFiniteSet(S), S \subseteq DOMAIN d.files, NatsOn(Sizes(d), S)
  PROVE  FileBytes(d, S) = Sum(Sizes(d), S)
<1> DEFINE g == CHOOSE g : BytesWeigh(g, d, S)
<1>1. FileBytes(d, S) = g[S]
  BY Zenon DEF FileBytes, MapThenSumSet, MapThenFoldSet, BytesWeigh
<1>2. ASSUME NEW s \in SUBSET S, s # {}
      PROVE  d.files[CHOOSE y \in s : TRUE].size = Sizes(d)[CHOOSE y \in s : TRUE]
  <2>1. (CHOOSE y \in s : TRUE) \in DOMAIN d.files
    BY <1>2
  <2> QED
    BY <2>1 DEF Sizes
<1>3. \A f : Weighs(f, Sizes(d), S) <=> BytesWeigh(f, d, S)
  <2> TAKE f
  <2>1. \A s \in SUBSET S :
          (IF s = {} THEN 0
           ELSE d.files[CHOOSE y \in s : TRUE].size + f[s \ {CHOOSE y \in s : TRUE}])
          = (IF s = {} THEN 0
             ELSE Sizes(d)[CHOOSE y \in s : TRUE] + f[s \ {CHOOSE y \in s : TRUE}])
    BY <1>2
  <2>2. [s \in SUBSET S |->
           IF s = {} THEN 0
           ELSE d.files[CHOOSE y \in s : TRUE].size + f[s \ {CHOOSE y \in s : TRUE}]]
        = [s \in SUBSET S |->
             IF s = {} THEN 0
             ELSE Sizes(d)[CHOOSE y \in s : TRUE] + f[s \ {CHOOSE y \in s : TRUE}]]
    BY <2>1
  <2> QED
    BY <2>2 DEF Weighs, BytesWeigh
<1>4. PICK f : Weighs(f, Sizes(d), S)
  BY WeighsExists DEF Measures
<1>5. BytesWeigh(g, d, S)
  BY <1>3, <1>4
<1> HIDE DEF g
<1>6. Weighs(g, Sizes(d), S)
  BY <1>3, <1>5
<1> QED
  BY <1>1, <1>6, SumIs

-----------------------------------------------------------------------------
(* The subtree of a collection is the least set that has it and, of each   *)
(* of its collections, the members.                                        *)

Lower(d, S) == S \cup UNION {SubColls(d, x) : x \in S}
Grows(f, d, c, n) ==
  f = [k \in 0..n |-> IF k = 0 THEN {c} \cap DOMAIN d.colls ELSE Lower(d, f[k - 1])]
ClosedDown(d, S) == \A x \in S : SubColls(d, x) \subseteq S

LEMMA GrowsExists ==
  ASSUME NEW d, NEW c, NEW n \in Nat
  PROVE  \E f : Grows(f, d, c, n)
<1> DEFINE X == SUBSET DOMAIN d.colls
           base == {c} \cap DOMAIN d.colls
           step == [k \in Nat \X X |-> Lower(d, k[2])]
<1>1. base \in X
  OBVIOUS
<1>2. \A S \in X : Lower(d, S) \in X
  BY DEF Lower, SubColls
<1>3. step \in [(Nat \X X) -> X]
  BY <1>2
<1>4. \A i \in Nat : \A S \in X : step[<<i, S>>] = Lower(d, S)
  OBVIOUS
<1> HIDE DEF X, step, base
<1>5. PICK f \in [0..n -> X] : GoesBy(f, base, step, n)
  BY <1>1, <1>3, Recursion
<1>6. ASSUME NEW i \in 0..n
      PROVE  f[i] = IF i = 0 THEN base ELSE Lower(d, f[i - 1])
  <2>1. CASE i = 0
    BY <1>5, <2>1 DEF GoesBy
  <2>2. CASE i # 0
    <3>1. i \in 1..n /\ i \in Nat /\ i - 1 \in 0..n
      BY <2>2
    <3>2. f[i - 1] \in X
      BY <3>1
    <3> QED
      BY <1>4, <1>5, <2>2, <3>1, <3>2 DEF GoesBy
  <2> QED
    BY <2>1, <2>2
<1>7. Grows(f, d, c, n)
  BY <1>6 DEF Grows, base
<1> QED
  BY <1>7

LEMMA SubtreeIs ==
  ASSUME NEW d, NEW c, Cardinality(DOMAIN d.colls) \in Nat
  PROVE  \E f : /\ Grows(f, d, c, Cardinality(DOMAIN d.colls))
                /\ Subtree(d, c) = f[Cardinality(DOMAIN d.colls)]
<1> DEFINE F == CHOOSE G : Grows(G, d, c, Cardinality(DOMAIN d.colls))
<1>1. Grows(F, d, c, Cardinality(DOMAIN d.colls))
  BY GrowsExists
<1>2. Subtree(d, c) = F[Cardinality(DOMAIN d.colls)]
  BY Zenon DEF Subtree, Grows, Lower
<1> QED
  BY <1>1, <1>2

\* A stage that is not yet closed has more than the one before.
LEMMA GrowsOn ==
  ASSUME NEW d, IsFiniteSet(DOMAIN d.colls), NEW c, NEW last \in Nat,
         NEW f, Grows(f, d, c, last)
  PROVE  \A i \in 0..last : /\ f[i] \subseteq DOMAIN d.colls
                            /\ {c} \cap DOMAIN d.colls \subseteq f[i]
                            /\ ClosedDown(d, f[i]) \/ Cardinality(f[i]) >= i
<1> DEFINE Good(i) == /\ f[i] \subseteq DOMAIN d.colls
                      /\ {c} \cap DOMAIN d.colls \subseteq f[i]
                      /\ ClosedDown(d, f[i]) \/ Cardinality(f[i]) >= i
           T == {i \in Nat : i <= last => Good(i)}
<1>1. 0 \in T
  <2>1. f[0] = {c} \cap DOMAIN d.colls
    BY DEF Grows
  <2>2. Cardinality(f[0]) \in Nat
    BY <2>1, FS_Subset, FS_CardinalityType
  <2>3. Good(0)
    BY <2>1, <2>2
  <2> HIDE DEF Good
  <2> QED
    BY <2>3
<1>2. ASSUME NEW i \in T
      PROVE  i + 1 \in T
  <2> SUFFICES ASSUME i + 1 <= last
               PROVE  Good(i + 1)
    <3> HIDE DEF Good
    <3> QED
      OBVIOUS
  <2>1. i \in Nat /\ Good(i) /\ i + 1 \in 0..last /\ i + 1 # 0 /\ (i + 1) - 1 = i
    <3> HIDE DEF Good
    <3> QED
      OBVIOUS
  <2>2. f[i + 1] = Lower(d, f[i])
    <3>1. f[i + 1] = Lower(d, f[(i + 1) - 1])
      BY <2>1 DEF Grows
    <3> QED
      BY <2>1, <3>1
  <2>3. f[i] \subseteq f[i + 1] /\ f[i + 1] \subseteq DOMAIN d.colls
    BY <2>1, <2>2 DEF Lower, SubColls
  <2>4. {c} \cap DOMAIN d.colls \subseteq f[i + 1]
    BY <2>1, <2>3
  <2>5. CASE ClosedDown(d, f[i])
    <3>1. f[i + 1] = f[i]
      BY <2>1, <2>2, <2>5 DEF Lower, ClosedDown
    <3> QED
      BY <2>3, <2>4, <2>5, <3>1
  <2>6. CASE ~ClosedDown(d, f[i])
    <3>1. f[i] # f[i + 1]
      BY <2>2, <2>6 DEF ClosedDown, Lower
    <3>2. IsFiniteSet(f[i + 1]) /\ IsFiniteSet(f[i])
      BY <2>3, FS_Subset
    <3>3. Cardinality(f[i]) \in Nat /\ Cardinality(f[i + 1]) \in Nat
      BY <3>2, FS_CardinalityType
    <3>4. Cardinality(f[i]) <= Cardinality(f[i + 1]) /\ Cardinality(f[i]) # Cardinality(f[i + 1])
      BY <2>3, <3>1, <3>2, FS_Subset
    <3>5. Cardinality(f[i]) >= i
      BY <2>1, <2>6
    <3>6. Cardinality(f[i + 1]) >= i + 1
      BY <2>1, <3>3, <3>4, <3>5
    <3> QED
      BY <2>3, <2>4, <3>6
  <2> QED
    BY <2>5, <2>6
<1> HIDE DEF Good
<1>3. T = Nat
  <2> HIDE DEF T
  <2>1. T \in SUBSET Nat
    BY DEF T
  <2> QED
    BY <1>1, <1>2, <2>1, Inductive
<1>4. \A i \in 0..last : Good(i)
  BY <1>3
<1> QED
  BY <1>4 DEF Good

LEMMA SubtreeClosed ==
  ASSUME NEW d, IsFiniteSet(DOMAIN d.colls), NEW c
  PROVE  /\ Subtree(d, c) \subseteq DOMAIN d.colls
         /\ c \in DOMAIN d.colls => c \in Subtree(d, c)
         /\ ClosedDown(d, Subtree(d, c))
<1> DEFINE last == Cardinality(DOMAIN d.colls)
<1>1. last \in Nat /\ last \in 0..last
  BY FS_CardinalityType
<1>2. PICK f : Grows(f, d, c, last) /\ Subtree(d, c) = f[last]
  BY <1>1, SubtreeIs
<1>3. /\ f[last] \subseteq DOMAIN d.colls /\ {c} \cap DOMAIN d.colls \subseteq f[last]
      /\ ClosedDown(d, f[last]) \/ Cardinality(f[last]) >= last
  <2> HIDE DEF last
  <2>1. \A i \in 0..last : /\ f[i] \subseteq DOMAIN d.colls
                           /\ {c} \cap DOMAIN d.colls \subseteq f[i]
                           /\ ClosedDown(d, f[i]) \/ Cardinality(f[i]) >= i
    BY <1>1, <1>2, GrowsOn
  <2> QED
    BY <1>1, <2>1
<1>4. ClosedDown(d, f[last])
  <2>1. CASE Cardinality(f[last]) >= last
    <3>1. Cardinality(f[last]) \in Nat /\ Cardinality(f[last]) <= last
      BY <1>3, FS_Subset, FS_CardinalityType
    <3>2. Cardinality(f[last]) = last
      BY <1>1, <2>1, <3>1
    <3>3. f[last] = DOMAIN d.colls
      BY <1>3, <3>2, FS_Subset
    <3> QED
      BY <3>3 DEF ClosedDown, SubColls
  <2> QED
    BY <1>3, <2>1
<1> QED
  BY <1>2, <1>3, <1>4

LEMMA SubtreeLeast ==
  ASSUME NEW d, IsFiniteSet(DOMAIN d.colls), NEW c,
         NEW S, {c} \cap DOMAIN d.colls \subseteq S, ClosedDown(d, S)
  PROVE  Subtree(d, c) \subseteq S
<1> DEFINE last == Cardinality(DOMAIN d.colls)
<1>1. last \in Nat
  BY FS_CardinalityType
<1>2. PICK f : Grows(f, d, c, last) /\ Subtree(d, c) = f[last]
  BY <1>1, SubtreeIs
<1> HIDE DEF last
<1> DEFINE T == {i \in Nat : i <= last => f[i] \subseteq S}
<1>3. 0 \in T
  <2>1. f[0] = {c} \cap DOMAIN d.colls
    BY <1>1, <1>2 DEF Grows
  <2> QED
    BY <2>1
<1>4. ASSUME NEW i \in T
      PROVE  i + 1 \in T
  <2> SUFFICES ASSUME i + 1 <= last
               PROVE  f[i + 1] \subseteq S
    OBVIOUS
  <2>1. i \in Nat /\ f[i] \subseteq S /\ i + 1 \in 0..last /\ i + 1 # 0 /\ (i + 1) - 1 = i
    BY <1>1
  <2>2. f[i + 1] = Lower(d, f[(i + 1) - 1])
    BY <1>2, <2>1 DEF Grows
  <2>3. f[i + 1] = Lower(d, f[i])
    BY <2>1, <2>2
  <2> QED
    BY <2>1, <2>3 DEF Lower, ClosedDown
<1>5. T = Nat
  <2> HIDE DEF T
  <2>1. T \in SUBSET Nat
    BY DEF T
  <2> QED
    BY <1>3, <1>4, <2>1, Inductive
<1>6. f[last] \subseteq S
  BY <1>1, <1>5
<1> QED
  BY <1>2, <1>6

\* It depends on the collections alone.
LEMMA SubtreeSame ==
  ASSUME NEW d, IsFiniteSet(DOMAIN d.colls), NEW e, e.colls = d.colls, NEW c
  PROVE  Subtree(e, c) = Subtree(d, c)
<1>1. \A x : SubColls(e, x) = SubColls(d, x)
  BY DEF SubColls
<1>2. \A S : ClosedDown(e, S) <=> ClosedDown(d, S)
  BY <1>1 DEF ClosedDown
<1>3. /\ {c} \cap DOMAIN d.colls \subseteq Subtree(d, c) /\ ClosedDown(e, Subtree(d, c))
      /\ {c} \cap DOMAIN e.colls \subseteq Subtree(e, c) /\ ClosedDown(d, Subtree(e, c))
  BY <1>2, SubtreeClosed
<1>4. Subtree(e, c) \subseteq Subtree(d, c)
  BY <1>3, SubtreeLeast
<1>5. Subtree(d, c) \subseteq Subtree(e, c)
  BY <1>3, SubtreeLeast
<1> QED
  BY <1>4, <1>5

\* Of every collection below c, but c, the parent is below c.
LEMMA SubtreeParents ==
  ASSUME NEW d, IsFiniteSet(DOMAIN d.colls), NEW c, NEW x \in Subtree(d, c), x # c
  PROVE  d.colls[x].parent \in Subtree(d, c)
<1> DEFINE S == {y \in Subtree(d, c) : y = c \/ d.colls[y].parent \in Subtree(d, c)}
<1>1. {c} \cap DOMAIN d.colls \subseteq S
  BY SubtreeClosed
<1>2. ClosedDown(d, S)
  <2>1. ClosedDown(d, Subtree(d, c))
    BY SubtreeClosed
  <2> QED
    BY <2>1 DEF ClosedDown, SubColls
<1> HIDE DEF S
<1>3. x \in S
  BY <1>1, <1>2, SubtreeLeast
<1> QED
  BY <1>3 DEF S

-----------------------------------------------------------------------------
(* Resolving a path: the members of its last name, of what the path before *)
(* it resolves to.                                                         *)

OneDown(d, name, S) ==
  UNION {IF t.kind = "coll" THEN ChildrenAt(d, t.id, name) ELSE {None} : t \in S}
Walks(f, d, path) ==
  f = [i \in 0..Len(path) |-> IF i = 0 THEN {Coll(d, Root)} ELSE OneDown(d, path[i], f[i - 1])]

\* The handles there may be of the rows of d.
Handles(d) == {Coll(d, x) : x \in DOMAIN d.colls} \cup {File(d, x) : x \in DOMAIN d.files} \cup {None}

LEMMA OneDownFinds ==
  \A d, name, S : OneDown(d, name, S) \subseteq Handles(d)
<1> TAKE d, name, S
<1>1. \A c : ChildrenAt(d, c, name) \subseteq Handles(d)
  BY DEF ChildrenAt, SubColls, SubFiles, Handles
<1>2. None \in Handles(d)
  BY DEF Handles
<1> QED
  BY <1>1, <1>2 DEF OneDown

LEMMA WalksExists ==
  ASSUME NEW d, Root \in DOMAIN d.colls, NEW path, Len(path) \in Nat
  PROVE  \E f : Walks(f, d, path)
<1> DEFINE X == SUBSET Handles(d)
           base == {Coll(d, Root)}
           step == [k \in Nat \X X |-> OneDown(d, path[k[1]], k[2])]
<1>1. base \in X
  BY DEF Handles
<1>2. \A i : \A S \in X : OneDown(d, path[i], S) \in X
  BY OneDownFinds
<1>3. step \in [(Nat \X X) -> X]
  BY <1>2
<1>4. \A i \in Nat : \A S \in X : step[<<i, S>>] = OneDown(d, path[i], S)
  OBVIOUS
<1> HIDE DEF X, step, base
<1>5. PICK f \in [0..Len(path) -> X] : GoesBy(f, base, step, Len(path))
  BY <1>1, <1>3, Recursion
<1>6. ASSUME NEW i \in 0..Len(path)
      PROVE  f[i] = IF i = 0 THEN base ELSE OneDown(d, path[i], f[i - 1])
  <2>1. CASE i = 0
    BY <1>5, <2>1 DEF GoesBy
  <2>2. CASE i # 0
    <3>1. i \in 1..Len(path) /\ i \in Nat /\ i - 1 \in 0..Len(path)
      BY <2>2
    <3>2. f[i - 1] \in X
      BY <3>1
    <3> QED
      BY <1>4, <1>5, <2>2, <3>1, <3>2 DEF GoesBy
  <2> QED
    BY <2>1, <2>2
<1>7. Walks(f, d, path)
  BY <1>6 DEF Walks, base
<1> QED
  BY <1>7

LEMMA ResolveIs ==
  ASSUME NEW d, Root \in DOMAIN d.colls, NEW path, Len(path) \in Nat
  PROVE  \E f : Walks(f, d, path) /\ Resolve(d, path) = f[Len(path)]
<1> DEFINE F == CHOOSE G : Walks(G, d, path)
<1>1. Walks(F, d, path)
  BY WalksExists
<1>2. Resolve(d, path) = F[Len(path)]
  BY Zenon DEF Resolve, Walks, OneDown
<1> QED
  BY <1>1, <1>2

LEMMA ResolveRoot ==
  ASSUME NEW d, Root \in DOMAIN d.colls
  PROVE  Resolve(d, <<>>) = {Coll(d, Root)}
<1>1. Len(<<>>) = 0
  OBVIOUS
<1>2. PICK f : Walks(f, d, <<>>) /\ Resolve(d, <<>>) = f[Len(<<>>)]
  BY <1>1, ResolveIs
<1>3. f[0] = {Coll(d, Root)}
  BY <1>1, <1>2 DEF Walks
<1> QED
  BY <1>1, <1>2, <1>3

LEMMA FrontOf ==
  ASSUME NEW path \in Seq(STRING), path # <<>>
  PROVE  /\ Front(path) \in Seq(STRING) /\ Last(path) \in STRING
         /\ Len(Front(path)) = Len(path) - 1 /\ Len(path) \in Nat \ {0}
         /\ Last(path) = path[Len(path)]
         /\ \A i \in 1..(Len(path) - 1) : Front(path)[i] = path[i]
<1> DEFINE n == Len(path)
<1>1. n \in Nat \ {0} /\ n \in 1..n /\ n - 1 \in 0..n
  OBVIOUS
<1>2. path[n] \in STRING
  BY <1>1
<1>3. Front(path) = SubSeq(path, 1, n - 1)
  BY DEF Front
<1>4. Front(path) \in Seq(STRING) /\ Len(Front(path)) = n - 1
  <2>1. \A i \in 1..(n - 1) : path[i] \in STRING
    OBVIOUS
  <2>2. Front(path) = [i \in 1..(n - 1) |-> path[i]]
    BY <1>1, <1>3
  <2> HIDE DEF n
  <2>3. n - 1 \in Nat
    BY <1>1
  <2>4. Front(path) \in Seq(STRING)
    BY <2>1, <2>2, <2>3
  <2> QED
    BY <2>2, <2>3, <2>4
<1>5. \A i \in 1..(n - 1) : Front(path)[i] = path[i]
  BY <1>1, <1>3
<1> QED
  BY <1>1, <1>2, <1>4, <1>5 DEF Last

LEMMA ResolveStep ==
  ASSUME NEW d, Root \in DOMAIN d.colls, NEW path \in Seq(STRING), path # <<>>
  PROVE  Resolve(d, path) = OneDown(d, Last(path), Resolve(d, Front(path)))
<1> DEFINE n == Len(path)
           up == Front(path)
<1>1. /\ up \in Seq(STRING) /\ Len(up) = n - 1 /\ n \in Nat \ {0}
      /\ Last(path) = path[n] /\ \A i \in 1..(n - 1) : up[i] = path[i]
  BY FrontOf
<1>2. Len(up) \in Nat
  BY <1>1
<1>3. PICK f : Walks(f, d, path) /\ Resolve(d, path) = f[Len(path)]
  BY <1>1, ResolveIs
<1>4. PICK g : Walks(g, d, up) /\ Resolve(d, up) = g[Len(up)]
  BY <1>2, ResolveIs
<1>5. \A i \in 0..n : f[i] = IF i = 0 THEN {Coll(d, Root)} ELSE OneDown(d, path[i], f[i - 1])
  BY <1>3 DEF Walks
<1>6. \A i \in 0..(n - 1) : g[i] = IF i = 0 THEN {Coll(d, Root)} ELSE OneDown(d, up[i], g[i - 1])
  BY <1>1, <1>4 DEF Walks
<1> HIDE DEF n, up
<1> DEFINE T == {i \in Nat : i <= n - 1 => f[i] = g[i]}
<1>7. 0 \in T
  <2>1. 0 \in 0..n /\ 0 \in 0..(n - 1)
    BY <1>1
  <2> QED
    BY <1>5, <1>6, <2>1
<1>8. ASSUME NEW i \in T
      PROVE  i + 1 \in T
  <2> SUFFICES ASSUME i + 1 <= n - 1
               PROVE  f[i + 1] = g[i + 1]
    OBVIOUS
  <2>1. /\ i \in Nat /\ f[i] = g[i] /\ i + 1 \in 0..n /\ i + 1 \in 0..(n - 1)
        /\ i + 1 # 0 /\ (i + 1) - 1 = i /\ i + 1 \in 1..(n - 1)
    BY <1>1
  <2>2. f[i + 1] = OneDown(d, path[i + 1], f[i])
    BY <1>5, <2>1
  <2>3. g[i + 1] = OneDown(d, up[i + 1], g[i])
    BY <1>6, <2>1
  <2> QED
    BY <1>1, <2>1, <2>2, <2>3
<1>9. T = Nat
  <2> HIDE DEF T
  <2>1. T \in SUBSET Nat
    BY DEF T
  <2> QED
    BY <1>7, <1>8, <2>1, Inductive
<1>10. f[n - 1] = g[n - 1]
  <2>1. n - 1 \in T /\ n - 1 <= n - 1
    BY <1>1, <1>9
  <2> QED
    BY <2>1
<1>11. f[n] = OneDown(d, path[n], f[n - 1])
  <2>1. n \in 0..n /\ n # 0
    BY <1>1
  <2> QED
    BY <1>5, <2>1
<1> QED
  BY <1>1, <1>3, <1>4, <1>10, <1>11 DEF n, up

-----------------------------------------------------------------------------
(* The pieces transactions are made of: what each makes of the tables.     *)

Tables == {"colls", "files", "content", "log", "used", "tenantUsed", "nextColl", "nextFile"}
IsDb(d) == DOMAIN d = Tables

LEMMA ChargeMakes ==
  ASSUME NEW d, IsDb(d), NEW u, NEW delta, NEW e, e = ApplyQuotaDelta(d, u, delta)
  PROVE  /\ IsDb(e)
         /\ e.used = With(d.used, u, Floor(d.used[u] + delta))
         /\ e.tenantUsed = Floor(d.tenantUsed + delta)
         /\ e.colls = d.colls /\ e.files = d.files /\ e.content = d.content /\ e.log = d.log
         /\ e.nextColl = d.nextColl /\ e.nextFile = d.nextFile
BY DEF ApplyQuotaDelta, IsDb, Tables

Credited(e, d, sums) ==
  /\ IsDb(e)
  /\ e.used = [u \in Users |-> Floor(d.used[u] - sums[u])]
  /\ e.tenantUsed = Floor(d.tenantUsed - Total(sums))
  /\ e.colls = d.colls /\ e.files = d.files /\ e.content = d.content /\ e.log = d.log
  /\ e.nextColl = d.nextColl /\ e.nextFile = d.nextFile

LEMMA CreditMakes ==
  ASSUME NEW d, IsDb(d), NEW sums, NEW e, e = CreditOwners(d, sums)
  PROVE  Credited(e, d, sums)
BY DEF CreditOwners, IsDb, Tables, Credited

LEMMA LogMakes ==
  ASSUME NEW d, IsDb(d), NEW c, NEW name, NEW action, NEW e, e = RecordChange(d, c, name, action)
  PROVE  /\ IsDb(e)
         /\ e.log = With(d.log, c, Append(d.log[c], [name |-> name, action |-> action]))
         /\ e.colls = d.colls /\ e.files = d.files /\ e.content = d.content
         /\ e.used = d.used /\ e.tenantUsed = d.tenantUsed
         /\ e.nextColl = d.nextColl /\ e.nextFile = d.nextFile
BY DEF RecordChange, IsDb, Tables

\* The rows of t, with those that are the same in both.
Kept(e, d, gone) == DOMAIN e = DOMAIN d \ gone /\ \A x \in DOMAIN e : e[x] = d[x]

CollsBelow(d, t) == IF t.kind = "file" THEN {} ELSE Subtree(d, t.id)
FilesIn(d, t) == IF t.kind = "file" THEN {t.id} ELSE FilesBelow(d, t.id)

LEMMA DeleteMakes ==
  ASSUME NEW d, IsDb(d), NEW t, NEW e, e = DeleteRecursively(d, t)
  PROVE  /\ IsDb(e)
         /\ Kept(e.colls, d.colls, CollsBelow(d, t)) /\ Kept(e.log, d.log, CollsBelow(d, t))
         /\ Kept(e.files, d.files, FilesIn(d, t)) /\ Kept(e.content, d.content, FilesIn(d, t))
         /\ e.used = d.used /\ e.tenantUsed = d.tenantUsed
         /\ e.nextColl = d.nextColl /\ e.nextFile = d.nextFile
<1>1. CASE t.kind = "file"
  <2>1. /\ IsDb(e) /\ e.colls = d.colls /\ e.log = d.log
        /\ e.files = Without(d.files, {t.id}) /\ e.content = Without(d.content, {t.id})
        /\ e.used = d.used /\ e.tenantUsed = d.tenantUsed
        /\ e.nextColl = d.nextColl /\ e.nextFile = d.nextFile
    BY <1>1 DEF DeleteRecursively, IsDb, Tables
  <2> QED
    BY <1>1, <2>1 DEF Kept, CollsBelow, FilesIn, Without, Restrict
<1>2. CASE t.kind # "file"
  <2> DEFINE colls == Subtree(d, t.id)
             files == FilesBelow(d, t.id)
  <2>1. e = [d EXCEPT !.colls = Without(d.colls, colls), !.log = Without(d.log, colls),
                      !.files = Without(d.files, files), !.content = Without(d.content, files)]
    BY <1>2 DEF DeleteRecursively
  <2> HIDE DEF colls, files
  <2>2. /\ IsDb(e) /\ e.colls = Without(d.colls, colls) /\ e.log = Without(d.log, colls)
        /\ e.files = Without(d.files, files) /\ e.content = Without(d.content, files)
        /\ e.used = d.used /\ e.tenantUsed = d.tenantUsed
        /\ e.nextColl = d.nextColl /\ e.nextFile = d.nextFile
    BY <2>1 DEF IsDb, Tables
  <2> QED
    BY <1>2, <2>2 DEF Kept, CollsBelow, FilesIn, Without, Restrict, colls, files
<1> QED
  BY <1>1, <1>2

LEMMA InsertCollMakes ==
  ASSUME NEW d, IsDb(d), NEW parent, NEW name, NEW e, e = InsertColl(d, parent, name)
  PROVE  /\ IsDb(e)
         /\ e.colls = With(d.colls, d.nextColl, CollRow(parent, name))
         /\ e.log = With(d.log, d.nextColl, <<>>)
         /\ e.nextColl = d.nextColl + 1
         /\ e.files = d.files /\ e.content = d.content /\ e.nextFile = d.nextFile
         /\ e.used = d.used /\ e.tenantUsed = d.tenantUsed
BY DEF InsertColl, IsDb, Tables

LEMMA InsertFileMakes ==
  ASSUME NEW d, IsDb(d), NEW row, NEW body, NEW e, e = InsertFile(d, row, body)
  PROVE  /\ IsDb(e)
         /\ e.files = With(d.files, d.nextFile, row)
         /\ e.content = With(d.content, d.nextFile, body)
         /\ e.nextFile = d.nextFile + 1
         /\ e.colls = d.colls /\ e.log = d.log /\ e.nextColl = d.nextColl
         /\ e.used = d.used /\ e.tenantUsed = d.tenantUsed
BY DEF InsertFile, IsDb, Tables

LEMMA SaveMakes ==
  ASSUME NEW d, IsDb(d), NEW t, NEW body, NEW e, e = SaveFile(d, t, body)
  PROVE  /\ IsDb(e)
         /\ e.files = With(d.files, t.id, FileRow(t.row.parent, t.row.name, body, Size[body], t.row.owner))
         /\ e.content = IF t.id \in DOMAIN d.content THEN With(d.content, t.id, body) ELSE d.content
         /\ e.colls = d.colls /\ e.log = d.log
         /\ e.nextColl = d.nextColl /\ e.nextFile = d.nextFile
         /\ e.used = d.used /\ e.tenantUsed = d.tenantUsed
BY DEF SaveFile, IsDb, Tables

LEMMA RelocateMakes ==
  ASSUME NEW d, IsDb(d), NEW t, NEW parent, NEW name, NEW e, e = Relocate(d, t, parent, name)
  PROVE  /\ IsDb(e)
         /\ IF t.kind = "coll" /\ t.id \in DOMAIN d.colls
            THEN e.colls = With(d.colls, t.id, CollRow(parent, name)) ELSE e.colls = d.colls
         /\ IF t.kind = "file" /\ t.id \in DOMAIN d.files
            THEN e.files = With(d.files, t.id,
                                FileRow(parent, name, d.files[t.id].etag, d.files[t.id].size,
                                        d.files[t.id].owner))
            ELSE e.files = d.files
         /\ e.content = d.content /\ e.log = d.log
         /\ e.nextColl = d.nextColl /\ e.nextFile = d.nextFile
         /\ e.used = d.used /\ e.tenantUsed = d.tenantUsed
<1>1. CASE t.kind = "coll" /\ t.id \in DOMAIN d.colls
  BY <1>1 DEF Relocate, IsDb, Tables
<1>2. CASE t.kind = "file" /\ t.id \in DOMAIN d.files
  BY <1>2 DEF Relocate, IsDb, Tables
<1>3. CASE ~(t.kind = "coll" /\ t.id \in DOMAIN d.colls) /\ ~(t.kind = "file" /\ t.id \in DOMAIN d.files)
  BY <1>3 DEF Relocate, IsDb, Tables
<1> QED
  BY <1>1, <1>2, <1>3

-----------------------------------------------------------------------------
(* The invariant: the shape of the tables, and of what requests hold.      *)

FileRowOK(r) == r.etag \in Bodies /\ r.size \in Nat /\ r.owner \in Users

Shape(d) ==
  /\ IsDb(d)
  /\ d.nextColl \in Nat /\ d.nextFile \in Nat \ {0}
  /\ Root \in DOMAIN d.colls /\ d.colls[Root].parent = 0
  /\ DOMAIN d.colls \subseteq 1..(d.nextColl - 1)
  /\ DOMAIN d.log = DOMAIN d.colls
  /\ DOMAIN d.files \subseteq 1..(d.nextFile - 1)
  /\ \A f \in DOMAIN d.files : FileRowOK(d.files[f])
  /\ DOMAIN d.content \subseteq DOMAIN d.files
  /\ \A f \in DOMAIN d.content : d.content[f] \in Bodies
  /\ d.used \in [Users -> Nat] /\ d.tenantUsed \in Nat

\* A collection, a file, as a handler holds it; the row may be gone by now.
IsColl(d, t) == t.kind = "coll" /\ t.id \in 1..(d.nextColl - 1)
IsFile(d, t) ==
  t.kind = "file" /\ t.id \in 1..(d.nextFile - 1) /\ t.row.size \in Nat /\ t.row.owner \in Users
IsHandle(d, t) == IsColl(d, t) \/ IsFile(d, t)
NotRoot(t) == t.kind = "coll" => t.id # Root

\* What the transaction of a request counts on.
Chosen(d, w) ==
  /\ w.req.op = "PUT" => IF w.target = None THEN IsColl(d, w.parent) ELSE IsFile(d, w.target)
  /\ w.req.op = "MKCOL" => IsColl(d, w.parent)
  /\ w.req.op \in {"DELETE", "MOVE"} => NotRoot(w.target)
  /\ w.req.op \in {"DELETE", "COPY", "MOVE"} => IsHandle(d, w.target)
  /\ w.req.op = "DELETE" => w.existing = None
  /\ w.req.op \in {"COPY", "MOVE"} =>
       IsColl(d, w.parent) /\ (w.existing # None => IsHandle(d, w.existing) /\ NotRoot(w.existing))

WorkFields == {"pc", "req", "target", "parent", "existing", "sums"}
AtWork(d, w) ==
  /\ DOMAIN w = WorkFields
  /\ w.pc \in {"found", "summed"}
  /\ w.req \in Requests
  /\ Chosen(d, w)
  /\ w.pc = "summed" => w.req.op \in {"DELETE", "COPY"} /\ w.sums \in [Users -> Nat]

LEMMA Finite ==
  ASSUME NEW d, Shape(d)
  PROVE  /\ IsFiniteSet(DOMAIN d.colls) /\ IsFiniteSet(DOMAIN d.files)
         /\ \A S : S \subseteq DOMAIN d.files => IsFiniteSet(S) /\ NatsOn(Sizes(d), S)
         /\ \A S : S \subseteq DOMAIN d.colls => IsFiniteSet(S)
<1>1. d.nextColl - 1 \in Int /\ d.nextFile - 1 \in Int /\ 1 \in Int
  BY DEF Shape
<1>2. IsFiniteSet(1..(d.nextColl - 1)) /\ IsFiniteSet(1..(d.nextFile - 1))
  BY <1>1, FS_Interval
<1>3. IsFiniteSet(DOMAIN d.colls) /\ IsFiniteSet(DOMAIN d.files)
  BY <1>2, FS_Subset DEF Shape
<1>4. \A S : S \subseteq DOMAIN d.files => IsFiniteSet(S)
  BY <1>3, FS_Subset
<1>5. \A S : S \subseteq DOMAIN d.files => NatsOn(Sizes(d), S)
  BY DEF Shape, FileRowOK, NatsOn, Sizes
<1>6. \A S : S \subseteq DOMAIN d.colls => IsFiniteSet(S)
  BY <1>3, FS_Subset
<1> QED
  BY <1>3, <1>4, <1>5, <1>6

\* The root is below no other collection.
LEMMA RootStays ==
  ASSUME NEW d, Shape(d), NEW c, c # Root
  PROVE  Root \notin Subtree(d, c) /\ Subtree(d, c) \subseteq DOMAIN d.colls
<1>1. IsFiniteSet(DOMAIN d.colls)
  BY Finite
<1>2. Subtree(d, c) \subseteq DOMAIN d.colls
  BY <1>1, SubtreeClosed
<1>3. Root \in Subtree(d, c) => 0 \in Subtree(d, c)
  BY <1>1, SubtreeParents DEF Shape
<1>4. 0 \notin DOMAIN d.colls
  BY DEF Shape
<1> QED
  BY <1>2, <1>3, <1>4

LEMMA BelowAreFiles ==
  ASSUME NEW d, NEW c
  PROVE  FilesBelow(d, c) \subseteq DOMAIN d.files
BY DEF FilesBelow, SubFiles

-----------------------------------------------------------------------------
(* What a lookup finds.                                                    *)

LEMMA HandlesAre ==
  ASSUME NEW d, Shape(d), NEW t \in Handles(d)
  PROVE  \/ t = None
         \/ IsColl(d, t) /\ t.id \in DOMAIN d.colls /\ t = Coll(d, t.id)
         \/ IsFile(d, t) /\ t.id \in DOMAIN d.files /\ t = File(d, t.id)
<1>1. CASE \E x \in DOMAIN d.colls : t = Coll(d, x)
  BY <1>1 DEF Coll, IsColl, Shape
<1>2. CASE \E x \in DOMAIN d.files : t = File(d, x)
  BY <1>2 DEF File, IsFile, Shape, FileRowOK
<1> QED
  BY <1>1, <1>2 DEF Handles

LEMMA ResolveFinds ==
  ASSUME NEW d, Shape(d), NEW path \in Seq(STRING)
  PROVE  /\ Resolve(d, path) \subseteq Handles(d)
         /\ path = <<>> => Resolve(d, path) = {Coll(d, Root)}
         /\ path # <<>> => \A t \in Resolve(d, path) : NotRoot(t)
<1>1. Root \in DOMAIN d.colls
  BY DEF Shape
<1>2. CASE path = <<>>
  BY <1>1, <1>2, ResolveRoot DEF Handles
<1>3. ASSUME path # <<>>
      PROVE  \E q : q \in Seq(STRING) /\ Resolve(d, path) = OneDown(d, Last(path), Resolve(d, q))
  BY <1>1, <1>3, ResolveStep, FrontOf
<1>4. ASSUME NEW c, NEW name, c # 0
      PROVE  \A t \in ChildrenAt(d, c, name) : NotRoot(t)
  BY <1>4 DEF ChildrenAt, SubColls, SubFiles, Coll, File, None, NotRoot, Shape
<1>5. ASSUME NEW q \in Seq(STRING), NEW name, Resolve(d, q) \subseteq Handles(d)
      PROVE  \A t \in OneDown(d, name, Resolve(d, q)) : NotRoot(t)
  <2>1. \A t \in Resolve(d, q) : t.kind = "coll" => t.id # 0
    <3> SUFFICES ASSUME NEW t \in Resolve(d, q), t.kind = "coll"
                 PROVE  t.id # 0
      OBVIOUS
    <3>1. t # None
      BY DEF None
    <3>2. IsColl(d, t) \/ IsFile(d, t)
      BY <1>5, <3>1, HandlesAre
    <3>3. t.id \in 1..(d.nextColl - 1)
      BY <3>2 DEF IsColl, IsFile
    <3> QED
      BY <3>3 DEF Shape
  <2>2. NotRoot(None)
    BY DEF None, NotRoot
  <2> QED
    BY <1>4, <2>1, <2>2 DEF OneDown
<1>6. \A q \in Seq(STRING) : Resolve(d, q) \subseteq Handles(d)
  <2> TAKE q \in Seq(STRING)
  <2>1. CASE q = <<>>
    BY <1>1, <2>1, ResolveRoot DEF Handles
  <2>2. CASE q # <<>>
    BY <1>1, <2>2, ResolveStep, OneDownFinds
  <2> QED
    BY <2>1, <2>2
<1> QED
  BY <1>2, <1>3, <1>5, <1>6

\* Handles of rows there are, and such as the transaction needs.
Held(d, w) ==
  /\ w.target \in Handles(d) /\ w.parent \in Handles(d) /\ w.existing \in Handles(d)
  /\ Chosen(d, w)

LEMMA FoundIs ==
  \A r, t, c, x :
    /\ DOMAIN Found(r, t, c, x) = WorkFields
    /\ Found(r, t, c, x).pc = "found" /\ Found(r, t, c, x).req = r
    /\ Found(r, t, c, x).target = t /\ Found(r, t, c, x).parent = c
    /\ Found(r, t, c, x).existing = x /\ Found(r, t, c, x).sums = NoSums
BY DEF Found, WorkFields

LEMMA LookupsFind ==
  ASSUME NEW d, Shape(d), NEW r \in Requests, NEW w \in Lookups(d, r)
  PROVE  Held(d, w) /\ w.req = r /\ w.pc = "found" /\ DOMAIN w = WorkFields /\ w.sums = NoSums
<1>1. r.path \in Seq(STRING) /\ r.dest \in Seq(STRING)
      /\ r.op \in {"PUT", "MKCOL", "DELETE", "COPY", "MOVE"}
  BY RequestAssumption
<1>2. None \in Handles(d)
  BY DEF Handles
<1>3. None.kind = "none"
  BY DEF None
<1>4. Coll(d, Root) # None /\ Coll(d, Root).kind = "coll" /\ Coll(d, Root).id = Root
  BY <1>3 DEF Coll
<1>5. ASSUME NEW path \in Seq(STRING), None \in Resolve(d, path)
      PROVE  path # <<>>
  BY <1>4, <1>5, ResolveFinds
<1>6. ASSUME NEW path \in Seq(STRING), NEW t \in Resolve(d, path), t # None
      PROVE  /\ t \in Handles(d) /\ IsHandle(d, t)
             /\ t.kind = "coll" => IsColl(d, t)
             /\ t.kind = "file" => IsFile(d, t)
             /\ t # Coll(d, Root) => NotRoot(t)
  <2>1. t \in Handles(d)
    BY ResolveFinds
  <2>2. \/ IsColl(d, t) /\ t.id \in DOMAIN d.colls /\ t = Coll(d, t.id)
        \/ IsFile(d, t) /\ t.id \in DOMAIN d.files /\ t = File(d, t.id)
    BY <1>6, <2>1, HandlesAre
  <2>3. t # Coll(d, Root) => NotRoot(t)
    BY <2>2 DEF NotRoot, IsFile
  <2> QED
    BY <2>1, <2>2, <2>3 DEF IsHandle, IsColl, IsFile
<1>7. ASSUME NEW path \in Seq(STRING), path # <<>>
      PROVE  Front(path) \in Seq(STRING)
  BY <1>7, FrontOf
<1>8. ASSUME NEW path \in Seq(STRING), NEW t \in ResolveColl(d, path)
      PROVE  t \in Handles(d) /\ IsColl(d, t)
  <2>1. t \in Resolve(d, path) /\ t.kind = "coll" /\ t # None
    BY <1>3 DEF ResolveColl
  <2> QED
    BY <1>6, <2>1
<1>9. ASSUME NEW path \in Seq(STRING), NEW t \in ResolveFile(d, path)
      PROVE  t \in Handles(d) /\ IsFile(d, t) /\ t # None
  <2>1. t \in Resolve(d, path) /\ t.kind = "file" /\ t # None
    BY <1>3 DEF ResolveFile
  <2> QED
    BY <1>6, <2>1
<1>10. CASE r.op = "PUT"
  <2>1. w \in PutLookups(d, r)
    BY <1>10 DEF Lookups
  <2>2. CASE \E t \in ResolveFile(d, r.path) : w = Found(r, t, None, None)
    BY <1>1, <1>2, <1>9, <1>10, <2>2, FoundIs DEF Held, Chosen
  <2>3. CASE None \in Resolve(d, r.path) /\ \E c \in ResolveColl(d, Front(r.path)) : w = Found(r, None, c, None)
    <3>1. Front(r.path) \in Seq(STRING)
      BY <1>1, <1>5, <1>7, <2>3
    <3> QED
      BY <1>2, <1>8, <1>10, <2>3, <3>1, FoundIs DEF Held, Chosen
  <2> QED
    BY <2>1, <2>2, <2>3 DEF PutLookups
<1>11. CASE r.op = "MKCOL"
  <2>1. w \in MkcolLookups(d, r)
    BY <1>11 DEF Lookups
  <2>2. None \in Resolve(d, r.path) /\ \E c \in ResolveColl(d, Front(r.path)) : w = Found(r, None, c, None)
    BY <2>1 DEF MkcolLookups
  <2>3. Front(r.path) \in Seq(STRING)
    BY <1>1, <1>5, <1>7, <2>2
  <2> QED
    BY <1>2, <1>8, <1>11, <2>2, <2>3, FoundIs DEF Held, Chosen
<1>12. CASE r.op = "DELETE"
  <2>1. w \in DeleteLookups(d, r)
    BY <1>12 DEF Lookups
  <2>2. PICK t \in Resolve(d, r.path) : t # None /\ t # Coll(d, Root) /\ w = Found(r, t, None, None)
    BY <2>1 DEF DeleteLookups
  <2> QED
    BY <1>1, <1>2, <1>6, <1>12, <2>2, FoundIs DEF Held, Chosen
<1>13. ASSUME NEW sources, r.op \in {"COPY", "MOVE"}, w \in DestinationLookups(d, r, sources),
              \A s \in sources : s \in Handles(d) /\ IsHandle(d, s) /\ (r.op = "MOVE" => NotRoot(s))
       PROVE  Held(d, w) /\ w.req = r /\ w.pc = "found" /\ DOMAIN w = WorkFields /\ w.sums = NoSums
  <2>1. PICK s \in sources, c \in ResolveColl(d, Front(r.dest)), x \in Resolve(d, r.dest) :
          w = Found(r, s, c, x)
    BY <1>13 DEF DestinationLookups
  <2>2. r.dest # <<>>
    BY <1>13 DEF DestinationLookups
  <2>3. c \in Handles(d) /\ IsColl(d, c)
    BY <1>1, <1>7, <1>8, <2>2
  <2>4. x \in Handles(d) /\ (x # None => IsHandle(d, x) /\ NotRoot(x))
    <3>1. NotRoot(x) /\ x \in Handles(d)
      BY <1>1, <2>2, ResolveFinds
    <3> QED
      BY <1>1, <1>6, <3>1
  <2> QED
    BY <1>13, <2>1, <2>3, <2>4, FoundIs DEF Held, Chosen
<1>14. CASE r.op = "COPY"
  <2>1. w \in DestinationLookups(d, r, Resolve(d, r.path) \ {None})
    BY <1>14 DEF Lookups, CopyLookups
  <2>2. \A s \in Resolve(d, r.path) \ {None} : s \in Handles(d) /\ IsHandle(d, s)
    BY <1>1, <1>6
  <2> QED
    BY <1>13, <1>14, <2>1, <2>2
<1>15. CASE r.op = "MOVE"
  <2>1. w \in DestinationLookups(d, r, {t \in Resolve(d, r.path) \ {None} : t # Coll(d, Root)})
    BY <1>15 DEF Lookups, MoveLookups
  <2>2. \A s \in {t \in Resolve(d, r.path) \ {None} : t # Coll(d, Root)} :
          s \in Handles(d) /\ IsHandle(d, s) /\ NotRoot(s)
    BY <1>1, <1>6
  <2> QED
    BY <1>13, <1>15, <2>1, <2>2
<1> QED
  BY <1>1, <1>10, <1>11, <1>12, <1>14, <1>15

-----------------------------------------------------------------------------
(* Every piece keeps the shape of the tables, and the limits.              *)

Within(d) ==
  /\ \A u \in Users : d.used[u] \in 0..UserLimit[u]
  /\ d.tenantUsed \in 0..TenantLimit

\* What a transaction may make of the tables.
Keeps(e, d) ==
  /\ Shape(e) /\ (Within(d) => Within(e))
  /\ d.nextColl <= e.nextColl /\ d.nextFile <= e.nextFile

LEMMA KeepsOn ==
  ASSUME NEW d, Shape(d), NEW e, Keeps(e, d), NEW g, Keeps(g, e)
  PROVE  Keeps(g, d)
BY DEF Keeps, Shape

LEMMA TotalNat ==
  ASSUME NEW sums \in [Users -> Nat]
  PROVE  Total(sums) \in Nat /\ Total(sums) = Sum(sums, Users) /\ NatsOn(sums, Users)
<1>1. DOMAIN sums = Users /\ NatsOn(sums, Users)
  BY DEF NatsOn
<1>2. Sum(sums, Users) \in Nat
  BY <1>1, UserAssumption, SumNat
<1> QED
  BY <1>1, <1>2, TotalIs

LEMMA FloorIs ==
  \A n \in Int : /\ Floor(n) \in Nat /\ (n >= 0 => Floor(n) = n)
                 /\ \A m \in Nat : n <= m => Floor(n) <= m
BY DEF Floor

LEMMA ChargeKeeps ==
  ASSUME NEW d, Shape(d), NEW u \in Users, NEW delta \in Int,
         NEW e, e = ApplyQuotaDelta(d, u, delta)
  PROVE  QuotaAdmits(d, u, delta) => Keeps(e, d)
<1>1. /\ IsDb(e)
      /\ e.used = With(d.used, u, Floor(d.used[u] + delta))
      /\ e.tenantUsed = Floor(d.tenantUsed + delta)
      /\ e.colls = d.colls /\ e.files = d.files /\ e.content = d.content /\ e.log = d.log
      /\ e.nextColl = d.nextColl /\ e.nextFile = d.nextFile
  BY ChargeMakes DEF Shape
<1>2. /\ d.used \in [Users -> Nat] /\ d.tenantUsed \in Nat
      /\ d.used[u] + delta \in Int /\ d.tenantUsed + delta \in Int
  BY DEF Shape
<1>3. e.used \in [Users -> Nat] /\ e.tenantUsed \in Nat
  BY <1>1, <1>2, FloorIs DEF With
<1>4. Shape(e)
  BY <1>1, <1>3 DEF Shape
<1>5. ASSUME Within(d), QuotaAdmits(d, u, delta)
      PROVE  Within(e)
  <2>1. /\ UserLimit[u] \in Nat /\ TenantLimit \in Nat
        /\ d.used[u] <= UserLimit[u] /\ d.tenantUsed <= TenantLimit
    BY <1>5, LimitAssumption DEF Within
  <2>2. d.used[u] + delta <= UserLimit[u] /\ d.tenantUsed + delta <= TenantLimit
    BY <1>2, <1>5, <2>1 DEF QuotaAdmits
  <2>3. Floor(d.used[u] + delta) <= UserLimit[u] /\ Floor(d.tenantUsed + delta) <= TenantLimit
    BY <1>2, <2>1, <2>2, FloorIs
  <2>4. \A v \in Users : e.used[v] = IF v = u THEN Floor(d.used[u] + delta) ELSE d.used[v]
    BY <1>1, <1>2 DEF With
  <2>5. \A v \in Users : e.used[v] \in Nat /\ e.used[v] \in 0..UserLimit[v]
    BY <1>3, <1>5, <2>1, <2>3, <2>4, LimitAssumption DEF Within
  <2> QED
    BY <1>1, <1>3, <2>1, <2>3, <2>5 DEF Within
<1> QED
  BY <1>1, <1>4, <1>5 DEF Keeps, Shape

LEMMA CreditKeeps ==
  ASSUME NEW d, Shape(d), NEW sums \in [Users -> Nat], NEW e, e = CreditOwners(d, sums)
  PROVE  Keeps(e, d)
<1>1. /\ IsDb(e)
      /\ e.used = [u \in Users |-> Floor(d.used[u] - sums[u])]
      /\ e.tenantUsed = Floor(d.tenantUsed - Total(sums))
      /\ e.colls = d.colls /\ e.files = d.files /\ e.content = d.content /\ e.log = d.log
      /\ e.nextColl = d.nextColl /\ e.nextFile = d.nextFile
  <2>1. IsDb(d)
    BY DEF Shape
  <2>2. Credited(e, d, sums)
    BY <2>1, CreditMakes
  <2> QED
    BY <2>2 DEF Credited
<1>2. /\ d.used \in [Users -> Nat] /\ d.tenantUsed \in Nat /\ Total(sums) \in Nat
  BY TotalNat DEF Shape
<1>3. /\ \A u \in Users : d.used[u] - sums[u] \in Int /\ d.used[u] - sums[u] <= d.used[u]
      /\ d.tenantUsed - Total(sums) \in Int /\ d.tenantUsed - Total(sums) <= d.tenantUsed
  BY <1>2
<1>4. /\ \A u \in Users : e.used[u] \in Nat /\ e.used[u] <= d.used[u]
      /\ e.tenantUsed \in Nat /\ e.tenantUsed <= d.tenantUsed
  BY <1>1, <1>2, <1>3, FloorIs
<1>5. Shape(e)
  BY <1>1, <1>4 DEF Shape
<1>6. Within(d) => Within(e)
  BY <1>2, <1>4, LimitAssumption DEF Within
<1> QED
  BY <1>1, <1>5, <1>6 DEF Keeps, Shape

LEMMA LogKeeps ==
  ASSUME NEW d, Shape(d), NEW c \in DOMAIN d.log, NEW name, NEW action,
         NEW e, e = RecordChange(d, c, name, action)
  PROVE  Keeps(e, d)
<1>1. /\ IsDb(e)
      /\ e.log = With(d.log, c, Append(d.log[c], [name |-> name, action |-> action]))
      /\ e.colls = d.colls /\ e.files = d.files /\ e.content = d.content
      /\ e.used = d.used /\ e.tenantUsed = d.tenantUsed
      /\ e.nextColl = d.nextColl /\ e.nextFile = d.nextFile
  BY LogMakes DEF Shape
<1>2. DOMAIN e.log = DOMAIN d.log
  BY <1>1 DEF With
<1> QED
  BY <1>1, <1>2 DEF Shape, Within, Keeps

LEMMA DeleteKeeps ==
  ASSUME NEW d, Shape(d), NEW t, NotRoot(t), IsHandle(d, t), NEW e, e = DeleteRecursively(d, t)
  PROVE  Keeps(e, d)
<1>1. /\ IsDb(e)
      /\ Kept(e.colls, d.colls, CollsBelow(d, t)) /\ Kept(e.log, d.log, CollsBelow(d, t))
      /\ Kept(e.files, d.files, FilesIn(d, t)) /\ Kept(e.content, d.content, FilesIn(d, t))
      /\ e.used = d.used /\ e.tenantUsed = d.tenantUsed
      /\ e.nextColl = d.nextColl /\ e.nextFile = d.nextFile
  BY DeleteMakes DEF Shape
<1>2. Root \notin CollsBelow(d, t)
  BY RootStays DEF CollsBelow, NotRoot, IsHandle, IsColl, IsFile
<1> QED
  BY <1>1, <1>2 DEF Shape, Within, Kept, Keeps

LEMMA InsertCollKeeps ==
  ASSUME NEW d, Shape(d), NEW parent, NEW name, NEW e, e = InsertColl(d, parent, name)
  PROVE  Keeps(e, d)
<1>1. /\ IsDb(e)
      /\ e.colls = With(d.colls, d.nextColl, CollRow(parent, name))
      /\ e.log = With(d.log, d.nextColl, <<>>)
      /\ e.nextColl = d.nextColl + 1
      /\ e.files = d.files /\ e.content = d.content /\ e.nextFile = d.nextFile
      /\ e.used = d.used /\ e.tenantUsed = d.tenantUsed
  BY InsertCollMakes DEF Shape
<1>2. /\ DOMAIN e.colls = DOMAIN d.colls \cup {d.nextColl}
      /\ DOMAIN e.log = DOMAIN d.log \cup {d.nextColl}
      /\ d.nextColl # Root => e.colls[Root] = d.colls[Root]
  BY <1>1 DEF With, Shape
<1>3. /\ d.nextColl \in Nat /\ DOMAIN d.colls \subseteq 1..(d.nextColl - 1) /\ Root \in DOMAIN d.colls
  BY DEF Shape
<1>4. d.nextColl # Root /\ d.nextColl + 1 \in Nat /\ DOMAIN e.colls \subseteq 1..(e.nextColl - 1)
  BY <1>1, <1>2, <1>3 DEF Root
<1> QED
  BY <1>1, <1>2, <1>4 DEF Shape, Within, Keeps

LEMMA InsertFileKeeps ==
  ASSUME NEW d, Shape(d), NEW row, FileRowOK(row), NEW body \in Bodies,
         NEW e, e = InsertFile(d, row, body)
  PROVE  Keeps(e, d)
<1>1. /\ IsDb(e)
      /\ e.files = With(d.files, d.nextFile, row)
      /\ e.content = With(d.content, d.nextFile, body)
      /\ e.nextFile = d.nextFile + 1
      /\ e.colls = d.colls /\ e.log = d.log /\ e.nextColl = d.nextColl
      /\ e.used = d.used /\ e.tenantUsed = d.tenantUsed
  BY InsertFileMakes DEF Shape
<1>2. /\ DOMAIN e.files = DOMAIN d.files \cup {d.nextFile}
      /\ DOMAIN e.content = DOMAIN d.content \cup {d.nextFile}
      /\ \A f \in DOMAIN e.files : e.files[f] = IF f = d.nextFile THEN row ELSE d.files[f]
      /\ \A f \in DOMAIN e.content : e.content[f] = IF f = d.nextFile THEN body ELSE d.content[f]
  BY <1>1 DEF With
<1>3. d.nextFile \in Nat /\ DOMAIN d.files \subseteq 1..(d.nextFile - 1) /\ d.nextFile >= 1
  BY DEF Shape
<1>4. d.nextFile + 1 \in Nat /\ DOMAIN e.files \subseteq 1..(e.nextFile - 1)
  BY <1>1, <1>2, <1>3
<1> QED
  BY <1>1, <1>2, <1>4 DEF Shape, Within, Keeps

LEMMA SaveKeeps ==
  ASSUME NEW d, Shape(d), NEW t, IsFile(d, t), NEW body \in Bodies, NEW e, e = SaveFile(d, t, body)
  PROVE  Keeps(e, d)
<1> DEFINE row == FileRow(t.row.parent, t.row.name, body, Size[body], t.row.owner)
<1>1. /\ IsDb(e)
      /\ e.files = With(d.files, t.id, row)
      /\ e.content = IF t.id \in DOMAIN d.content THEN With(d.content, t.id, body) ELSE d.content
      /\ e.colls = d.colls /\ e.log = d.log
      /\ e.nextColl = d.nextColl /\ e.nextFile = d.nextFile
      /\ e.used = d.used /\ e.tenantUsed = d.tenantUsed
  BY SaveMakes DEF Shape
<1>2. FileRowOK(row)
  BY SizeAssumption DEF IsFile, FileRow, FileRowOK
<1> HIDE DEF row
<1>3. /\ DOMAIN e.files = DOMAIN d.files \cup {t.id}
      /\ \A f \in DOMAIN e.files : e.files[f] = IF f = t.id THEN row ELSE d.files[f]
      /\ DOMAIN e.content = DOMAIN d.content
      /\ \A f \in DOMAIN e.content : e.content[f] = IF f = t.id THEN body ELSE d.content[f]
  BY <1>1 DEF With
<1>4. t.id \in 1..(d.nextFile - 1)
  BY DEF IsFile
<1> QED
  BY <1>1, <1>2, <1>3, <1>4 DEF Shape, Within, Keeps

LEMMA RelocateKeeps ==
  ASSUME NEW d, Shape(d), NEW t, NotRoot(t), NEW parent, NEW name,
         NEW e, e = Relocate(d, t, parent, name)
  PROVE  Keeps(e, d)
<1>1. /\ IsDb(e)
      /\ IF t.kind = "coll" /\ t.id \in DOMAIN d.colls
         THEN e.colls = With(d.colls, t.id, CollRow(parent, name)) ELSE e.colls = d.colls
      /\ IF t.kind = "file" /\ t.id \in DOMAIN d.files
         THEN e.files = With(d.files, t.id,
                             FileRow(parent, name, d.files[t.id].etag, d.files[t.id].size,
                                     d.files[t.id].owner))
         ELSE e.files = d.files
      /\ e.content = d.content /\ e.log = d.log
      /\ e.nextColl = d.nextColl /\ e.nextFile = d.nextFile
      /\ e.used = d.used /\ e.tenantUsed = d.tenantUsed
  BY RelocateMakes DEF Shape
<1>2. /\ DOMAIN e.colls = DOMAIN d.colls
      /\ e.colls[Root] = d.colls[Root]
  BY <1>1 DEF With, NotRoot, Shape
<1>3. DOMAIN e.files = DOMAIN d.files /\ \A f \in DOMAIN e.files : FileRowOK(e.files[f])
  <2>1. CASE t.kind = "file" /\ t.id \in DOMAIN d.files
    <3>1. FileRowOK(d.files[t.id])
      BY <2>1 DEF Shape
    <3> DEFINE row == FileRow(parent, name, d.files[t.id].etag, d.files[t.id].size,
                              d.files[t.id].owner)
    <3>2. FileRowOK(row)
      BY <3>1 DEF FileRow, FileRowOK
    <3>3. e.files = With(d.files, t.id, row)
      BY <1>1, <2>1
    <3> HIDE DEF row
    <3> QED
      BY <2>1, <3>2, <3>3 DEF With, Shape
  <2>2. CASE ~(t.kind = "file" /\ t.id \in DOMAIN d.files)
    BY <1>1, <2>2 DEF Shape
  <2> QED
    BY <2>1, <2>2
<1> QED
  BY <1>1, <1>2, <1>3 DEF Shape, Within, Keeps

-----------------------------------------------------------------------------
(* What COPY of a collection makes: for each collection and each file a    *)
(* row of its own.                                                         *)

\* The k-th id is not the id of another.
LEMMA NewIds ==
  ASSUME NEW next \in Nat, NEW S, IsFiniteSet(S), S \subseteq Int
  PROVE  /\ \A x \in S : NewId(next, S, x) \in next..(next + Cardinality(S) - 1)
         /\ \A x, y \in S : NewId(next, S, x) = NewId(next, S, y) => x = y
         /\ Cardinality(S) \in Nat
<1> DEFINE below(x) == {y \in S : y < x}
<1>1. Cardinality(S) \in Nat
  BY FS_CardinalityType
<1>2. ASSUME NEW x \in S, NEW T, IsFiniteSet(T), T \subseteq S, below(x) \subseteq T, x \in T
      PROVE  Cardinality(below(x)) \in Nat /\ Cardinality(below(x)) < Cardinality(T)
  <2>1. IsFiniteSet(below(x)) /\ Cardinality(below(x)) \in Nat /\ Cardinality(T) \in Nat
    BY <1>2, FS_Subset, FS_CardinalityType
  <2>2. below(x) # T
    BY <1>2
  <2> HIDE DEF below
  <2>3. Cardinality(below(x)) <= Cardinality(T) /\ Cardinality(below(x)) # Cardinality(T)
    BY <1>2, <2>2, FS_Subset
  <2> QED
    BY <2>1, <2>3
<1>3. ASSUME NEW x \in S
      PROVE  NewId(next, S, x) \in next..(next + Cardinality(S) - 1)
  <2>1. Cardinality(below(x)) \in Nat /\ Cardinality(below(x)) < Cardinality(S)
    BY <1>2
  <2>2. NewId(next, S, x) = next + Cardinality(below(x))
    BY DEF NewId
  <2> HIDE DEF below
  <2> QED
    BY <1>1, <2>1, <2>2
<1>4. ASSUME NEW x \in S, NEW y \in S, x < y
      PROVE  NewId(next, S, x) # NewId(next, S, y)
  <2>1. IsFiniteSet(below(y)) /\ Cardinality(below(y)) \in Nat
    BY FS_Subset, FS_CardinalityType
  <2>2. below(x) \subseteq below(y) /\ below(y) \subseteq S /\ x \in below(y)
    <3>1. x \in Int /\ y \in Int /\ \A z \in S : z \in Int
      OBVIOUS
    <3>2. \A z \in S : z < x => z < y
      BY <1>4, <3>1
    <3> QED
      BY <1>4, <3>2
  <2>3. Cardinality(below(x)) \in Nat /\ Cardinality(below(x)) < Cardinality(below(y))
    BY <1>2, <2>1, <2>2
  <2>4. /\ NewId(next, S, x) = next + Cardinality(below(x))
        /\ NewId(next, S, y) = next + Cardinality(below(y))
    BY DEF NewId
  <2> HIDE DEF below
  <2> QED
    BY <2>1, <2>3, <2>4
<1>5. \A x, y \in S : x = y \/ x < y \/ y < x
  OBVIOUS
<1> QED
  BY <1>1, <1>3, <1>4, <1>5

CopiedColls(d, c, recursive) == IF recursive THEN Subtree(d, c) \cup {c} ELSE {c}
CopiedFiles(d, c, recursive) == IF recursive THEN FilesBelow(d, c) ELSE {}
NewColl(d, c, recursive, x) == NewId(d.nextColl, CopiedColls(d, c, recursive), x)
NewFile(d, c, recursive, f) == NewId(d.nextFile, CopiedFiles(d, c, recursive), f)
NewColls(d, c, recursive) == {NewColl(d, c, recursive, x) : x \in CopiedColls(d, c, recursive)}
NewFiles(d, c, recursive) == {NewFile(d, c, recursive, f) : f \in CopiedFiles(d, c, recursive)}

\* The new rows do not meet the old ones, and no two of them each other.
LEMMA NewRows ==
  ASSUME NEW d, Shape(d), NEW c \in 1..(d.nextColl - 1), NEW recursive
  PROVE  /\ CopiedColls(d, c, recursive) \subseteq 1..(d.nextColl - 1)
         /\ \A x, y \in CopiedColls(d, c, recursive) :
              NewColl(d, c, recursive, x) = NewColl(d, c, recursive, y) => x = y
         /\ \A x, y \in CopiedFiles(d, c, recursive) :
              NewFile(d, c, recursive, x) = NewFile(d, c, recursive, y) => x = y
         /\ CopiedFiles(d, c, recursive) \subseteq DOMAIN d.files
         /\ NewColls(d, c, recursive) \cap DOMAIN d.colls = {} /\ Root \notin NewColls(d, c, recursive)
         /\ NewFiles(d, c, recursive) \cap DOMAIN d.files = {}
         /\ Cardinality(CopiedColls(d, c, recursive)) \in Nat
         /\ Cardinality(CopiedFiles(d, c, recursive)) \in Nat
         /\ NewColls(d, c, recursive)
              \subseteq 1..(d.nextColl + Cardinality(CopiedColls(d, c, recursive)) - 1)
         /\ NewFiles(d, c, recursive)
              \subseteq 1..(d.nextFile + Cardinality(CopiedFiles(d, c, recursive)) - 1)
<1> DEFINE colls == CopiedColls(d, c, recursive)
           files == CopiedFiles(d, c, recursive)
<1>1. /\ d.nextColl \in Nat /\ d.nextFile \in Nat /\ d.nextFile >= 1
      /\ DOMAIN d.colls \subseteq 1..(d.nextColl - 1) /\ DOMAIN d.files \subseteq 1..(d.nextFile - 1)
      /\ Root \in DOMAIN d.colls
  BY DEF Shape
<1>2. IsFiniteSet(colls) /\ colls \subseteq 1..(d.nextColl - 1) /\ colls \subseteq Int
  <2>1. IsFiniteSet(DOMAIN d.colls)
    BY Finite
  <2>2. Subtree(d, c) \subseteq DOMAIN d.colls
    BY <2>1, SubtreeClosed
  <2>3. IsFiniteSet(Subtree(d, c)) /\ IsFiniteSet({c})
    BY <2>1, <2>2, FS_Subset, FS_Singleton
  <2>4. IsFiniteSet(Subtree(d, c) \cup {c})
    BY <2>3, FS_AddElement
  <2>5. colls \subseteq 1..(d.nextColl - 1) /\ IsFiniteSet(colls)
    BY <1>1, <2>2, <2>3, <2>4 DEF CopiedColls
  <2> HIDE DEF colls
  <2> QED
    BY <1>1, <2>5
<1>3. IsFiniteSet(files) /\ files \subseteq DOMAIN d.files /\ files \subseteq Int
  <2>1. files \subseteq DOMAIN d.files
    BY BelowAreFiles DEF CopiedFiles
  <2> HIDE DEF files
  <2>2. files \subseteq Int
    BY <1>1, <2>1
  <2> QED
    BY <2>1, <2>2, Finite
<1> HIDE DEF colls, files
<1>4. /\ \A x \in colls : NewId(d.nextColl, colls, x) \in d.nextColl..(d.nextColl + Cardinality(colls) - 1)
      /\ \A x, y \in colls : NewId(d.nextColl, colls, x) = NewId(d.nextColl, colls, y) => x = y
      /\ Cardinality(colls) \in Nat
  BY <1>1, <1>2, NewIds
<1>5. /\ \A x \in files : NewId(d.nextFile, files, x) \in d.nextFile..(d.nextFile + Cardinality(files) - 1)
      /\ \A x, y \in files : NewId(d.nextFile, files, x) = NewId(d.nextFile, files, y) => x = y
      /\ Cardinality(files) \in Nat
  BY <1>1, <1>3, NewIds
<1>6. \A y \in NewColls(d, c, recursive) : y \in d.nextColl..(d.nextColl + Cardinality(colls) - 1)
  BY <1>4 DEF NewColls, NewColl, colls
<1>7. \A y \in NewFiles(d, c, recursive) : y \in d.nextFile..(d.nextFile + Cardinality(files) - 1)
  BY <1>5 DEF NewFiles, NewFile, files
<1>8. /\ NewColls(d, c, recursive) \cap DOMAIN d.colls = {} /\ Root \notin NewColls(d, c, recursive)
      /\ NewColls(d, c, recursive) \subseteq 1..(d.nextColl + Cardinality(colls) - 1)
  BY <1>1, <1>4, <1>6
<1>9. /\ NewFiles(d, c, recursive) \cap DOMAIN d.files = {}
      /\ NewFiles(d, c, recursive) \subseteq 1..(d.nextFile + Cardinality(files) - 1)
  BY <1>1, <1>5, <1>7
<1> QED
  BY <1>2, <1>3, <1>4, <1>5, <1>8, <1>9 DEF colls, files, NewColl, NewFile

\* The tables afterwards.
Copied(e, d, c, parent, name, user, recursive) ==
  /\ IsDb(e) /\ e.used = d.used /\ e.tenantUsed = d.tenantUsed
  /\ e.nextColl = d.nextColl + Cardinality(CopiedColls(d, c, recursive))
  /\ e.nextFile = d.nextFile + Cardinality(CopiedFiles(d, c, recursive))
  /\ DOMAIN e.colls = DOMAIN d.colls \cup NewColls(d, c, recursive)
  /\ DOMAIN e.log = DOMAIN d.log \cup NewColls(d, c, recursive)
  /\ DOMAIN e.files = DOMAIN d.files \cup NewFiles(d, c, recursive)
  /\ DOMAIN e.content = DOMAIN d.content \cup NewFiles(d, c, recursive)
  /\ \A y \in DOMAIN d.colls : e.colls[y] = d.colls[y]
  /\ \A y \in DOMAIN d.log : e.log[y] = d.log[y]
  /\ \A g \in DOMAIN d.files : e.files[g] = d.files[g]
  /\ \A g \in DOMAIN d.content : e.content[g] = d.content[g]
  /\ \A x \in CopiedColls(d, c, recursive) :
       /\ e.colls[NewColl(d, c, recursive, x)] =
            IF x = c THEN CollRow(parent, name)
            ELSE CollRow(NewColl(d, c, recursive, d.colls[x].parent), d.colls[x].name)
       /\ e.log[NewColl(d, c, recursive, x)] = <<>>
  /\ \A f \in CopiedFiles(d, c, recursive) :
       /\ e.files[NewFile(d, c, recursive, f)] =
            FileRow(NewColl(d, c, recursive, d.files[f].parent), d.files[f].name,
                    d.content[f], d.files[f].size, user)
       /\ e.content[NewFile(d, c, recursive, f)] = d.content[f]

LEMMA CopyMakes ==
  ASSUME NEW d, Shape(d), NEW c \in 1..(d.nextColl - 1), NEW parent, NEW name, NEW user,
         NEW recursive, NEW e, e = CopyCollection(d, c, parent, name, user, recursive)
  PROVE  Copied(e, d, c, parent, name, user, recursive)
<1> DEFINE colls == CopiedColls(d, c, recursive)
           files == CopiedFiles(d, c, recursive)
           coll(x) == NewId(d.nextColl, colls, x)
           file(f) == NewId(d.nextFile, files, f)
           newColls == [y \in {coll(x) : x \in colls} |->
                          LET x == CHOOSE x \in colls : coll(x) = y IN
                          IF x = c THEN CollRow(parent, name)
                          ELSE CollRow(coll(d.colls[x].parent), d.colls[x].name)]
           oldFile(g) == CHOOSE f \in files : file(f) = g
           newFiles == [g \in {file(f) : f \in files} |->
                          LET f == oldFile(g) IN
                          FileRow(coll(d.files[f].parent), d.files[f].name,
                                  d.content[f], d.files[f].size, user)]
           newLogs == [y \in DOMAIN newColls |-> <<>>]
           newContent == [g \in DOMAIN newFiles |-> d.content[oldFile(g)]]
<1>1. e = [d EXCEPT !.colls = WithAll(d.colls, newColls),
                    !.log = WithAll(d.log, newLogs),
                    !.files = WithAll(d.files, newFiles),
                    !.content = WithAll(d.content, newContent),
                    !.nextColl = d.nextColl + Cardinality(colls),
                    !.nextFile = d.nextFile + Cardinality(files)]
  BY Zenon DEF CopyCollection, CopiedColls, CopiedFiles
<1>2. /\ \A x, y \in colls : coll(x) = coll(y) => x = y
      /\ \A x, y \in files : file(x) = file(y) => x = y
  BY NewRows DEF NewColl, NewFile
<1>3. /\ NewColls(d, c, recursive) = {coll(x) : x \in colls}
      /\ NewFiles(d, c, recursive) = {file(x) : x \in files}
      /\ \A x : NewColl(d, c, recursive, x) = coll(x) /\ NewFile(d, c, recursive, x) = file(x)
  BY DEF NewColls, NewFiles, NewColl, NewFile
<1>4. /\ NewColls(d, c, recursive) \cap DOMAIN d.colls = {}
      /\ NewFiles(d, c, recursive) \cap DOMAIN d.files = {}
  BY NewRows
<1>5. /\ DOMAIN newColls = NewColls(d, c, recursive) /\ DOMAIN newLogs = NewColls(d, c, recursive)
      /\ DOMAIN newFiles = NewFiles(d, c, recursive) /\ DOMAIN newContent = NewFiles(d, c, recursive)
  BY <1>3
<1> HIDE DEF coll, file
<1>6. ASSUME NEW x \in colls
      PROVE  newColls[coll(x)] = IF x = c THEN CollRow(parent, name)
                                 ELSE CollRow(coll(d.colls[x].parent), d.colls[x].name)
  <2> DEFINE z == CHOOSE z \in colls : coll(z) = coll(x)
  <2>1. z = x
    BY <1>2
  <2>2. newColls[coll(x)] = IF z = c THEN CollRow(parent, name)
                            ELSE CollRow(coll(d.colls[z].parent), d.colls[z].name)
    <3> HIDE DEF colls
    <3> QED
      OBVIOUS
  <2> HIDE DEF z, newColls
  <2> QED
    BY <2>1, <2>2
<1>7. ASSUME NEW f \in files
      PROVE  /\ newFiles[file(f)] = FileRow(coll(d.files[f].parent), d.files[f].name,
                                            d.content[f], d.files[f].size, user)
             /\ newContent[file(f)] = d.content[f]
  <2>1. oldFile(file(f)) = f
    BY <1>2
  <2> HIDE DEF files, oldFile
  <2>2. file(f) \in {file(x) : x \in files}
    OBVIOUS
  <2> QED
    BY <2>1, <2>2
<1>8. \A x \in colls : newLogs[coll(x)] = <<>>
  OBVIOUS
<1> HIDE DEF newColls, newFiles, newLogs, newContent, oldFile, colls, files
<1>9. /\ IsDb(e) /\ e.used = d.used /\ e.tenantUsed = d.tenantUsed
      /\ e.nextColl = d.nextColl + Cardinality(colls) /\ e.nextFile = d.nextFile + Cardinality(files)
      /\ e.colls = WithAll(d.colls, newColls) /\ e.log = WithAll(d.log, newLogs)
      /\ e.files = WithAll(d.files, newFiles) /\ e.content = WithAll(d.content, newContent)
  BY <1>1 DEF Shape, IsDb, Tables
<1>10. /\ DOMAIN d.log = DOMAIN d.colls /\ DOMAIN d.content \subseteq DOMAIN d.files
  BY DEF Shape
<1>11. \A f, g : /\ DOMAIN WithAll(f, g) = DOMAIN f \cup DOMAIN g
                 /\ \A x \in DOMAIN g : WithAll(f, g)[x] = g[x]
                 /\ \A x \in DOMAIN f : x \notin DOMAIN g => WithAll(f, g)[x] = f[x]
  BY DEF WithAll
<1>12. /\ DOMAIN e.colls = DOMAIN d.colls \cup NewColls(d, c, recursive)
       /\ DOMAIN e.log = DOMAIN d.log \cup NewColls(d, c, recursive)
       /\ DOMAIN e.files = DOMAIN d.files \cup NewFiles(d, c, recursive)
       /\ DOMAIN e.content = DOMAIN d.content \cup NewFiles(d, c, recursive)
  <2>1. /\ DOMAIN e.colls = DOMAIN d.colls \cup DOMAIN newColls
        /\ DOMAIN e.log = DOMAIN d.log \cup DOMAIN newLogs
        /\ DOMAIN e.files = DOMAIN d.files \cup DOMAIN newFiles
        /\ DOMAIN e.content = DOMAIN d.content \cup DOMAIN newContent
    BY <1>9, Zenon DEF WithAll
  <2> QED
    BY <1>5, <2>1
<1>13. /\ \A y \in DOMAIN d.colls : e.colls[y] = d.colls[y]
       /\ \A y \in DOMAIN d.log : e.log[y] = d.log[y]
       /\ \A g \in DOMAIN d.files : e.files[g] = d.files[g]
       /\ \A g \in DOMAIN d.content : e.content[g] = d.content[g]
  BY <1>4, <1>5, <1>9, <1>10, <1>11
<1>14. /\ \A x \in colls : e.colls[coll(x)] = newColls[coll(x)] /\ e.log[coll(x)] = newLogs[coll(x)]
       /\ \A f \in files : e.files[file(f)] = newFiles[file(f)] /\ e.content[file(f)] = newContent[file(f)]
  BY <1>3, <1>5, <1>9, <1>11
<1> QED
  BY <1>3, <1>6, <1>7, <1>8, <1>9, <1>12, <1>13, <1>14 DEF Copied, colls, files

LEMMA CopyKeeps ==
  ASSUME NEW d, Shape(d), NEW c \in 1..(d.nextColl - 1), NEW parent, NEW name,
         NEW user \in Users, NEW recursive,
         CopiedFiles(d, c, recursive) \subseteq DOMAIN d.content,
         NEW e, e = CopyCollection(d, c, parent, name, user, recursive)
  PROVE  Keeps(e, d)
<1>1. Copied(e, d, c, parent, name, user, recursive)
  BY CopyMakes
<1>2. /\ NewColls(d, c, recursive) \cap DOMAIN d.colls = {} /\ Root \notin NewColls(d, c, recursive)
      /\ CopiedFiles(d, c, recursive) \subseteq DOMAIN d.files
      /\ Cardinality(CopiedColls(d, c, recursive)) \in Nat
      /\ Cardinality(CopiedFiles(d, c, recursive)) \in Nat
      /\ NewColls(d, c, recursive) \subseteq 1..(d.nextColl + Cardinality(CopiedColls(d, c, recursive)) - 1)
      /\ NewFiles(d, c, recursive) \subseteq 1..(d.nextFile + Cardinality(CopiedFiles(d, c, recursive)) - 1)
  BY NewRows
<1>3. /\ IsDb(e) /\ e.used = d.used /\ e.tenantUsed = d.tenantUsed
      /\ e.nextColl = d.nextColl + Cardinality(CopiedColls(d, c, recursive))
      /\ e.nextFile = d.nextFile + Cardinality(CopiedFiles(d, c, recursive))
      /\ DOMAIN e.colls = DOMAIN d.colls \cup NewColls(d, c, recursive)
      /\ DOMAIN e.log = DOMAIN d.log \cup NewColls(d, c, recursive)
      /\ DOMAIN e.files = DOMAIN d.files \cup NewFiles(d, c, recursive)
      /\ DOMAIN e.content = DOMAIN d.content \cup NewFiles(d, c, recursive)
      /\ e.colls[Root] = d.colls[Root]
  BY <1>1 DEF Copied, Shape
<1>4. /\ d.nextColl \in Nat /\ d.nextFile \in Nat \ {0}
      /\ DOMAIN d.colls \subseteq 1..(d.nextColl - 1) /\ DOMAIN d.files \subseteq 1..(d.nextFile - 1)
  BY DEF Shape
<1>5. /\ e.nextColl \in Nat /\ e.nextFile \in Nat \ {0}
      /\ d.nextColl <= e.nextColl /\ d.nextFile <= e.nextFile
      /\ DOMAIN e.colls \subseteq 1..(e.nextColl - 1) /\ DOMAIN e.files \subseteq 1..(e.nextFile - 1)
  BY <1>2, <1>3, <1>4
<1>6. \A g \in DOMAIN d.files : e.files[g] = d.files[g]
  BY <1>1 DEF Copied
<1>7. \A g \in DOMAIN d.content : e.content[g] = d.content[g]
  BY <1>1 DEF Copied
<1>8. ASSUME NEW f \in CopiedFiles(d, c, recursive)
      PROVE  /\ FileRowOK(e.files[NewFile(d, c, recursive, f)])
             /\ e.content[NewFile(d, c, recursive, f)] \in Bodies
  <2>1. /\ e.files[NewFile(d, c, recursive, f)] =
             FileRow(NewColl(d, c, recursive, d.files[f].parent), d.files[f].name,
                     d.content[f], d.files[f].size, user)
        /\ e.content[NewFile(d, c, recursive, f)] = d.content[f]
    BY <1>1 DEF Copied
  <2>2. d.content[f] \in Bodies /\ d.files[f].size \in Nat
    BY <1>2 DEF Shape, FileRowOK
  <2> QED
    BY <2>1, <2>2 DEF FileRow, FileRowOK
<1>9. /\ \A f \in DOMAIN e.files : FileRowOK(e.files[f])
      /\ \A f \in DOMAIN e.content : e.content[f] \in Bodies
  BY <1>3, <1>6, <1>7, <1>8 DEF NewFiles, Shape
<1>10. DOMAIN e.content \subseteq DOMAIN e.files /\ DOMAIN e.log = DOMAIN e.colls
  BY <1>3 DEF Shape
<1> HIDE DEF Copied
<1> QED
  BY <1>3, <1>5, <1>9, <1>10 DEF Shape, Within, Keeps

LEMMA CopyToKeeps ==
  ASSUME NEW d, Shape(d), NEW t, IsHandle(d, t), NEW parent, NEW name,
         NEW user \in Users, NEW recursive, Copyable(d, t, recursive),
         NEW e, e = CopyTo(d, t, parent, name, user, recursive)
  PROVE  Keeps(e, d)
<1>1. CASE IsColl(d, t)
  <2>1. CopiedFiles(d, t.id, recursive) \subseteq DOMAIN d.content
    BY <1>1 DEF Copyable, CopiedFiles, IsColl
  <2>2. e = CopyCollection(d, t.id, parent, name, user, recursive) /\ t.id \in 1..(d.nextColl - 1)
    BY <1>1 DEF CopyTo, IsColl
  <2> QED
    BY <2>1, <2>2, CopyKeeps
<1>2. CASE IsFile(d, t)
  <2> DEFINE row == FileRow(parent, name, d.content[t.id], t.row.size, user)
  <2>1. e = InsertFile(d, row, d.content[t.id])
    BY <1>2 DEF CopyTo, IsFile
  <2>2. d.content[t.id] \in Bodies
    BY <1>2 DEF Copyable, IsFile, Shape
  <2>3. FileRowOK(row)
    BY <1>2, <2>2 DEF IsFile, FileRow, FileRowOK
  <2> HIDE DEF row
  <2> QED
    BY <2>1, <2>2, <2>3, InsertFileKeeps
<1> QED
  BY <1>1, <1>2 DEF IsHandle

-----------------------------------------------------------------------------
(* Every action keeps it.                                                  *)

Works(d, w) == w = Idle \/ AtWork(d, w)

IInv ==
  /\ Shape(db) /\ ConstraintsHold(db) /\ Within(db)
  /\ proc = [p \in Procs |-> proc[p]]
  /\ \A p \in Procs : Works(db, proc[p])
  /\ sent \in 0..MaxRequests
  /\ raced \in BOOLEAN

LEMMA SumsAre ==
  ASSUME NEW d, Shape(d), NEW t, IsHandle(d, t)
  PROVE  SumFileSizesByOwner(d, t) \in [Users -> Nat]
<1>1. CASE IsFile(d, t)
  BY <1>1 DEF SumFileSizesByOwner, IsFile
<1>2. CASE IsColl(d, t)
  <2>1. SumFileSizesByOwner(d, t) = [u \in Users |-> FileBytes(d, OwnedBy(d, FilesBelow(d, t.id), u))]
    BY <1>2 DEF SumFileSizesByOwner, IsColl
  <2>2. ASSUME NEW u \in Users
        PROVE  FileBytes(d, OwnedBy(d, FilesBelow(d, t.id), u)) \in Nat
    <3> DEFINE S == OwnedBy(d, FilesBelow(d, t.id), u)
    <3>1. S \subseteq DOMAIN d.files
      BY BelowAreFiles DEF OwnedBy
    <3> HIDE DEF S
    <3>2. IsFiniteSet(S) /\ NatsOn(Sizes(d), S)
      BY <3>1, Finite
    <3>3. FileBytes(d, S) = Sum(Sizes(d), S) /\ Sum(Sizes(d), S) \in Nat
      BY <3>1, <3>2, FileBytesIs, SumNat
    <3> QED
      BY <3>3 DEF S
  <2> QED
    BY <2>1, <2>2
<1> QED
  BY <1>1, <1>2 DEF IsHandle

LEMMA AtWorkStays ==
  ASSUME NEW d, Shape(d), NEW e, Keeps(e, d), NEW w, Works(d, w)
  PROVE  Works(e, w)
<1>1. /\ 1..(d.nextColl - 1) \subseteq 1..(e.nextColl - 1)
      /\ 1..(d.nextFile - 1) \subseteq 1..(e.nextFile - 1)
  BY DEF Keeps, Shape
<1>2. \A t : (IsColl(d, t) => IsColl(e, t)) /\ (IsFile(d, t) => IsFile(e, t))
             /\ (IsHandle(d, t) => IsHandle(e, t))
  BY <1>1 DEF IsColl, IsFile, IsHandle
<1> QED
  BY <1>2 DEF Works, AtWork, Chosen

\* A transaction that keeps what it must keeps the invariant.
LEMMA CommitKeeps ==
  ASSUME IInv, NEW p \in Procs, NEW d, Keeps(d, db), Commit(p, d)
  PROVE  IInv'
<1>1. db' = d /\ ConstraintsHold(d) /\ proc' = [proc EXCEPT ![p] = Idle] /\ sent' = sent
      /\ raced' \in BOOLEAN
  BY DEF Commit
<1>2. Shape(d) /\ Within(d)
  BY DEF Keeps, IInv
<1>3. \A q \in Procs : Works(d, proc[q])
  BY AtWorkStays DEF IInv
<1>4. \A q \in Procs : proc'[q] = IF q = p THEN Idle ELSE proc[q]
  BY <1>1 DEF IInv
<1>5. proc' = [q \in Procs |-> proc'[q]]
  BY <1>1 DEF IInv
<1>6. \A q \in Procs : Works(d, proc'[q])
  BY <1>3, <1>4 DEF Works
<1> QED
  BY <1>1, <1>2, <1>5, <1>6 DEF IInv

LEMMA LookupKeeps ==
  ASSUME IInv, NEW p \in Procs, Lookup(p)
  PROVE  IInv'
<1>0. PICK r \in Requests : \E w \in Lookups(db, r) : proc' = [proc EXCEPT ![p] = w]
  BY DEF Lookup
<1>1. PICK w \in Lookups(db, r) : proc' = [proc EXCEPT ![p] = w]
  BY <1>0
<1>2. db' = db /\ raced' = raced /\ sent' = sent + 1 /\ sent < MaxRequests
  BY DEF Lookup
<1>3. Works(db, w)
  BY LookupsFind DEF IInv, Held, Works, AtWork
<1>4. \A q \in Procs : proc'[q] = IF q = p THEN w ELSE proc[q]
  BY <1>1 DEF IInv
<1>5. proc' = [q \in Procs |-> proc'[q]]
  BY <1>1 DEF IInv
<1>6. \A q \in Procs : Works(db, proc'[q])
  BY <1>3, <1>4 DEF IInv
<1>7. sent' \in 0..MaxRequests
  BY <1>2, BoundsAssumption DEF IInv
<1> QED
  BY <1>2, <1>5, <1>6, <1>7 DEF IInv

LEMMA RollBackKeeps ==
  ASSUME IInv, NEW p \in Procs, RollBack(p)
  PROVE  IInv'
<1>1. proc' = [proc EXCEPT ![p] = Idle] /\ db' = db /\ sent' = sent /\ raced' = raced
  BY DEF RollBack
<1>2. \A q \in Procs : proc'[q] = IF q = p THEN Idle ELSE proc[q]
  BY <1>1 DEF IInv
<1>3. proc' = [q \in Procs |-> proc'[q]]
  BY <1>1 DEF IInv
<1>4. \A q \in Procs : Works(db, proc'[q])
  BY <1>2 DEF IInv, Works
<1> QED
  BY <1>1, <1>3, <1>4 DEF IInv

\* The resource whose sizes DELETE and COPY sum.
LEMMA SummedIs ==
  ASSUME NEW d, NEW w, AtWork(d, w), w.req.op \in {"DELETE", "COPY"}
  PROVE  IsHandle(d, Summed(w))
BY DEF AtWork, Chosen, Summed

LEMMA SumFileSizesKeeps ==
  ASSUME IInv, NEW p \in Procs, SumFileSizes(p)
  PROVE  IInv'
<1> DEFINE w == proc[p]
<1>1. w.pc = "found" /\ w.req.op \in {"DELETE", "COPY"} /\ db' = db /\ sent' = sent /\ raced' = raced
  BY DEF SumFileSizes
<1>2. AtWork(db, w)
  <2>1. w # Idle
    BY <1>1 DEF Idle
  <2> QED
    BY <2>1 DEF IInv, Works
<1>3. PICK sums : sums = SumsNow(db, w)
  OBVIOUS
<1>4. PICK v : v = [w EXCEPT !.pc = "summed", !.sums = sums]
  OBVIOUS
<1>5. proc' = [proc EXCEPT ![p] = v]
  <2>1. proc' = [proc EXCEPT ![p].pc = "summed", ![p].sums = sums]
    BY <1>3 DEF SumFileSizes
  <2>2. [proc EXCEPT ![p].pc = "summed", ![p].sums = sums] = [proc EXCEPT ![p] = v]
    BY <1>4 DEF IInv
  <2> QED
    BY <2>1, <2>2
<1>6. sums \in [Users -> Nat]
  BY <1>1, <1>2, <1>3, SummedIs, SumsAre DEF SumsNow, IInv
<1> HIDE DEF w
<1>7. /\ DOMAIN v = WorkFields /\ v.pc = "summed" /\ v.sums = sums
      /\ v.req = w.req /\ v.target = w.target /\ v.parent = w.parent /\ v.existing = w.existing
  BY <1>2, <1>4 DEF AtWork, WorkFields
<1>8. AtWork(db, v)
  BY <1>1, <1>2, <1>6, <1>7 DEF AtWork, Chosen
<1>9. \A q \in Procs : proc'[q] = IF q = p THEN v ELSE proc[q]
  BY <1>5 DEF IInv
<1>10. proc' = [q \in Procs |-> proc'[q]]
  BY <1>5 DEF IInv
<1>11. \A q \in Procs : Works(db, proc'[q])
  BY <1>8, <1>9 DEF IInv, Works
<1> QED
  BY <1>1, <1>10, <1>11 DEF IInv

LEMMA InTransaction ==
  ASSUME IInv, NEW p \in Procs, proc[p].pc \in {"found", "summed"}
  PROVE  /\ AtWork(db, proc[p]) /\ Shape(db) /\ proc[p].req \in Requests
         /\ proc[p].req.user \in Users /\ proc[p].req.body \in Bodies
<1>1. proc[p] # Idle
  BY DEF Idle
<1>2. AtWork(db, proc[p]) /\ Shape(db)
  BY <1>1 DEF IInv, Works
<1> QED
  BY <1>2, RequestAssumption DEF AtWork

LEMMA PutOverwriteKeeps ==
  ASSUME IInv, NEW p \in Procs, PutOverwrite(p)
  PROVE  \E d : Keeps(d, db) /\ Commit(p, d)
<1> DEFINE w == proc[p]
           t == w.target
           body == w.req.body
           charged == ApplyQuotaDelta(db, t.row.owner, PutDelta(t, body))
           saved == SaveFile(charged, t, body)
           d == RecordChange(saved, t.row.parent, Last(w.req.path), "modified")
<1>1. /\ w.pc = "found" /\ w.req.op = "PUT" /\ t # None
      /\ QuotaAdmits(db, t.row.owner, PutDelta(t, body))
      /\ Recordable(saved, t.row.parent)
      /\ Commit(p, d)
  BY DEF PutOverwrite
<1>2. AtWork(db, w) /\ Shape(db) /\ body \in Bodies
  BY <1>1, InTransaction
<1>3. IsFile(db, t)
  BY <1>1, <1>2 DEF AtWork, Chosen
<1>4. t.row.owner \in Users /\ PutDelta(t, body) \in Int
  <2>1. Size[body] \in Nat /\ t.row.size \in Nat
    BY <1>2, <1>3, SizeAssumption DEF IsFile
  <2> QED
    BY <1>3, <2>1 DEF IsFile, PutDelta
<1> HIDE DEF w, t, body, charged, saved, d
<1>5. Keeps(charged, db)
  BY <1>1, <1>2, <1>4, ChargeKeeps DEF charged
<1>6. Shape(charged) /\ IsFile(charged, t)
  BY <1>2, <1>3, <1>5 DEF Keeps, IsFile, Shape
<1>7. Keeps(saved, charged)
  BY <1>2, <1>6, SaveKeeps DEF saved
<1>8. Shape(saved) /\ t.row.parent \in DOMAIN saved.log
  BY <1>1, <1>7 DEF Keeps, Recordable
<1>9. Keeps(d, saved)
  BY <1>8, LogKeeps DEF d
<1>10. Keeps(d, db)
  BY <1>2, <1>5, <1>6, <1>7, <1>9, KeepsOn
<1> QED
  BY <1>1, <1>10

LEMMA PutCreateKeeps ==
  ASSUME IInv, NEW p \in Procs, PutCreate(p)
  PROVE  \E d : Keeps(d, db) /\ Commit(p, d)
<1> DEFINE w == proc[p]
           body == w.req.body
           c == w.parent.id
           name == Last(w.req.path)
           row == FileRow(c, name, body, Size[body], w.req.user)
           charged == ApplyQuotaDelta(db, w.req.user, Size[body])
           made == InsertFile(charged, row, body)
           d == RecordChange(made, c, name, "added")
<1>1. /\ w.pc = "found" /\ w.req.op = "PUT" /\ w.target = None
      /\ QuotaAdmits(db, w.req.user, Size[body])
      /\ Recordable(made, c)
      /\ Commit(p, d)
  BY DEF PutCreate
<1>2. AtWork(db, w) /\ Shape(db) /\ body \in Bodies /\ w.req.user \in Users
  BY <1>1, InTransaction
<1>3. Size[body] \in Nat /\ FileRowOK(row)
  BY <1>2, SizeAssumption DEF FileRow, FileRowOK
<1> HIDE DEF w, body, c, name, row, charged, made, d
<1>4. Keeps(charged, db)
  BY <1>1, <1>2, <1>3, ChargeKeeps DEF charged
<1>5. Keeps(made, charged)
  BY <1>2, <1>3, <1>4, InsertFileKeeps DEF made, Keeps
<1>6. Keeps(d, made)
  BY <1>1, <1>5, LogKeeps DEF d, Keeps, Recordable
<1>7. Keeps(d, db)
  BY <1>2, <1>4, <1>5, <1>6, KeepsOn DEF Keeps
<1> QED
  BY <1>1, <1>7

LEMMA MkcolKeeps ==
  ASSUME IInv, NEW p \in Procs, Mkcol(p)
  PROVE  \E d : Keeps(d, db) /\ Commit(p, d)
<1> DEFINE w == proc[p]
           c == w.parent.id
           name == Last(w.req.path)
           made == InsertColl(db, c, name)
           d == RecordChange(made, c, name, "added")
<1>1. w.pc = "found" /\ w.req.op = "MKCOL" /\ Recordable(made, c) /\ Commit(p, d)
  BY DEF Mkcol
<1>2. Shape(db)
  BY DEF IInv
<1> HIDE DEF w, c, name, made, d
<1>3. Keeps(made, db)
  BY <1>2, InsertCollKeeps DEF made
<1>4. Keeps(d, made)
  BY <1>1, <1>3, LogKeeps DEF d, Keeps, Recordable
<1>5. Keeps(d, db)
  BY <1>2, <1>3, <1>4, KeepsOn
<1> QED
  BY <1>1, <1>5

\* The credit and the deletion that DELETE and an overwriting COPY begin with.
LEMMA ClearKeeps ==
  ASSUME NEW d, Shape(d), NEW sums \in [Users -> Nat], NEW t, IsHandle(d, t), NotRoot(t),
         NEW e, e = DeleteRecursively(CreditOwners(d, sums), t)
  PROVE  Keeps(e, d)
<1> DEFINE credited == CreditOwners(d, sums)
<1>1. Keeps(credited, d)
  BY CreditKeeps
<1> HIDE DEF credited
<1>2. Shape(credited) /\ IsHandle(credited, t)
  BY <1>1 DEF Keeps, IsHandle, IsColl, IsFile, Shape
<1>3. Keeps(e, credited)
  BY <1>2, DeleteKeeps DEF credited
<1> QED
  BY <1>1, <1>3, KeepsOn

LEMMA DeleteActionKeeps ==
  ASSUME IInv, NEW p \in Procs, Delete(p)
  PROVE  \E d : Keeps(d, db) /\ Commit(p, d)
<1> DEFINE w == proc[p]
           t == w.target
           gone == DeleteRecursively(CreditOwners(db, w.sums), t)
           d == RecordChange(gone, t.row.parent, t.row.name, "deleted")
<1>1. /\ w.pc = "summed" /\ w.req.op = "DELETE"
      /\ Recordable(gone, t.row.parent) /\ Commit(p, d)
  BY DEF Delete
<1>2. AtWork(db, w) /\ Shape(db)
  BY <1>1, InTransaction
<1>3. IsHandle(db, t) /\ NotRoot(t) /\ w.sums \in [Users -> Nat]
  BY <1>1, <1>2 DEF AtWork, Chosen
<1> HIDE DEF w, t, gone, d
<1>4. Keeps(gone, db)
  BY <1>2, <1>3, ClearKeeps DEF gone
<1>5. Keeps(d, gone)
  BY <1>1, <1>4, LogKeeps DEF d, Keeps, Recordable
<1>6. Keeps(d, db)
  BY <1>2, <1>4, <1>5, KeepsOn
<1> QED
  BY <1>1, <1>6

LEMMA CopyActionKeeps ==
  ASSUME IInv, NEW p \in Procs, Copy(p)
  PROVE  \E d : Keeps(d, db) /\ Commit(p, d)
<1> DEFINE w == proc[p]
           t == w.target
           recursive == w.req.recursive
           name == Last(w.req.dest)
           user == w.req.user
           cleared == IF w.existing = None THEN db
                      ELSE DeleteRecursively(CreditOwners(db, w.sums), w.existing)
           added == IF t.kind = "coll" /\ ~recursive THEN 0
                    ELSE IF w.existing = None THEN Total(w.sums)
                    ELSE Total(SumFileSizesByOwner(cleared, t))
           charged == ApplyQuotaDelta(cleared, user, added)
           action == IF w.existing = None THEN "added" ELSE "modified"
           made == CopyTo(charged, t, w.parent.id, name, user, recursive)
           d == RecordChange(made, w.parent.id, name, action)
<1>1. /\ w.pc = "summed" /\ w.req.op = "COPY"
      /\ QuotaAdmits(cleared, user, added)
      /\ Copyable(charged, t, recursive)
      /\ Recordable(charged, w.parent.id)
      /\ Commit(p, d)
  BY DEF Copy
<1>2. AtWork(db, w) /\ Shape(db) /\ user \in Users
  BY <1>1, InTransaction
<1>3. /\ IsHandle(db, t) /\ w.sums \in [Users -> Nat]
      /\ w.existing # None => IsHandle(db, w.existing) /\ NotRoot(w.existing)
  BY <1>1, <1>2 DEF AtWork, Chosen
<1>4. Keeps(cleared, db)
  <2>1. CASE w.existing = None
    BY <1>2, <2>1 DEF Keeps, Shape
  <2>2. CASE w.existing # None
    BY <1>2, <1>3, <2>2, ClearKeeps
  <2> QED
    BY <2>1, <2>2
<1> HIDE DEF cleared
<1>5. Shape(cleared) /\ IsHandle(cleared, t)
  BY <1>2, <1>3, <1>4 DEF Keeps, IsHandle, IsColl, IsFile, Shape
<1>6. added \in Nat
  <2>1. Total(w.sums) \in Nat
    BY <1>3, TotalNat
  <2>2. Total(SumFileSizesByOwner(cleared, t)) \in Nat
    BY <1>5, SumsAre, TotalNat
  <2> QED
    BY <2>1, <2>2
<1> HIDE DEF w, t, recursive, name, user, added, charged, made, d, action
<1>7. Keeps(charged, cleared)
  <2>1. added \in Int
    BY <1>6
  <2> QED
    BY <1>1, <1>2, <1>5, <2>1, ChargeKeeps DEF charged
<1>8. Shape(charged) /\ IsHandle(charged, t)
  BY <1>5, <1>7 DEF Keeps, IsHandle, IsColl, IsFile, Shape
<1>9. Keeps(made, charged)
  BY <1>1, <1>2, <1>8, CopyToKeeps DEF made
<1>10. w.parent.id \in DOMAIN made.log
  <2>1. w.parent.id \in DOMAIN charged.log
    BY <1>1 DEF Recordable
  <2>2. DOMAIN charged.log \subseteq DOMAIN made.log
    <3>1. CASE IsColl(charged, t)
      <4>1. made = CopyCollection(charged, t.id, w.parent.id, name, user, recursive)
            /\ t.id \in 1..(charged.nextColl - 1)
        BY <3>1 DEF made, CopyTo, IsColl
      <4>2. Copied(made, charged, t.id, w.parent.id, name, user, recursive)
        BY <1>8, <4>1, CopyMakes
      <4> QED
        BY <4>2 DEF Copied
    <3>2. CASE IsFile(charged, t)
      <4>1. made = InsertFile(charged, FileRow(w.parent.id, name, charged.content[t.id], t.row.size, user),
                              charged.content[t.id])
        BY <3>2 DEF made, CopyTo, IsFile
      <4> QED
        BY <1>8, <4>1, InsertFileMakes DEF Shape
    <3> QED
      BY <1>8, <3>1, <3>2 DEF IsHandle
  <2> QED
    BY <2>1, <2>2
<1>11. Keeps(d, made)
  BY <1>9, <1>10, LogKeeps DEF d, Keeps
<1>12. Keeps(made, cleared)
  BY <1>5, <1>7, <1>9, KeepsOn
<1>13. Keeps(made, db)
  BY <1>2, <1>4, <1>12, KeepsOn
<1>14. Keeps(d, db)
  BY <1>2, <1>11, <1>13, KeepsOn
<1> QED
  BY <1>1, <1>14

LEMMA MoveKeeps ==
  ASSUME IInv, NEW p \in Procs, Move(p)
  PROVE  \E d : Keeps(d, db) /\ Commit(p, d)
<1> DEFINE w == proc[p]
           t == w.target
           name == Last(w.req.dest)
           cleared == IF w.existing = None THEN db ELSE DeleteRecursively(db, w.existing)
           moved == Relocate(cleared, t, w.parent.id, name)
           left == RecordChange(moved, t.row.parent, t.row.name, "deleted")
           d == RecordChange(left, w.parent.id, name, "added")
<1>1. /\ w.pc = "found" /\ w.req.op = "MOVE"
      /\ Recordable(moved, t.row.parent) /\ Recordable(moved, w.parent.id)
      /\ Commit(p, d)
  BY DEF Move, Relogged
<1>2. AtWork(db, w) /\ Shape(db)
  BY <1>1, InTransaction
<1>3. /\ NotRoot(t)
      /\ w.existing # None => IsHandle(db, w.existing) /\ NotRoot(w.existing)
  BY <1>1, <1>2 DEF AtWork, Chosen
<1>4. Keeps(cleared, db)
  <2>1. CASE w.existing = None
    BY <1>2, <2>1 DEF Keeps, Shape
  <2>2. CASE w.existing # None
    BY <1>2, <1>3, <2>2, DeleteKeeps
  <2> QED
    BY <2>1, <2>2
<1> HIDE DEF w, t, name, cleared, moved, left, d
<1>5. Keeps(moved, cleared)
  BY <1>3, <1>4, RelocateKeeps DEF moved, Keeps
<1>6. Keeps(left, moved)
  BY <1>1, <1>5, LogKeeps DEF left, Keeps, Recordable
<1>7. w.parent.id \in DOMAIN left.log
  <2>1. left.log = With(moved.log, t.row.parent,
                        Append(moved.log[t.row.parent], [name |-> t.row.name, action |-> "deleted"]))
    BY <1>5, LogMakes DEF left, Keeps, Shape
  <2> QED
    BY <1>1, <2>1 DEF With, Recordable
<1>8. Keeps(d, left)
  BY <1>6, <1>7, LogKeeps DEF d, Keeps
<1>9. Keeps(moved, db)
  BY <1>2, <1>4, <1>5, KeepsOn
<1>10. Keeps(left, db)
  BY <1>2, <1>6, <1>9, KeepsOn
<1>11. Keeps(d, db)
  BY <1>2, <1>8, <1>10, KeepsOn
<1> QED
  BY <1>1, <1>11

LEMMA Starts == Init => IInv
<1> SUFFICES ASSUME Init
             PROVE  IInv
  OBVIOUS
<1>1. db = NewTenant /\ proc = [p \in Procs |-> Idle] /\ sent = 0 /\ raced = FALSE
  BY DEF Init, InitWith
<1>2. PICK d : d = NewTenant
  OBVIOUS
<1>3. /\ d.colls = [c \in {Root} |-> CollRow(0, "")] /\ d.log = [c \in {Root} |-> <<>>]
      /\ d.files = [f \in {} |-> None] /\ d.content = [f \in {} |-> None]
  BY <1>2 DEF NewTenant
<1>4. /\ d.used = [u \in Users |-> 0] /\ d.tenantUsed = 0
      /\ d.nextColl = Root + 1 /\ d.nextFile = 1
  BY <1>2 DEF NewTenant
<1>5. IsDb(d)
  BY <1>2 DEF NewTenant, IsDb, Tables
<1>6. /\ DOMAIN d.colls = {Root} /\ DOMAIN d.log = {Root}
       /\ DOMAIN d.files = {} /\ DOMAIN d.content = {}
  BY <1>3, Zenon
<1>7. d.colls[Root] = CollRow(0, "")
  BY <1>3, Zenon
<1>8. d.colls[Root].parent = 0
  <2>1. \A name : CollRow(0, name).parent = 0
    BY DEF CollRow
  <2> QED
    BY <1>7, <2>1, Zenon
<1>9. Root = 1 /\ d.nextColl = 2
  BY <1>4 DEF Root
<1>10. Shape(d)
  <2>1. /\ Root \in DOMAIN d.colls /\ d.colls[Root].parent = 0
        /\ DOMAIN d.colls \subseteq 1..(d.nextColl - 1) /\ DOMAIN d.log = DOMAIN d.colls
    BY <1>6, <1>8, <1>9
  <2>2. /\ d.nextColl \in Nat /\ d.nextFile \in Nat \ {0}
        /\ d.used \in [Users -> Nat] /\ d.tenantUsed \in Nat /\ IsDb(d)
    BY <1>4, <1>5, <1>9
  <2> QED
    BY <1>6, <2>1, <2>2 DEF Shape
<1>11. ConstraintsHold(d)
  BY <1>6 DEF ConstraintsHold
<1>12. Within(d)
  <2>1. 0 \in 0..TenantLimit /\ \A u \in Users : 0 \in 0..UserLimit[u]
    BY LimitAssumption
  <2> QED
    BY <1>4, <2>1 DEF Within
<1>13. \A p \in Procs : Works(db, proc[p])
  BY <1>1 DEF Works
<1>14. 0 \in 0..MaxRequests
  BY BoundsAssumption
<1> QED
  BY <1>1, <1>2, <1>10, <1>11, <1>12, <1>13, <1>14 DEF IInv

LEMMA StepKeeps == IInv /\ [Next]_vars => IInv'
<1> SUFFICES ASSUME IInv, [Next]_vars
             PROVE  IInv'
  OBVIOUS
<1>1. ASSUME NEW p \in Procs, Step(p)
      PROVE  IInv'
  <2>1. ASSUME PutOverwrite(p) \/ PutCreate(p) \/ Mkcol(p) \/ Delete(p) \/ Copy(p) \/ Move(p)
        PROVE  \E d : Keeps(d, db) /\ Commit(p, d)
    BY <2>1, PutOverwriteKeeps, PutCreateKeeps, MkcolKeeps, DeleteActionKeeps, CopyActionKeeps, MoveKeeps
  <2> QED
    BY <1>1, <2>1, CommitKeeps, LookupKeeps, SumFileSizesKeeps, RollBackKeeps DEF Step
<1>2. ASSUME vars' = vars
      PROVE  IInv'
  BY <1>2 DEF vars, IInv
<1> QED
  BY <1>1, <1>2 DEF Next

LEMMA TypesFollow == IInv => TypeOK
<1> SUFFICES ASSUME IInv
             PROVE  TypeOK
  OBVIOUS
<1>1. \A c \in DOMAIN db.colls : db.colls[c].parent \in CollIds \cup {0}
  BY DEF IInv, Shape, ConstraintsHold, CollIds
<1>2. \A f \in DOMAIN db.files : db.files[f].parent \in CollIds
  BY DEF IInv, Shape, ConstraintsHold, CollIds
<1>3. \A p \in Procs : proc[p] = Idle \/ proc[p].pc \in {"found", "summed"}
  BY DEF IInv, Works, AtWork
<1> QED
  BY <1>1, <1>2, <1>3 DEF IInv, Shape, FileRowOK, TypeOK, CollIds, FileIds

\* Whatever was raced, the tables keep their types, every row but the root's
\* is in a collection there is, and a request that goes on holds what its
\* transaction needs (the schema, the handlers).
THEOREM TypesAreRight == Spec => []TypeOK
<1>1. Init => IInv
  BY Starts
<1>2. IInv /\ [Next]_vars => IInv'
  BY StepKeeps
<1>3. IInv => TypeOK
  BY TypesFollow
<1> QED
  BY <1>1, <1>2, <1>3, PTL DEF Spec

\* No counter of a user or of the tenant leaves its limits, whatever requests
\* overlap: the condition is part of the UPDATE (applyQuotaDelta).
THEOREM LimitsHold == Spec => []WithinLimit
<1>1. Init => IInv
  BY Starts
<1>2. IInv /\ [Next]_vars => IInv'
  BY StepKeeps
<1>3. IInv => WithinLimit
  BY DEF IInv, Within, WithinLimit
<1> QED
  BY <1>1, <1>2, <1>3, PTL DEF Spec

-----------------------------------------------------------------------------
(* What each transaction makes of the tables of before it, b: w is the     *)
(* request, d the tables of after it, c those in between.                  *)

Logged(log, c, name, action) ==
  With(log, c, Append(log[c], [name |-> name, action |-> action]))

Charged(d, b, u, n) ==
  d.used = With(b.used, u, Floor(b.used[u] + n)) /\ d.tenantUsed = Floor(b.tenantUsed + n)

Overwrites(d, b, w) ==
  LET t == w.target
      body == w.req.body
      row == FileRow(t.row.parent, t.row.name, body, Size[body], t.row.owner)
  IN /\ d.files = With(b.files, t.id, row)
     /\ d.content = IF t.id \in DOMAIN b.content THEN With(b.content, t.id, body) ELSE b.content
     /\ d.colls = b.colls
     /\ t.row.parent \in DOMAIN b.log
     /\ d.log = Logged(b.log, t.row.parent, Last(w.req.path), "modified")
     /\ Charged(d, b, t.row.owner, PutDelta(t, body))

CreatesFile(d, b, w) ==
  LET c == w.parent.id
      body == w.req.body
      name == Last(w.req.path)
      row == FileRow(c, name, body, Size[body], w.req.user)
  IN /\ d.files = With(b.files, b.nextFile, row)
     /\ d.content = With(b.content, b.nextFile, body)
     /\ d.colls = b.colls
     /\ c \in DOMAIN b.log
     /\ d.log = Logged(b.log, c, name, "added")
     /\ Charged(d, b, w.req.user, Size[body])

CreatesColl(d, b, w) ==
  LET c == w.parent.id
      name == Last(w.req.path)
      log == With(b.log, b.nextColl, <<>>)
  IN /\ d.colls = With(b.colls, b.nextColl, CollRow(c, name))
     /\ c \in DOMAIN log
     /\ d.log = Logged(log, c, name, "added")
     /\ d.files = b.files /\ d.content = b.content
     /\ d.used = b.used /\ d.tenantUsed = b.tenantUsed

\* The rows of t are gone.
Clears(c, b, t) ==
  /\ Kept(c.colls, b.colls, CollsBelow(b, t)) /\ Kept(c.log, b.log, CollsBelow(b, t))
  /\ Kept(c.files, b.files, FilesIn(b, t)) /\ Kept(c.content, b.content, FilesIn(b, t))
  /\ c.nextColl = b.nextColl /\ c.nextFile = b.nextFile

CreditedBy(c, b, sums) ==
  /\ c.used = [u \in Users |-> Floor(b.used[u] - sums[u])]
  /\ c.tenantUsed = Floor(b.tenantUsed - Total(sums))

Relogs(d, c, parent, name, action) ==
  /\ d.colls = c.colls /\ d.files = c.files /\ d.content = c.content
  /\ d.used = c.used /\ d.tenantUsed = c.tenantUsed
  /\ parent \in DOMAIN c.log
  /\ d.log = Logged(c.log, parent, name, action)

Deletes(d, c, b, w) ==
  /\ Clears(c, b, w.target) /\ CreditedBy(c, b, w.sums)
  /\ Relogs(d, c, w.target.row.parent, w.target.row.name, "deleted")

\* The destination of COPY and MOVE has been cleared.
Cleared(c, b, w) == IF w.existing = None THEN c = b ELSE Clears(c, b, w.existing)

SameRows(a, c) ==
  /\ a.colls = c.colls /\ a.files = c.files /\ a.content = c.content /\ a.log = c.log
  /\ a.nextColl = c.nextColl /\ a.nextFile = c.nextFile

\* The copy is charged, a, then made, e.
Copies(d, e, a, c, b, w, added) ==
  LET t == w.target
      recursive == w.req.recursive
      name == Last(w.req.dest)
  IN /\ Cleared(c, b, w)
     /\ IF w.existing = None THEN c = b ELSE CreditedBy(c, b, w.sums)
     /\ added = IF t.kind = "coll" /\ ~recursive THEN 0
                ELSE IF w.existing = None THEN Total(w.sums)
                ELSE Total(SumFileSizesByOwner(c, t))
     /\ SameRows(a, c) /\ Charged(a, c, w.req.user, added)
     /\ Copyable(a, t, recursive)
     /\ IF t.kind = "coll" THEN Copied(e, a, t.id, w.parent.id, name, w.req.user, recursive)
        ELSE /\ e.files = With(a.files, a.nextFile,
                               FileRow(w.parent.id, name, a.content[t.id], t.row.size, w.req.user))
             /\ e.content = With(a.content, a.nextFile, a.content[t.id])
             /\ e.colls = a.colls /\ e.log = a.log
             /\ e.used = a.used /\ e.tenantUsed = a.tenantUsed
     /\ w.parent.id \in DOMAIN a.log
     /\ Relogs(d, e, w.parent.id, name, IF w.existing = None THEN "added" ELSE "modified")

Moves(d, c, b, w) ==
  LET t == w.target
      name == Last(w.req.dest)
  IN /\ Cleared(c, b, w)
     /\ IF t.kind = "coll" /\ t.id \in DOMAIN c.colls
        THEN d.colls = With(c.colls, t.id, CollRow(w.parent.id, name)) ELSE d.colls = c.colls
     /\ IF t.kind = "file" /\ t.id \in DOMAIN c.files
        THEN d.files = With(c.files, t.id,
                            FileRow(w.parent.id, name, c.files[t.id].etag, c.files[t.id].size,
                                    c.files[t.id].owner))
        ELSE d.files = c.files
     /\ d.content = c.content
     /\ t.row.parent \in DOMAIN c.log /\ w.parent.id \in DOMAIN c.log
     /\ d.log = Logged(Logged(c.log, t.row.parent, t.row.name, "deleted"), w.parent.id, name, "added")
     /\ d.used = b.used /\ d.tenantUsed = b.tenantUsed

\* The request as it was when the transaction began.
Ran(p, w) ==
  /\ w = proc[p] /\ AtWork(db, w)
  /\ raced' = (raced \/ ~Fresh(w))

LEMMA PutOverwriteMakes ==
  ASSUME IInv, NEW p \in Procs, PutOverwrite(p)
  PROVE  \E w : /\ Ran(p, w) /\ w.req.op = "PUT" /\ w.target # None /\ w.pc = "found"
                /\ Overwrites(db', db, w)
<1> DEFINE w == proc[p]
           t == w.target
           body == w.req.body
           delta == PutDelta(t, body)
           charged == ApplyQuotaDelta(db, t.row.owner, delta)
           saved == SaveFile(charged, t, body)
           d == RecordChange(saved, t.row.parent, Last(w.req.path), "modified")
<1>1. /\ w.pc = "found" /\ w.req.op = "PUT" /\ t # None
      /\ Recordable(saved, t.row.parent)
      /\ Commit(p, d)
  BY DEF PutOverwrite
<1>2. AtWork(db, w) /\ IsDb(db)
  BY <1>1, InTransaction DEF Shape
<1>3. db' = d /\ raced' = (raced \/ ~Fresh(w))
  BY <1>1 DEF Commit
<1> HIDE DEF w, t, body, delta, charged, saved, d
<1>4. /\ IsDb(charged) /\ Charged(charged, db, t.row.owner, delta)
      /\ charged.colls = db.colls /\ charged.files = db.files
      /\ charged.content = db.content /\ charged.log = db.log
  BY <1>2, ChargeMakes DEF charged, Charged
<1>5. /\ IsDb(saved)
      /\ saved.files = With(charged.files, t.id,
                            FileRow(t.row.parent, t.row.name, body, Size[body], t.row.owner))
      /\ saved.content = IF t.id \in DOMAIN charged.content THEN With(charged.content, t.id, body)
                         ELSE charged.content
      /\ saved.colls = charged.colls /\ saved.log = charged.log
      /\ saved.used = charged.used /\ saved.tenantUsed = charged.tenantUsed
  BY <1>4, SaveMakes DEF saved
<1>6. /\ d.log = Logged(saved.log, t.row.parent, Last(w.req.path), "modified")
      /\ d.colls = saved.colls /\ d.files = saved.files /\ d.content = saved.content
      /\ d.used = saved.used /\ d.tenantUsed = saved.tenantUsed
  BY <1>5, LogMakes DEF d, Logged
<1>7. Overwrites(d, db, w)
  BY <1>1, <1>4, <1>5, <1>6 DEF Overwrites, Charged, Recordable, t, body, delta
<1>8. Ran(p, w)
  BY <1>2, <1>3 DEF Ran, w
<1> QED
  BY <1>1, <1>3, <1>7, <1>8 DEF t

LEMMA PutCreateMakes ==
  ASSUME IInv, NEW p \in Procs, PutCreate(p)
  PROVE  \E w : /\ Ran(p, w) /\ w.req.op = "PUT" /\ w.target = None /\ w.pc = "found"
                /\ CreatesFile(db', db, w)
<1> DEFINE w == proc[p]
           body == w.req.body
           c == w.parent.id
           name == Last(w.req.path)
           row == FileRow(c, name, body, Size[body], w.req.user)
           charged == ApplyQuotaDelta(db, w.req.user, Size[body])
           made == InsertFile(charged, row, body)
           d == RecordChange(made, c, name, "added")
<1>1. /\ w.pc = "found" /\ w.req.op = "PUT" /\ w.target = None
      /\ Recordable(made, c)
      /\ Commit(p, d)
  BY DEF PutCreate
<1>2. AtWork(db, w) /\ IsDb(db)
  BY <1>1, InTransaction DEF Shape
<1>3. db' = d /\ raced' = (raced \/ ~Fresh(w))
  BY <1>1 DEF Commit
<1> HIDE DEF w, body, c, name, row, charged, made, d
<1>4. /\ IsDb(charged) /\ Charged(charged, db, w.req.user, Size[body])
      /\ charged.colls = db.colls /\ charged.files = db.files
      /\ charged.content = db.content /\ charged.log = db.log /\ charged.nextFile = db.nextFile
  BY <1>2, ChargeMakes DEF charged, Charged
<1>5. /\ IsDb(made)
      /\ made.files = With(charged.files, charged.nextFile, row)
      /\ made.content = With(charged.content, charged.nextFile, body)
      /\ made.colls = charged.colls /\ made.log = charged.log
      /\ made.used = charged.used /\ made.tenantUsed = charged.tenantUsed
  BY <1>4, InsertFileMakes DEF made
<1>6. /\ d.log = Logged(made.log, c, name, "added")
      /\ d.colls = made.colls /\ d.files = made.files /\ d.content = made.content
      /\ d.used = made.used /\ d.tenantUsed = made.tenantUsed
  BY <1>5, LogMakes DEF d, Logged
<1>7. CreatesFile(d, db, w)
  BY <1>1, <1>4, <1>5, <1>6 DEF CreatesFile, Charged, Recordable, body, c, name, row
<1>8. Ran(p, w)
  BY <1>2, <1>3 DEF Ran, w
<1> QED
  BY <1>1, <1>3, <1>7, <1>8

LEMMA MkcolMakes ==
  ASSUME IInv, NEW p \in Procs, Mkcol(p)
  PROVE  \E w : Ran(p, w) /\ w.req.op = "MKCOL" /\ w.pc = "found" /\ CreatesColl(db', db, w)
<1> DEFINE w == proc[p]
           c == w.parent.id
           name == Last(w.req.path)
           made == InsertColl(db, c, name)
           d == RecordChange(made, c, name, "added")
<1>1. w.pc = "found" /\ w.req.op = "MKCOL" /\ Recordable(made, c) /\ Commit(p, d)
  BY DEF Mkcol
<1>2. AtWork(db, w) /\ IsDb(db)
  BY <1>1, InTransaction DEF Shape
<1>3. db' = d /\ raced' = (raced \/ ~Fresh(w))
  BY <1>1 DEF Commit
<1> HIDE DEF w, c, name, made, d
<1>4. /\ IsDb(made)
      /\ made.colls = With(db.colls, db.nextColl, CollRow(c, name))
      /\ made.log = With(db.log, db.nextColl, <<>>)
      /\ made.files = db.files /\ made.content = db.content
      /\ made.used = db.used /\ made.tenantUsed = db.tenantUsed
  BY <1>2, InsertCollMakes DEF made
<1>5. /\ d.log = Logged(made.log, c, name, "added")
      /\ d.colls = made.colls /\ d.files = made.files /\ d.content = made.content
      /\ d.used = made.used /\ d.tenantUsed = made.tenantUsed
  BY <1>4, LogMakes DEF d, Logged
<1>6. CreatesColl(d, db, w)
  BY <1>1, <1>4, <1>5 DEF CreatesColl, Recordable, c, name
<1>7. Ran(p, w)
  BY <1>2, <1>3 DEF Ran, w
<1> QED
  BY <1>1, <1>3, <1>6, <1>7

\* The credit and the deletion that DELETE and an overwriting COPY begin with.
LEMMA ClearMakes ==
  ASSUME NEW b, Shape(b), NEW sums, NEW t, NEW c, c = DeleteRecursively(CreditOwners(b, sums), t)
  PROVE  IsDb(c) /\ Clears(c, b, t) /\ CreditedBy(c, b, sums)
<1> DEFINE e == CreditOwners(b, sums)
<1>1. Credited(e, b, sums)
  BY CreditMakes DEF Shape
<1>2. /\ IsDb(e) /\ CreditedBy(e, b, sums)
      /\ e.colls = b.colls /\ e.files = b.files /\ e.content = b.content /\ e.log = b.log
      /\ e.nextColl = b.nextColl /\ e.nextFile = b.nextFile
  BY <1>1 DEF Credited, CreditedBy
<1> HIDE DEF e
<1>3. /\ IsDb(c)
      /\ Kept(c.colls, e.colls, CollsBelow(e, t)) /\ Kept(c.log, e.log, CollsBelow(e, t))
      /\ Kept(c.files, e.files, FilesIn(e, t)) /\ Kept(c.content, e.content, FilesIn(e, t))
      /\ c.used = e.used /\ c.tenantUsed = e.tenantUsed
      /\ c.nextColl = e.nextColl /\ c.nextFile = e.nextFile
  BY <1>2, DeleteMakes DEF e
<1>4. CollsBelow(e, t) = CollsBelow(b, t) /\ FilesIn(e, t) = FilesIn(b, t)
  <2>1. \A x : SubColls(e, x) = SubColls(b, x) /\ SubFiles(e, x) = SubFiles(b, x)
    BY <1>2 DEF SubColls, SubFiles
  <2>2. Subtree(e, t.id) = Subtree(b, t.id)
    BY <1>2, Finite, SubtreeSame
  <2>3. FilesBelow(e, t.id) = FilesBelow(b, t.id)
    BY <2>1, <2>2, Zenon DEF FilesBelow
  <2> QED
    BY <2>2, <2>3 DEF CollsBelow, FilesIn
<1> QED
  BY <1>2, <1>3, <1>4 DEF Clears, CreditedBy

LEMMA DeleteActionMakes ==
  ASSUME IInv, NEW p \in Procs, Delete(p)
  PROVE  \E w, c : /\ Ran(p, w) /\ w.req.op = "DELETE" /\ w.pc = "summed"
                   /\ Keeps(c, db) /\ Deletes(db', c, db, w)
<1> DEFINE w == proc[p]
           t == w.target
           c == DeleteRecursively(CreditOwners(db, w.sums), t)
           d == RecordChange(c, t.row.parent, t.row.name, "deleted")
<1>1. /\ w.pc = "summed" /\ w.req.op = "DELETE"
      /\ Recordable(c, t.row.parent) /\ Commit(p, d)
  BY DEF Delete
<1>2. AtWork(db, w) /\ IsDb(db) /\ Shape(db)
  BY <1>1, InTransaction DEF Shape
<1>3. db' = d /\ raced' = (raced \/ ~Fresh(w))
  BY <1>1 DEF Commit
<1>4. IsHandle(db, t) /\ NotRoot(t) /\ w.sums \in [Users -> Nat]
  BY <1>1, <1>2 DEF AtWork, Chosen
<1> HIDE DEF w, t, c, d
<1>5. Keeps(c, db)
  BY <1>2, <1>4, ClearKeeps DEF c
<1>6. IsDb(c) /\ Clears(c, db, t) /\ CreditedBy(c, db, w.sums)
  BY <1>2, ClearMakes DEF c
<1>7. /\ d.log = Logged(c.log, t.row.parent, t.row.name, "deleted")
      /\ d.colls = c.colls /\ d.files = c.files /\ d.content = c.content
      /\ d.used = c.used /\ d.tenantUsed = c.tenantUsed
  BY <1>6, LogMakes DEF d, Logged
<1>8. Deletes(d, c, db, w)
  BY <1>1, <1>6, <1>7 DEF Deletes, Relogs, Recordable, t
<1>9. Ran(p, w)
  BY <1>2, <1>3 DEF Ran, w
<1> QED
  BY <1>1, <1>3, <1>5, <1>8, <1>9

LEMMA CopyActionMakes ==
  ASSUME IInv, NEW p \in Procs, Copy(p)
  PROVE  \E w, c, a, e, added :
           /\ Ran(p, w) /\ w.req.op = "COPY" /\ w.pc = "summed"
           /\ Keeps(c, db) /\ Keeps(a, c) /\ Keeps(e, a) /\ added \in Nat
           /\ Copies(db', e, a, c, db, w, added)
<1> DEFINE w == proc[p]
           t == w.target
           recursive == w.req.recursive
           name == Last(w.req.dest)
           user == w.req.user
           c == IF w.existing = None THEN db
                ELSE DeleteRecursively(CreditOwners(db, w.sums), w.existing)
           added == IF t.kind = "coll" /\ ~recursive THEN 0
                    ELSE IF w.existing = None THEN Total(w.sums)
                    ELSE Total(SumFileSizesByOwner(c, t))
           a == ApplyQuotaDelta(c, user, added)
           action == IF w.existing = None THEN "added" ELSE "modified"
           e == CopyTo(a, t, w.parent.id, name, user, recursive)
           d == RecordChange(e, w.parent.id, name, action)
<1>1. /\ w.pc = "summed" /\ w.req.op = "COPY"
      /\ QuotaAdmits(c, user, added)
      /\ Copyable(a, t, recursive)
      /\ Recordable(a, w.parent.id)
      /\ Commit(p, d)
  BY DEF Copy
<1>2. AtWork(db, w) /\ Shape(db) /\ user \in Users
  BY <1>1, InTransaction
<1>3. /\ IsHandle(db, t) /\ w.sums \in [Users -> Nat]
      /\ w.existing # None => IsHandle(db, w.existing) /\ NotRoot(w.existing)
  BY <1>1, <1>2 DEF AtWork, Chosen
<1>4. db' = d /\ raced' = (raced \/ ~Fresh(w))
  BY <1>1 DEF Commit
<1>5. /\ Keeps(c, db) /\ Cleared(c, db, w)
      /\ IF w.existing = None THEN c = db ELSE CreditedBy(c, db, w.sums)
  <2>1. CASE w.existing = None
    BY <1>2, <2>1 DEF Keeps, Shape, Cleared
  <2>2. CASE w.existing # None
    <3>1. c = DeleteRecursively(CreditOwners(db, w.sums), w.existing)
      BY <2>2
    <3> HIDE DEF c
    <3>2. Keeps(c, db)
      BY <1>2, <1>3, <2>2, <3>1, ClearKeeps
    <3>3. Clears(c, db, w.existing) /\ CreditedBy(c, db, w.sums)
      BY <1>2, <3>1, ClearMakes
    <3> QED
      BY <2>2, <3>2, <3>3 DEF Cleared
  <2> QED
    BY <2>1, <2>2
<1> HIDE DEF c
<1>6. Shape(c) /\ IsHandle(c, t)
  BY <1>2, <1>3, <1>5 DEF Keeps, IsHandle, IsColl, IsFile, Shape
<1>7. added \in Nat
  <2>1. Total(w.sums) \in Nat
    BY <1>3, TotalNat
  <2>2. Total(SumFileSizesByOwner(c, t)) \in Nat
    BY <1>6, SumsAre, TotalNat
  <2> QED
    BY <2>1, <2>2
<1>8. added = IF t.kind = "coll" /\ ~recursive THEN 0
              ELSE IF w.existing = None THEN Total(w.sums)
              ELSE Total(SumFileSizesByOwner(c, t))
  OBVIOUS
<1> HIDE DEF w, t, recursive, name, user, added, a, d, e, action
<1>9. Keeps(a, c) /\ IsDb(a) /\ SameRows(a, c) /\ Charged(a, c, user, added)
  <2>1. added \in Int
    BY <1>7
  <2>2. Keeps(a, c)
    BY <1>1, <1>2, <1>6, <2>1, ChargeKeeps DEF a
  <2>3. IsDb(c)
    BY <1>6 DEF Shape
  <2> QED
    BY <2>2, <2>3, ChargeMakes DEF a, SameRows, Charged
<1>10. Shape(a) /\ IsHandle(a, t)
  BY <1>6, <1>9 DEF Keeps, IsHandle, IsColl, IsFile, Shape
<1>11. Keeps(e, a)
  BY <1>1, <1>2, <1>10, CopyToKeeps DEF e
<1>12. w.parent.id \in DOMAIN a.log
  BY <1>1 DEF Recordable
<1>13. t.kind = "coll" => Copied(e, a, t.id, w.parent.id, name, user, recursive)
  <2> SUFFICES ASSUME t.kind = "coll"
               PROVE  Copied(e, a, t.id, w.parent.id, name, user, recursive)
    OBVIOUS
  <2>1. e = CopyCollection(a, t.id, w.parent.id, name, user, recursive) /\ t.id \in 1..(a.nextColl - 1)
    BY <1>10 DEF e, CopyTo, IsHandle, IsColl, IsFile
  <2> QED
    BY <1>10, <2>1, CopyMakes
<1>14. t.kind # "coll" =>
         /\ e.files = With(a.files, a.nextFile,
                           FileRow(w.parent.id, name, a.content[t.id], t.row.size, user))
         /\ e.content = With(a.content, a.nextFile, a.content[t.id])
         /\ e.colls = a.colls /\ e.log = a.log
         /\ e.used = a.used /\ e.tenantUsed = a.tenantUsed
  <2> SUFFICES ASSUME t.kind # "coll"
               PROVE  /\ e.files = With(a.files, a.nextFile,
                                   FileRow(w.parent.id, name, a.content[t.id], t.row.size, user))
                      /\ e.content = With(a.content, a.nextFile, a.content[t.id])
                      /\ e.colls = a.colls /\ e.log = a.log
                      /\ e.used = a.used /\ e.tenantUsed = a.tenantUsed
    OBVIOUS
  <2>1. e = InsertFile(a, FileRow(w.parent.id, name, a.content[t.id], t.row.size, user), a.content[t.id])
    BY DEF e, CopyTo
  <2> QED
    BY <1>9, <2>1, InsertFileMakes
<1>15. DOMAIN a.log \subseteq DOMAIN e.log
  BY <1>13, <1>14 DEF Copied
<1>16. Relogs(d, e, w.parent.id, name, action)
  <2>1. IsDb(e) /\ w.parent.id \in DOMAIN e.log
    BY <1>11, <1>12, <1>15 DEF Keeps, Shape
  <2> QED
    BY <2>1, LogMakes DEF d, Relogs, Logged
<1>17. Copies(d, e, a, c, db, w, added)
  BY <1>1, <1>5, <1>8, <1>9, <1>12, <1>13, <1>14, <1>16
     DEF Copies, t, recursive, name, user, action
<1>18. Ran(p, w)
  BY <1>2, <1>4 DEF Ran, w
<1> QED
  BY <1>1, <1>4, <1>5, <1>7, <1>9, <1>11, <1>17, <1>18

LEMMA MoveMakes ==
  ASSUME IInv, NEW p \in Procs, Move(p)
  PROVE  \E w, c : /\ Ran(p, w) /\ w.req.op = "MOVE" /\ w.pc = "found"
                   /\ Keeps(c, db) /\ Moves(db', c, db, w)
<1> DEFINE w == proc[p]
           t == w.target
           name == Last(w.req.dest)
           c == IF w.existing = None THEN db ELSE DeleteRecursively(db, w.existing)
           moved == Relocate(c, t, w.parent.id, name)
           left == RecordChange(moved, t.row.parent, t.row.name, "deleted")
           d == RecordChange(left, w.parent.id, name, "added")
<1>1. /\ w.pc = "found" /\ w.req.op = "MOVE"
      /\ Recordable(moved, t.row.parent) /\ Recordable(moved, w.parent.id)
      /\ Commit(p, d)
  BY DEF Move, Relogged
<1>2. AtWork(db, w) /\ Shape(db)
  BY <1>1, InTransaction
<1>3. w.existing # None => IsHandle(db, w.existing) /\ NotRoot(w.existing)
  BY <1>1, <1>2 DEF AtWork, Chosen
<1>4. db' = d /\ raced' = (raced \/ ~Fresh(w))
  BY <1>1 DEF Commit
<1>5. Keeps(c, db) /\ Cleared(c, db, w) /\ c.used = db.used /\ c.tenantUsed = db.tenantUsed
  <2>1. CASE w.existing = None
    BY <1>2, <2>1 DEF Keeps, Shape, Cleared
  <2>2. CASE w.existing # None
    <3>1. c = DeleteRecursively(db, w.existing)
      BY <2>2
    <3> HIDE DEF c
    <3>2. Keeps(c, db)
      BY <1>2, <1>3, <2>2, <3>1, DeleteKeeps
    <3>3. Clears(c, db, w.existing) /\ c.used = db.used /\ c.tenantUsed = db.tenantUsed
      BY <1>2, <3>1, DeleteMakes DEF Clears, Shape
    <3> QED
      BY <2>2, <3>2, <3>3 DEF Cleared
  <2> QED
    BY <2>1, <2>2
<1> HIDE DEF w, t, name, c, moved, left, d
<1>6. IsDb(c)
  BY <1>5 DEF Keeps, Shape
<1>7. /\ IsDb(moved)
      /\ IF t.kind = "coll" /\ t.id \in DOMAIN c.colls
         THEN moved.colls = With(c.colls, t.id, CollRow(w.parent.id, name)) ELSE moved.colls = c.colls
      /\ IF t.kind = "file" /\ t.id \in DOMAIN c.files
         THEN moved.files = With(c.files, t.id,
                                 FileRow(w.parent.id, name, c.files[t.id].etag, c.files[t.id].size,
                                         c.files[t.id].owner))
         ELSE moved.files = c.files
      /\ moved.content = c.content /\ moved.log = c.log
      /\ moved.used = c.used /\ moved.tenantUsed = c.tenantUsed
  BY <1>6, RelocateMakes DEF moved
<1>8. /\ IsDb(left) /\ left.log = Logged(moved.log, t.row.parent, t.row.name, "deleted")
      /\ left.colls = moved.colls /\ left.files = moved.files /\ left.content = moved.content
      /\ left.used = moved.used /\ left.tenantUsed = moved.tenantUsed
  BY <1>7, LogMakes DEF left, Logged
<1>9. /\ d.log = Logged(left.log, w.parent.id, name, "added")
      /\ d.colls = left.colls /\ d.files = left.files /\ d.content = left.content
      /\ d.used = left.used /\ d.tenantUsed = left.tenantUsed
  BY <1>8, LogMakes DEF d, Logged
<1>10. Moves(d, c, db, w)
  BY <1>1, <1>5, <1>7, <1>8, <1>9 DEF Moves, Recordable, t, name
<1>11. Ran(p, w)
  BY <1>2, <1>4 DEF Ran, w
<1> QED
  BY <1>1, <1>4, <1>5, <1>10, <1>11

\* Unless it raced, a transaction works with rows as they are.
LEMMA RanFresh ==
  ASSUME IInv, NEW p \in Procs, NEW w, Ran(p, w), ~raced'
  PROVE  /\ ~raced /\ AtWork(db, w) /\ Held(db, w)
         /\ w.pc = "summed" => w.sums = SumsNow(db, w)
<1>1. ~raced /\ Fresh(w) /\ AtWork(db, w)
  BY DEF Ran, IInv
<1>2. PICK v : v = [w EXCEPT !.pc = "found", !.sums = NoSums]
  OBVIOUS
<1>3. v \in Lookups(db, w.req) /\ (w.pc = "summed" => w.sums = SumsNow(db, w))
  BY <1>1, <1>2 DEF Fresh
<1>4. v.req = w.req /\ v.target = w.target /\ v.parent = w.parent /\ v.existing = w.existing
  BY <1>1, <1>2 DEF AtWork, WorkFields
<1>5. w.req \in Requests /\ Shape(db)
  BY <1>1 DEF AtWork, IInv
<1>6. Held(db, v)
  BY <1>3, <1>5, LookupsFind
<1>7. Held(db, w)
  BY <1>4, <1>6 DEF Held, Chosen
<1> QED
  BY <1>1, <1>3, <1>7

-----------------------------------------------------------------------------
(* The ETag and the size of every file are those of the content it has.    *)

Matches(d, f) ==
  /\ f \in DOMAIN d.content
  /\ d.files[f].etag = d.content[f]
  /\ d.files[f].size = Size[d.content[f]]
Matching(d) == \A f \in DOMAIN d.files : Matches(d, f)

LEMMA OverwriteMatches ==
  ASSUME NEW b, Shape(b), Matching(b), NEW w, Held(b, w), w.req.op = "PUT", w.target # None,
         NEW d, Overwrites(d, b, w)
  PROVE  Matching(d)
<1> DEFINE t == w.target
           body == w.req.body
           row == FileRow(t.row.parent, t.row.name, body, Size[body], t.row.owner)
<1>1. t.id \in DOMAIN b.files
  <2>1. IsFile(b, t) /\ t \in Handles(b)
    BY DEF Held, Chosen
  <2> QED
    BY <2>1, HandlesAre DEF IsFile, IsColl
<1>2. t.id \in DOMAIN b.content
  BY <1>1 DEF Matching, Matches
<1>3. d.files = With(b.files, t.id, row) /\ d.content = With(b.content, t.id, body)
  BY <1>2 DEF Overwrites
<1>4. row.etag = body /\ row.size = Size[body]
  BY DEF FileRow
<1> HIDE DEF t, body, row
<1> QED
  BY <1>1, <1>2, <1>3, <1>4 DEF Matching, Matches, With

LEMMA CreateMatches ==
  ASSUME NEW b, Shape(b), Matching(b), NEW w, NEW d, CreatesFile(d, b, w)
  PROVE  Matching(d)
<1> DEFINE body == w.req.body
           row == FileRow(w.parent.id, Last(w.req.path), body, Size[body], w.req.user)
<1>1. d.files = With(b.files, b.nextFile, row) /\ d.content = With(b.content, b.nextFile, body)
  BY DEF CreatesFile
<1>2. row.etag = body /\ row.size = Size[body]
  BY DEF FileRow
<1>3. b.nextFile \notin DOMAIN b.files /\ b.nextFile \notin DOMAIN b.content
  BY DEF Shape
<1> HIDE DEF body, row
<1> QED
  BY <1>1, <1>2, <1>3 DEF Matching, Matches, With

LEMMA ClearedMatches ==
  ASSUME NEW b, Matching(b), NEW t, NEW c, Clears(c, b, t)
  PROVE  Matching(c)
BY DEF Clears, Kept, Matching, Matches

\* A file as a handler holds it, in tables where some rows are gone.
LEMMA StillHeld ==
  ASSUME NEW b, Shape(b), NEW w, Held(b, w), NEW c, Cleared(c, b, w),
         w.target.kind = "file", w.target.id \in DOMAIN c.files
  PROVE  w.target.row = c.files[w.target.id]
<1>1. w.target \in Handles(b) /\ w.target # None
  BY DEF Held, None
<1>2. w.target.row = b.files[w.target.id]
  BY <1>1, HandlesAre DEF IsColl, File
<1>3. c.files[w.target.id] = b.files[w.target.id]
  BY DEF Cleared, Clears, Kept
<1> QED
  BY <1>2, <1>3

LEMMA CopyMatches ==
  ASSUME NEW b, Shape(b), Matching(b), NEW w, Held(b, w), w.req.op = "COPY",
         NEW c, NEW a, NEW e, NEW added, NEW d, Copies(d, e, a, c, b, w, added),
         Shape(c), Shape(a)
  PROVE  Matching(d)
<1> DEFINE t == w.target
           name == Last(w.req.dest)
           recursive == w.req.recursive
           row == FileRow(w.parent.id, name, a.content[t.id], t.row.size, w.req.user)
<1>1. Matching(a)
  <2>1. Matching(c)
    BY ClearedMatches DEF Copies, Cleared
  <2>2. a.files = c.files /\ a.content = c.content
    BY DEF Copies, SameRows
  <2> QED
    BY <2>1, <2>2 DEF Matching, Matches
<1>2. d.files = e.files /\ d.content = e.content
  BY DEF Copies, Relogs
<1>3. CASE t.kind = "coll"
  <2>1. Copied(e, a, t.id, w.parent.id, name, w.req.user, recursive)
    BY <1>3 DEF Copies
  <2>2. t.id \in 1..(a.nextColl - 1)
    <3>1. IsColl(b, t)
      BY <1>3 DEF Held, Chosen, IsHandle, IsFile
    <3>2. a.nextColl = b.nextColl
      BY DEF Copies, SameRows, Cleared, Clears
    <3> QED
      BY <3>1, <3>2 DEF IsColl
  <2> DEFINE files == CopiedFiles(a, t.id, recursive)
             new(f) == NewFile(a, t.id, recursive, f)
  <2>3. files \subseteq DOMAIN a.files
    BY <2>2, NewRows
  <2>4. \A f \in files : /\ e.content[new(f)] = a.content[f]
                         /\ e.files[new(f)].etag = a.content[f]
                         /\ e.files[new(f)].size = a.files[f].size
    <3>1. \A p, n, h, s, u : FileRow(p, n, h, s, u).etag = h /\ FileRow(p, n, h, s, u).size = s
      BY DEF FileRow
    <3>2. TAKE f \in files
    <3>3. PICK p, n : e.files[new(f)] = FileRow(p, n, a.content[f], a.files[f].size, w.req.user)
      BY <2>1 DEF Copied
    <3>4. e.content[new(f)] = a.content[f]
      BY <2>1 DEF Copied
    <3> HIDE DEF files, new
    <3> QED
      BY <3>1, <3>3, <3>4
  <2>5. /\ DOMAIN e.files = DOMAIN a.files \cup {new(f) : f \in files}
        /\ DOMAIN e.content = DOMAIN a.content \cup {new(f) : f \in files}
        /\ \A g \in DOMAIN a.files : e.files[g] = a.files[g]
        /\ \A g \in DOMAIN a.content : e.content[g] = a.content[g]
    BY <2>1 DEF Copied, NewFiles
  <2> HIDE DEF files, new, t, recursive, name
  <2>6. \A g \in DOMAIN a.files : Matches(e, g)
    BY <1>1, <2>5 DEF Matching, Matches
  <2>7. \A f \in files : Matches(e, new(f))
    <3> TAKE f \in files
    <3>1. Matches(a, f)
      BY <1>1, <2>3 DEF Matching
    <3> QED
      BY <2>4, <2>5, <3>1 DEF Matches
  <2>8. Matching(e)
    BY <2>5, <2>6, <2>7 DEF Matching
  <2> QED
    BY <1>2, <2>8 DEF Matching, Matches
<1>4. CASE t.kind # "coll"
  <2>1. IsFile(b, t)
    BY <1>4 DEF Held, Chosen, IsHandle, IsColl
  <2>2. t.id \in DOMAIN a.content
    BY <2>1 DEF Copies, Copyable, IsFile
  <2>3. t.id \in DOMAIN a.files
    BY <2>2 DEF Shape
  <2>4. t.row = a.files[t.id]
    <3>1. t.id \in DOMAIN c.files /\ a.files = c.files /\ t.kind = "file" /\ Cleared(c, b, w)
      BY <2>1, <2>3 DEF Copies, SameRows, IsFile
    <3> QED
      BY <3>1, StillHeld
  <2>5. Matches(a, t.id)
    BY <1>1, <2>3 DEF Matching
  <2>6. e.files = With(a.files, a.nextFile, row) /\ e.content = With(a.content, a.nextFile, a.content[t.id])
    BY <1>4 DEF Copies
  <2>7. row.etag = a.content[t.id] /\ row.size = Size[a.content[t.id]]
    BY <2>4, <2>5 DEF FileRow, Matches
  <2>8. a.nextFile \notin DOMAIN a.files /\ a.nextFile \notin DOMAIN a.content
    BY DEF Shape
  <2> HIDE DEF row, t
  <2> QED
    BY <1>1, <1>2, <2>6, <2>7, <2>8 DEF Matching, Matches, With
<1> QED
  BY <1>3, <1>4

LEMMA MoveMatches ==
  ASSUME NEW b, Matching(b), NEW w, NEW c, NEW d, Moves(d, c, b, w)
  PROVE  Matching(d)
<1> DEFINE t == w.target
<1>1. Matching(c)
  BY ClearedMatches DEF Moves, Cleared
<1>2. d.content = c.content
  BY DEF Moves
<1>3. CASE t.kind = "file" /\ t.id \in DOMAIN c.files
  <2> DEFINE row == FileRow(w.parent.id, Last(w.req.dest), c.files[t.id].etag, c.files[t.id].size,
                            c.files[t.id].owner)
  <2>1. d.files = With(c.files, t.id, row)
    BY <1>3 DEF Moves
  <2>2. row.etag = c.files[t.id].etag /\ row.size = c.files[t.id].size
    BY DEF FileRow
  <2> HIDE DEF row, t
  <2> QED
    BY <1>1, <1>2, <1>3, <2>1, <2>2 DEF Matching, Matches, With
<1>4. CASE ~(t.kind = "file" /\ t.id \in DOMAIN c.files)
  <2>1. d.files = c.files
    BY <1>4 DEF Moves
  <2> QED
    BY <1>1, <1>2, <2>1 DEF Matching, Matches
<1> QED
  BY <1>3, <1>4

\* Only a commit changes the tables.
LEMMA TablesStay ==
  ASSUME NEW p \in Procs, Lookup(p) \/ SumFileSizes(p) \/ RollBack(p)
  PROVE  UNCHANGED <<db, raced>>
BY DEF Lookup, SumFileSizes, RollBack

LEMMA StepMatches ==
  ASSUME IInv, NEW p \in Procs, Step(p), ~raced', raced \/ Matching(db)
  PROVE  Matching(db')
<1>1. CASE Lookup(p) \/ SumFileSizes(p) \/ RollBack(p)
  BY <1>1, TablesStay
<1>2. Shape(db)
  BY DEF IInv
<1>3. CASE PutOverwrite(p)
  <2>1. PICK w : /\ Ran(p, w) /\ w.req.op = "PUT" /\ w.target # None /\ Overwrites(db', db, w)
    BY <1>3, PutOverwriteMakes
  <2>2. Held(db, w) /\ Matching(db)
    BY <2>1, RanFresh
  <2> QED
    BY <1>2, <2>1, <2>2, OverwriteMatches
<1>4. CASE PutCreate(p)
  <2>1. PICK w : Ran(p, w) /\ CreatesFile(db', db, w)
    BY <1>4, PutCreateMakes
  <2>2. Matching(db)
    BY <2>1, RanFresh
  <2> QED
    BY <1>2, <2>1, <2>2, CreateMatches
<1>5. CASE Mkcol(p)
  <2>1. PICK w : Ran(p, w) /\ CreatesColl(db', db, w)
    BY <1>5, MkcolMakes
  <2>2. Matching(db)
    BY <2>1, RanFresh
  <2> QED
    BY <2>1, <2>2 DEF CreatesColl, Matching, Matches
<1>6. CASE Delete(p)
  <2>1. PICK w, c : Ran(p, w) /\ Deletes(db', c, db, w)
    BY <1>6, DeleteActionMakes
  <2>2. Matching(c)
    BY <2>1, RanFresh, ClearedMatches DEF Deletes
  <2> QED
    BY <2>1, <2>2 DEF Deletes, Relogs, Matching, Matches
<1>7. CASE Copy(p)
  <2>1. PICK w, c, a, e, added :
           /\ Ran(p, w) /\ w.req.op = "COPY" /\ Keeps(c, db) /\ Keeps(a, c)
           /\ Copies(db', e, a, c, db, w, added)
    BY <1>7, CopyActionMakes
  <2>2. Held(db, w) /\ Matching(db) /\ Shape(c) /\ Shape(a)
    BY <2>1, RanFresh DEF Keeps
  <2> QED
    BY <1>2, <2>1, <2>2, CopyMatches
<1>8. CASE Move(p)
  <2>1. PICK w, c : Ran(p, w) /\ Moves(db', c, db, w)
    BY <1>8, MoveMakes
  <2>2. Matching(db)
    BY <2>1, RanFresh
  <2> QED
    BY <2>1, <2>2, MoveMatches
<1> QED
  BY <1>1, <1>3, <1>4, <1>5, <1>6, <1>7, <1>8 DEF Step

\* Unless some request committed on a stale lookup, every file has the ETag
\* and the size of the content it has (PUT writes them together, COPY takes
\* the size of the row and the content of now).
THEOREM ContentsAlwaysMatch == Spec => []ContentsMatch
<1>1. Init => IInv /\ ContentsMatch
  <2>1. NewTenant.files = [f \in {} |-> None]
    BY DEF NewTenant
  <2> QED
    BY <2>1, Starts DEF Init, InitWith, ContentsMatch
<1>2. IInv /\ ContentsMatch /\ [Next]_vars => IInv' /\ ContentsMatch'
  <2> SUFFICES ASSUME IInv, ContentsMatch, [Next]_vars
               PROVE  ContentsMatch'
    BY StepKeeps
  <2>1. raced \/ Matching(db)
    BY DEF ContentsMatch, Matching, Matches
  <2>2. ASSUME NEW p \in Procs, Step(p), ~raced'
        PROVE  Matching(db')
    BY <2>1, <2>2, StepMatches
  <2>3. raced' \/ Matching(db')
    <3>1. CASE Next
      BY <3>1, <2>2 DEF Next
    <3>2. CASE UNCHANGED vars
      BY <3>2, <2>1 DEF vars
    <3> QED
      BY <3>1, <3>2
  <2> QED
    BY <2>3 DEF ContentsMatch, Matching, Matches
<1> QED
  BY <1>1, <1>2, PTL DEF Spec

-----------------------------------------------------------------------------
(* No stored byte is uncharged.                                            *)

Mine(d, u) == OwnedBy(d, DOMAIN d.files, u)
Stored(d, u) == FileBytes(d, Mine(d, u))
Covered(d) ==
  /\ \A u \in Users : Stored(d, u) <= d.used[u]
  /\ d.tenantUsed = Total(d.used)

LEMMA StoredIs ==
  ASSUME NEW d, Shape(d), NEW u
  PROVE  /\ Mine(d, u) \subseteq DOMAIN d.files /\ IsFiniteSet(Mine(d, u))
         /\ NatsOn(Sizes(d), Mine(d, u))
         /\ Stored(d, u) = Sum(Sizes(d), Mine(d, u)) /\ Stored(d, u) \in Nat
<1>1. Mine(d, u) \subseteq DOMAIN d.files
  BY DEF Mine, OwnedBy
<1>2. IsFiniteSet(Mine(d, u)) /\ NatsOn(Sizes(d), Mine(d, u))
  BY <1>1, Finite
<1>3. Stored(d, u) = Sum(Sizes(d), Mine(d, u))
  BY <1>1, <1>2, FileBytesIs DEF Stored
<1>4. Sum(Sizes(d), Mine(d, u)) \in Nat
  BY <1>2, SumNat
<1> QED
  BY <1>1, <1>2, <1>3, <1>4

\* Who is charged what he stores more, or less, stays covered.
LEMMA ChargedCovers ==
  ASSUME NEW b, Shape(b), Covered(b), NEW u \in Users, NEW n \in Int,
         NEW d, Shape(d), Charged(d, b, u, n), Stored(d, u) = Stored(b, u) + n,
         \A v \in Users \ {u} : Stored(d, v) = Stored(b, v)
  PROVE  Covered(d)
<1>1. b.used \in [Users -> Nat] /\ d.used \in [Users -> Nat] /\ b.tenantUsed = Total(b.used)
  BY DEF Shape, Covered
<1>2. Stored(b, u) \in Nat /\ Stored(d, u) \in Nat /\ Stored(b, u) <= b.used[u] /\ b.used[u] \in Nat
  BY <1>1, StoredIs DEF Covered
<1>3. Floor(b.used[u] + n) = b.used[u] + n
  <2>1. b.used[u] + n \in Int /\ b.used[u] + n >= 0
    BY <1>2
  <2> QED
    BY <2>1, FloorIs
<1>4. d.used[u] = b.used[u] + n /\ \A v \in Users \ {u} : d.used[v] = b.used[v]
  BY <1>1, <1>3 DEF Charged, With
<1>5. \A v \in Users : Stored(d, v) <= d.used[v]
  <2>1. Stored(d, u) <= d.used[u]
    BY <1>2, <1>4
  <2> QED
    BY <1>4, <2>1 DEF Covered
<1>6. Total(d.used) = Total(b.used) + n
  <2>1. IsFiniteSet(Users) /\ IsFiniteSet(Users \ {u})
    BY UserAssumption, FS_Subset
  <2>2. NatsOn(b.used, Users) /\ NatsOn(d.used, Users)
    BY <1>1 DEF NatsOn
  <2>3. Total(b.used) = b.used[u] + Sum(b.used, Users \ {u})
    BY <1>1, <2>1, <2>2, SumStep, TotalNat
  <2>4. Total(d.used) = d.used[u] + Sum(d.used, Users \ {u})
    BY <1>1, <2>1, <2>2, SumStep, TotalNat
  <2>5. NatsOn(b.used, Users \ {u})
    BY <2>2 DEF NatsOn
  <2>6. Sum(d.used, Users \ {u}) = Sum(b.used, Users \ {u})
    BY <1>4, <2>1, <2>5, SumSame
  <2>7. Sum(b.used, Users \ {u}) \in Nat
    BY <2>1, <2>5, SumNat
  <2> QED
    BY <1>2, <1>4, <2>3, <2>4, <2>6, <2>7
<1>7. d.tenantUsed = Total(d.used)
  <2>1. Total(b.used) \in Nat /\ Total(d.used) \in Nat
    BY <1>1, TotalNat
  <2>2. Floor(b.tenantUsed + n) = Total(d.used)
    <3>1. b.tenantUsed + n = Total(d.used)
      BY <1>1, <1>6
    <3> QED
      BY <2>1, <3>1, FloorIs
  <2> QED
    BY <2>2 DEF Charged
<1> QED
  BY <1>5, <1>7 DEF Covered

\* Tables with the same bytes of every user, or fewer, and the same counters.
LEMMA SameCovers ==
  ASSUME NEW b, Covered(b), NEW d, d.used = b.used, d.tenantUsed = b.tenantUsed,
         Shape(b), Shape(d), \A u \in Users : Stored(d, u) <= Stored(b, u)
  PROVE  Covered(d)
<1>1. \A u \in Users : Stored(b, u) \in Nat /\ Stored(d, u) \in Nat /\ b.used[u] \in Nat
  BY StoredIs DEF Shape
<1> QED
  BY <1>1 DEF Covered

LEMMA SameFilesStored ==
  ASSUME NEW b, NEW d, Shape(b), Shape(d), d.files = b.files, NEW u
  PROVE  Stored(d, u) = Stored(b, u)
<1>1. Mine(d, u) = Mine(b, u) /\ Sizes(d) = Sizes(b)
  BY DEF Mine, OwnedBy, Sizes
<1> QED
  BY <1>1, StoredIs

LEMMA OverwriteCovers ==
  ASSUME NEW b, Shape(b), Covered(b), NEW w, Held(b, w), w.req.op = "PUT", w.target # None,
         w.req.body \in Bodies, NEW d, Shape(d), Overwrites(d, b, w)
  PROVE  Covered(d)
<1> DEFINE t == w.target
           f == t.id
           owner == t.row.owner
           body == w.req.body
           row == FileRow(t.row.parent, t.row.name, body, Size[body], owner)
           n == PutDelta(t, body)
<1>1. f \in DOMAIN b.files /\ t.row = b.files[f] /\ owner \in Users /\ t.row.size \in Nat
  <2>1. IsFile(b, t) /\ t \in Handles(b)
    BY DEF Held, Chosen
  <2> QED
    BY <2>1, HandlesAre DEF IsFile, IsColl, File
<1>2. Size[body] \in Nat /\ n \in Int /\ n = Size[body] - t.row.size
  BY <1>1, SizeAssumption DEF PutDelta
<1>3. d.files = With(b.files, f, row) /\ Charged(d, b, owner, n)
  BY DEF Overwrites
<1>4. row.size = Size[body] /\ row.owner = owner
  BY DEF FileRow
<1>5. b.files[f].size = t.row.size /\ b.files[f].owner = owner
  BY <1>1
<1> HIDE DEF t, f, owner, body, row, n
<1>6. /\ DOMAIN d.files = DOMAIN b.files /\ d.files[f].owner = owner
      /\ \A g \in DOMAIN b.files \ {f} : d.files[g] = b.files[g]
  BY <1>1, <1>3, <1>4 DEF With
<1>7. \A v : Mine(d, v) = Mine(b, v)
  BY <1>5, <1>6 DEF Mine, OwnedBy
<1>8. Sizes(d)[f] = Size[body] /\ Sizes(b)[f] = t.row.size
  BY <1>1, <1>3, <1>4, <1>5, <1>6 DEF Sizes, With
<1>9. \A g \in DOMAIN b.files \ {f} : Sizes(d)[g] = Sizes(b)[g]
  BY <1>6 DEF Sizes
<1>10. Stored(d, owner) = Stored(b, owner) + n
  <2> DEFINE M == Mine(b, owner)
  <2>1. f \in M /\ M \subseteq DOMAIN b.files
    BY <1>1, <1>5 DEF Mine, OwnedBy
  <2>2. /\ IsFiniteSet(M) /\ NatsOn(Sizes(b), M) /\ NatsOn(Sizes(d), M)
        /\ Stored(b, owner) = Sum(Sizes(b), M) /\ Stored(d, owner) = Sum(Sizes(d), M)
    BY <1>7, StoredIs
  <2>3. IsFiniteSet(M \ {f}) /\ NatsOn(Sizes(b), M \ {f})
    BY <2>2, FS_Subset DEF NatsOn
  <2> HIDE DEF M
  <2>4. Sum(Sizes(d), M \ {f}) = Sum(Sizes(b), M \ {f})
    <3>1. \A g \in M \ {f} : Sizes(b)[g] = Sizes(d)[g]
      BY <1>9, <2>1
    <3> QED
      BY <2>3, <3>1, SumSame
  <2>5. Stored(b, owner) = Sizes(b)[f] + Sum(Sizes(b), M \ {f})
    BY <2>1, <2>2, SumStep
  <2>6. Stored(d, owner) = Sizes(d)[f] + Sum(Sizes(d), M \ {f})
    BY <2>1, <2>2, SumStep
  <2>7. Sum(Sizes(b), M \ {f}) \in Nat
    BY <2>3, SumNat
  <2> QED
    BY <1>1, <1>2, <1>8, <2>4, <2>5, <2>6, <2>7
<1>11. ASSUME NEW v \in Users \ {owner}
       PROVE  Stored(d, v) = Stored(b, v)
  <2>1. f \notin Mine(b, v) /\ Mine(b, v) \subseteq DOMAIN b.files
    BY <1>5, <1>11 DEF Mine, OwnedBy
  <2>2. \A g \in Mine(b, v) : Sizes(b)[g] = Sizes(d)[g]
    BY <1>9, <2>1
  <2> QED
    BY <1>7, <2>2, StoredIs, SumSame
<1> QED
  BY <1>1, <1>2, <1>3, <1>10, <1>11, ChargedCovers

LEMMA CreateCovers ==
  ASSUME NEW b, Shape(b), Covered(b), NEW row, row.owner \in Users, row.size \in Nat,
         NEW d, Shape(d), d.files = With(b.files, b.nextFile, row),
         Charged(d, b, row.owner, row.size)
  PROVE  Covered(d)
<1> DEFINE f == b.nextFile
           owner == row.owner
<1>1. f \notin DOMAIN b.files
  BY DEF Shape
<1>2. /\ DOMAIN d.files = DOMAIN b.files \cup {f} /\ d.files[f] = row
      /\ \A g \in DOMAIN b.files : d.files[g] = b.files[g]
  BY <1>1 DEF With
<1> HIDE DEF f
<1>3. Mine(d, owner) = Mine(b, owner) \cup {f} /\ f \notin Mine(b, owner)
  BY <1>1, <1>2 DEF Mine, OwnedBy
<1>4. \A v \in Users \ {owner} : Mine(d, v) = Mine(b, v)
  BY <1>1, <1>2 DEF Mine, OwnedBy
<1>5. Sizes(d)[f] = row.size /\ \A v : \A g \in Mine(b, v) : Sizes(b)[g] = Sizes(d)[g]
  BY <1>2 DEF Sizes, Mine, OwnedBy
<1>6. Stored(d, owner) = Stored(b, owner) + row.size
  <2>1. /\ IsFiniteSet(Mine(b, owner)) /\ NatsOn(Sizes(b), Mine(b, owner))
        /\ Stored(b, owner) = Sum(Sizes(b), Mine(b, owner)) /\ Stored(b, owner) \in Nat
        /\ NatsOn(Sizes(d), Mine(d, owner)) /\ Stored(d, owner) = Sum(Sizes(d), Mine(d, owner))
    BY StoredIs
  <2>2. Sum(Sizes(d), Mine(b, owner)) = Sum(Sizes(b), Mine(b, owner))
    BY <1>5, <2>1, SumSame
  <2>3. Stored(d, owner) = Sizes(d)[f] + Sum(Sizes(d), Mine(b, owner))
    BY <1>3, <2>1, SumAdded
  <2> QED
    BY <1>5, <2>1, <2>2, <2>3
<1>7. \A v \in Users \ {owner} : Stored(d, v) = Stored(b, v)
  BY <1>4, <1>5, StoredIs, SumSame
<1> QED
  BY <1>6, <1>7, ChargedCovers

\* What SumFileSizesByOwner sums, of a file and of a collection.
LEMMA SumsByOwner ==
  ASSUME NEW b, Shape(b), NEW t \in Handles(b), t # None, NEW u \in Users
  PROVE  /\ SumFileSizesByOwner(b, t)[u] = Sum(Sizes(b), OwnedBy(b, FilesIn(b, t), u))
         /\ FilesIn(b, t) \subseteq DOMAIN b.files
<1> DEFINE S == OwnedBy(b, FilesIn(b, t), u)
<1>1. CASE IsColl(b, t)
  <2>1. FilesIn(b, t) = FilesBelow(b, t.id) /\ FilesIn(b, t) \subseteq DOMAIN b.files
    BY <1>1, BelowAreFiles DEF FilesIn, IsColl
  <2>2. SumFileSizesByOwner(b, t)[u] = FileBytes(b, S)
    BY <1>1, <2>1 DEF SumFileSizesByOwner, IsColl
  <2>3. S \subseteq DOMAIN b.files
    BY <2>1 DEF OwnedBy
  <2> HIDE DEF S
  <2>4. IsFiniteSet(S) /\ NatsOn(Sizes(b), S)
    BY <2>3, Finite
  <2>5. FileBytes(b, S) = Sum(Sizes(b), S)
    BY <2>3, <2>4, FileBytesIs
  <2> QED
    BY <2>1, <2>2, <2>5 DEF S
<1>2. CASE IsFile(b, t) /\ t.id \in DOMAIN b.files /\ t = File(b, t.id)
  <2>1. FilesIn(b, t) = {t.id} /\ t.row = b.files[t.id]
    BY <1>2 DEF FilesIn, IsFile, File
  <2>2. SumFileSizesByOwner(b, t)[u] = IF u = t.row.owner THEN t.row.size ELSE 0
    BY <1>2 DEF SumFileSizesByOwner, IsFile
  <2>3. Sizes(b)[t.id] = t.row.size /\ t.row.size \in Nat
    BY <1>2, <2>1 DEF Sizes, IsFile
  <2>4. CASE u = t.row.owner
    <3>1. S = {t.id}
      BY <2>1, <2>4 DEF OwnedBy
    <3>2. IsFiniteSet({t.id}) /\ NatsOn(Sizes(b), {t.id}) /\ {t.id} \ {t.id} = {}
      BY <2>3, FS_Singleton DEF NatsOn
    <3>3. Sum(Sizes(b), {t.id}) = Sizes(b)[t.id] + Sum(Sizes(b), {t.id} \ {t.id})
      BY <3>2, SumStep
    <3>4. Sum(Sizes(b), {t.id} \ {t.id}) = 0
      BY <3>2, SumEmpty
    <3>5. Sum(Sizes(b), {t.id}) = t.row.size
      BY <2>3, <3>3, <3>4
    <3> QED
      BY <1>2, <2>1, <2>2, <2>4, <3>1, <3>5
  <2>5. CASE u # t.row.owner
    <3>1. S = {}
      BY <2>1, <2>5 DEF OwnedBy
    <3> QED
      BY <1>2, <2>1, <2>2, <2>5, <3>1, SumEmpty
  <2> QED
    BY <2>4, <2>5
<1> QED
  BY <1>1, <1>2, HandlesAre

LEMMA ClearedStored ==
  ASSUME NEW b, Shape(b), NEW t, FilesIn(b, t) \subseteq DOMAIN b.files,
         NEW c, Shape(c), Clears(c, b, t), NEW u \in Users
  PROVE  /\ Stored(b, u) = Stored(c, u) + Sum(Sizes(b), OwnedBy(b, FilesIn(b, t), u))
         /\ Sum(Sizes(b), OwnedBy(b, FilesIn(b, t), u)) \in Nat
<1> DEFINE gone == OwnedBy(b, FilesIn(b, t), u)
<1>1. DOMAIN c.files = DOMAIN b.files \ FilesIn(b, t) /\ \A f \in DOMAIN c.files : c.files[f] = b.files[f]
  BY DEF Clears, Kept
<1>2. Mine(b, u) = Mine(c, u) \cup gone /\ Mine(c, u) \cap gone = {}
  BY <1>1 DEF Mine, OwnedBy
<1>3. gone \subseteq DOMAIN b.files
  BY DEF OwnedBy
<1>4. \A f \in Mine(c, u) : Sizes(c)[f] = Sizes(b)[f]
  BY <1>1 DEF Mine, OwnedBy, Sizes
<1> HIDE DEF gone
<1>5. IsFiniteSet(gone) /\ NatsOn(Sizes(b), gone)
  BY <1>3, Finite
<1>6. /\ IsFiniteSet(Mine(c, u)) /\ NatsOn(Sizes(c), Mine(c, u))
      /\ Stored(c, u) = Sum(Sizes(c), Mine(c, u)) /\ Stored(c, u) \in Nat
      /\ NatsOn(Sizes(b), Mine(b, u)) /\ Stored(b, u) = Sum(Sizes(b), Mine(b, u))
  BY StoredIs
<1>7. Sum(Sizes(c), Mine(c, u)) = Sum(Sizes(b), Mine(c, u))
  BY <1>4, <1>6, SumSame
<1>8. Sum(Sizes(b), Mine(b, u)) = Sum(Sizes(b), Mine(c, u)) + Sum(Sizes(b), gone)
  BY <1>2, <1>5, <1>6, SumUnion
<1>9. Sum(Sizes(b), gone) \in Nat
  BY <1>5, SumNat
<1> QED
  BY <1>6, <1>7, <1>8, <1>9 DEF gone

\* Every owner is given back the bytes of his that go.
LEMMA ClearCovers ==
  ASSUME NEW b, Shape(b), Covered(b), NEW t \in Handles(b), t # None, NEW c, Shape(c),
         Clears(c, b, t), NEW sums, sums = SumFileSizesByOwner(b, t), CreditedBy(c, b, sums)
  PROVE  Covered(c)
<1>1. sums \in [Users -> Nat]
  <2>1. IsHandle(b, t)
    BY HandlesAre DEF IsHandle
  <2> QED
    BY <2>1, SumsAre
<1>2. \A u \in Users : /\ Stored(b, u) = Stored(c, u) + sums[u]
                       /\ Stored(b, u) \in Nat /\ Stored(c, u) \in Nat /\ sums[u] \in Nat
                       /\ b.used[u] \in Nat /\ Stored(b, u) <= b.used[u]
  BY <1>1, SumsByOwner, ClearedStored, StoredIs DEF Shape, Covered
<1>3. \A u \in Users : c.used[u] = b.used[u] - sums[u]
  <2> TAKE u \in Users
  <2>1. b.used[u] - sums[u] \in Int /\ b.used[u] - sums[u] >= 0
    BY <1>2
  <2>2. c.used[u] = Floor(b.used[u] - sums[u])
    BY DEF CreditedBy
  <2> QED
    BY <2>1, <2>2, FloorIs
<1>4. \A u \in Users : Stored(c, u) <= c.used[u]
  BY <1>2, <1>3
<1>5. Total(b.used) = Total(c.used) + Total(sums)
  <2>1. b.used \in [Users -> Nat] /\ c.used \in [Users -> Nat] /\ IsFiniteSet(Users)
    BY UserAssumption DEF Shape
  <2>2. \A u \in Users : b.used[u] = c.used[u] + sums[u]
    <3> TAKE u \in Users
    <3>1. b.used[u] \in Nat /\ c.used[u] \in Nat /\ sums[u] \in Nat
      BY <1>1, <2>1
    <3> QED
      BY <1>3, <3>1
  <2>3. /\ Total(b.used) = Sum(b.used, Users) /\ Total(c.used) = Sum(c.used, Users)
        /\ Total(sums) = Sum(sums, Users)
    BY <1>1, <2>1, TotalNat
  <2>4. NatsOn(c.used, Users) /\ NatsOn(sums, Users)
    BY <1>1, <2>1 DEF NatsOn
  <2> QED
    BY <2>1, <2>2, <2>3, <2>4, SumOfParts
<1>6. c.tenantUsed = Total(c.used)
  <2>1. c.tenantUsed = Floor(b.tenantUsed - Total(sums)) /\ b.tenantUsed = Total(b.used)
    BY DEF CreditedBy, Covered
  <2>2. Total(c.used) \in Nat /\ Total(sums) \in Nat
    BY <1>1, TotalNat DEF Shape
  <2>3. b.tenantUsed - Total(sums) = Total(c.used)
    BY <1>5, <2>1, <2>2
  <2> QED
    BY <2>1, <2>2, <2>3, FloorIs
<1> QED
  BY <1>4, <1>6 DEF Covered

LEMMA MoveCovers ==
  ASSUME NEW b, Shape(b), Covered(b), NEW w, Held(b, w), NEW c, Shape(c), NEW d, Shape(d),
         Moves(d, c, b, w)
  PROVE  Covered(d)
<1> DEFINE t == w.target
<1>1. \A u \in Users : Stored(c, u) <= Stored(b, u)
  <2> TAKE u \in Users
  <2>1. CASE w.existing = None
    <3>1. c = b /\ Stored(b, u) \in Nat
      BY <2>1, StoredIs DEF Moves, Cleared
    <3> QED
      BY <3>1
  <2>2. CASE w.existing # None
    <3>1. Clears(c, b, w.existing) /\ w.existing \in Handles(b)
      BY <2>2 DEF Moves, Cleared, Held
    <3>2. FilesIn(b, w.existing) \subseteq DOMAIN b.files
      BY <2>2, <3>1, SumsByOwner
    <3>3. Stored(b, u) \in Nat /\ Stored(c, u) \in Nat
      BY StoredIs
    <3>4. PICK n \in Nat : Stored(b, u) = Stored(c, u) + n
      BY <3>1, <3>2, ClearedStored
    <3> QED
      BY <3>3, <3>4
  <2> QED
    BY <2>1, <2>2
<1>2. \A u \in Users : Stored(d, u) = Stored(c, u)
  <2> TAKE u \in Users
  <2>1. CASE t.kind = "file" /\ t.id \in DOMAIN c.files
    <3> DEFINE row == FileRow(w.parent.id, Last(w.req.dest), c.files[t.id].etag, c.files[t.id].size,
                              c.files[t.id].owner)
    <3>1. d.files = With(c.files, t.id, row)
      BY <2>1 DEF Moves
    <3>2. row.size = c.files[t.id].size /\ row.owner = c.files[t.id].owner
      BY DEF FileRow
    <3> HIDE DEF row, t
    <3>3. /\ DOMAIN d.files = DOMAIN c.files
          /\ \A f \in DOMAIN c.files : /\ d.files[f].size = c.files[f].size
                                       /\ d.files[f].owner = c.files[f].owner
      BY <2>1, <3>1, <3>2 DEF With
    <3>4. Mine(d, u) = Mine(c, u) /\ \A f \in Mine(c, u) : Sizes(c)[f] = Sizes(d)[f]
      BY <3>3 DEF Mine, OwnedBy, Sizes
    <3> QED
      BY <3>4, StoredIs, SumSame
  <2>2. CASE ~(t.kind = "file" /\ t.id \in DOMAIN c.files)
    <3>1. d.files = c.files
      BY <2>2 DEF Moves
    <3> QED
      BY <3>1, SameFilesStored
  <2> QED
    BY <2>1, <2>2
<1>3. d.used = b.used /\ d.tenantUsed = b.tenantUsed
  BY DEF Moves
<1>4. \A u \in Users : Stored(d, u) <= Stored(b, u)
  BY <1>1, <1>2
<1> QED
  BY <1>3, <1>4, SameCovers

LEMMA TotalOfFile ==
  ASSUME NEW c, NEW t, t.kind = "file", t.row.owner \in Users, t.row.size \in Nat
  PROVE  Total(SumFileSizesByOwner(c, t)) = t.row.size
<1> DEFINE sums == SumFileSizesByOwner(c, t)
           owner == t.row.owner
           size == t.row.size
<1>1. sums = [u \in Users |-> IF u = owner THEN size ELSE 0]
  BY DEF SumFileSizesByOwner
<1>2. owner \in Users /\ size \in Nat
  OBVIOUS
<1> HIDE DEF sums, owner, size
<1>3. sums \in [Users -> Nat] /\ sums[owner] = size
  BY <1>1, <1>2
<1>4. Total(sums) = Sum(sums, Users) /\ NatsOn(sums, Users)
  BY <1>3, TotalNat
<1>5. IsFiniteSet(Users) /\ IsFiniteSet(Users \ {owner})
  BY UserAssumption, FS_Subset
<1>6. Sum(sums, Users) = sums[owner] + Sum(sums, Users \ {owner})
  BY <1>2, <1>4, <1>5, SumStep
<1>7. Sum(sums, Users \ {owner}) = 0
  <2> DEFINE z == [u \in Users \ {owner} |-> 0]
             S == Users \ {owner}
  <2>1. NatsOn(z, S) /\ \A u \in S : z[u] = sums[u]
    BY <1>1 DEF NatsOn
  <2>2. \A u \in S : z[u] = z[u] + z[u]
    OBVIOUS
  <2> HIDE DEF z, S
  <2>3. IsFiniteSet(S)
    BY <1>5 DEF S
  <2>4. Sum(z, S) = Sum(z, S) + Sum(z, S)
    BY <2>1, <2>2, <2>3, SumOfParts
  <2>5. Sum(z, S) \in Nat
    BY <2>1, <2>3, SumNat
  <2>6. Sum(z, S) = Sum(sums, S)
    BY <2>1, <2>3, SumSame
  <2>7. Sum(z, S) = 0
    <3>1. \A n \in Nat : n = n + n => n = 0
      OBVIOUS
    <3> QED
      BY <2>4, <2>5, <3>1
  <2> QED
    BY <2>6, <2>7 DEF S
<1>8. Total(sums) = size
  BY <1>2, <1>3, <1>4, <1>6, <1>7
<1> QED
  BY <1>8 DEF sums, size

LEMMA TotalOfColl ==
  ASSUME NEW c, Shape(c), NEW t, t.kind = "coll"
  PROVE  Total(SumFileSizesByOwner(c, t)) = Sum(Sizes(c), FilesBelow(c, t.id))
<1> DEFINE S == FilesBelow(c, t.id)
           of == [f \in DOMAIN c.files |-> c.files[f].owner]
           sums == SumFileSizesByOwner(c, t)
<1>1. S \subseteq DOMAIN c.files
  BY BelowAreFiles
<1>2. IsFiniteSet(S) /\ NatsOn(Sizes(c), S)
  BY <1>1, Finite
<1>3. sums = [u \in Users |-> FileBytes(c, OwnedBy(c, S, u))]
  BY DEF SumFileSizesByOwner
<1>4. \A f \in S : of[f] \in Users
  BY <1>1 DEF Shape, FileRowOK
<1> HIDE DEF S, sums
<1>5. \A u \in Users : FileBytes(c, OwnedBy(c, S, u)) = Sum(Sizes(c), {f \in S : of[f] = u})
  <2> TAKE u \in Users
  <2>1. OwnedBy(c, S, u) = {f \in S : of[f] = u} /\ OwnedBy(c, S, u) \subseteq DOMAIN c.files
    BY <1>1 DEF OwnedBy
  <2>2. IsFiniteSet(OwnedBy(c, S, u)) /\ NatsOn(Sizes(c), OwnedBy(c, S, u))
    BY <2>1, Finite
  <2>3. FileBytes(c, OwnedBy(c, S, u)) = Sum(Sizes(c), OwnedBy(c, S, u))
    BY <2>1, <2>2, FileBytesIs
  <2> QED
    BY <2>1, <2>3
<1> HIDE DEF of
<1>6. sums = [u \in Users |-> Sum(Sizes(c), {f \in S : of[f] = u})]
  BY <1>3, <1>5
<1>7. Sum(sums, Users) = Sum(Sizes(c), S)
  BY <1>2, <1>4, <1>6, UserAssumption, SumByOwner
<1>8. Total(sums) = Sum(sums, Users)
  <2>1. DOMAIN sums = Users
    BY <1>3
  <2> QED
    BY <2>1, TotalIs
<1> QED
  BY <1>7, <1>8 DEF S, sums

LEMMA FilesBelowSame ==
  ASSUME NEW d, IsFiniteSet(DOMAIN d.colls), NEW e, e.colls = d.colls, e.files = d.files, NEW c
  PROVE  FilesBelow(e, c) = FilesBelow(d, c)
<1>1. Subtree(e, c) = Subtree(d, c)
  BY SubtreeSame
<1>2. \A x : SubFiles(e, x) = SubFiles(d, x)
  BY DEF SubFiles
<1> QED
  BY <1>1, <1>2 DEF FilesBelow

\* The copies are the requester's, and as large as what was copied.
LEMMA CopiedStored ==
  ASSUME NEW a, Shape(a), NEW e, Shape(e), NEW c \in 1..(a.nextColl - 1), NEW parent, NEW name,
         NEW user \in Users, NEW recursive, Copied(e, a, c, parent, name, user, recursive)
  PROVE  /\ Stored(e, user) = Stored(a, user) + Sum(Sizes(a), CopiedFiles(a, c, recursive))
         /\ Sum(Sizes(a), CopiedFiles(a, c, recursive)) \in Nat
         /\ \A v \in Users \ {user} : Stored(e, v) = Stored(a, v)
<1> DEFINE S == CopiedFiles(a, c, recursive)
           m == [f \in S |-> NewFile(a, c, recursive, f)]
           N == NewFiles(a, c, recursive)
<1>1. /\ S \subseteq DOMAIN a.files /\ N \cap DOMAIN a.files = {}
      /\ \A f, g \in S : m[f] = m[g] => f = g
  BY NewRows
<1>2. N = {m[f] : f \in S}
  BY DEF NewFiles
<1>3. DOMAIN e.files = DOMAIN a.files \cup N /\ \A g \in DOMAIN a.files : e.files[g] = a.files[g]
  BY DEF Copied
<1>4. \A f \in S : e.files[m[f]].size = a.files[f].size /\ e.files[m[f]].owner = user
  <2>1. \A p, n, h, s, u : FileRow(p, n, h, s, u).size = s /\ FileRow(p, n, h, s, u).owner = u
    BY DEF FileRow
  <2> TAKE f \in S
  <2>2. PICK p, n, h : e.files[NewFile(a, c, recursive, f)] = FileRow(p, n, h, a.files[f].size, user)
    BY DEF Copied
  <2>3. m[f] = NewFile(a, c, recursive, f)
    OBVIOUS
  <2> HIDE DEF m, S
  <2> QED
    BY <2>1, <2>2, <2>3
<1> HIDE DEF S, m, N
<1>5. IsFiniteSet(S) /\ NatsOn(Sizes(a), S)
  BY <1>1, Finite
<1>6. \A f \in S : Sizes(e)[m[f]] = Sizes(a)[f]
  BY <1>1, <1>2, <1>3, <1>4 DEF Sizes
<1>7. IsFiniteSet(N) /\ Sum(Sizes(e), N) = Sum(Sizes(a), S)
  BY <1>1, <1>2, <1>5, <1>6, SumRenamed
<1>8. \A g \in N : e.files[g].owner = user
  BY <1>2, <1>4
<1>9. Mine(e, user) = Mine(a, user) \cup N /\ Mine(a, user) \cap N = {}
  BY <1>1, <1>3, <1>8 DEF Mine, OwnedBy
<1>10. \A v \in Users \ {user} : Mine(e, v) = Mine(a, v)
  BY <1>3, <1>8 DEF Mine, OwnedBy
<1>11. \A v : \A g \in Mine(a, v) : Sizes(a)[g] = Sizes(e)[g]
  BY <1>3 DEF Mine, OwnedBy, Sizes
<1>12. Sum(Sizes(a), S) \in Nat
  BY <1>5, SumNat
<1>13. Stored(e, user) = Stored(a, user) + Sum(Sizes(a), S)
  <2>1. /\ IsFiniteSet(Mine(a, user)) /\ NatsOn(Sizes(a), Mine(a, user))
        /\ Stored(a, user) = Sum(Sizes(a), Mine(a, user))
        /\ NatsOn(Sizes(e), Mine(e, user)) /\ Stored(e, user) = Sum(Sizes(e), Mine(e, user))
    BY StoredIs
  <2>2. Sum(Sizes(a), Mine(a, user)) = Sum(Sizes(e), Mine(a, user))
    BY <1>11, <2>1, SumSame
  <2>3. Sum(Sizes(e), Mine(e, user)) = Sum(Sizes(e), Mine(a, user)) + Sum(Sizes(e), N)
    BY <1>7, <1>9, <2>1, SumUnion
  <2> QED
    BY <1>7, <2>1, <2>2, <2>3
<1>14. \A v \in Users \ {user} : Stored(e, v) = Stored(a, v)
  BY <1>10, <1>11, StoredIs, SumSame
<1> QED
  BY <1>12, <1>13, <1>14 DEF S

LEMMA CopyCovers ==
  ASSUME NEW b, Shape(b), Covered(b), NEW w, Held(b, w), w.req.op = "COPY", w.req.user \in Users,
         w.sums = SumsNow(b, w),
         NEW c, Shape(c), NEW a, Shape(a), NEW e, Shape(e), NEW added \in Nat,
         NEW d, Shape(d), Copies(d, e, a, c, b, w, added)
  PROVE  Covered(d)
<1> DEFINE t == w.target
           user == w.req.user
           recursive == w.req.recursive
           name == Last(w.req.dest)
<1>1. Covered(c)
  <2>1. CASE w.existing = None
    BY <2>1 DEF Copies
  <2>2. CASE w.existing # None
    <3>1. /\ Clears(c, b, w.existing) /\ CreditedBy(c, b, w.sums) /\ w.existing \in Handles(b)
          /\ w.sums = SumFileSizesByOwner(b, w.existing)
      BY <2>2 DEF Copies, Cleared, Held, SumsNow, Summed
    <3> QED
      BY <2>2, <3>1, ClearCovers
  <2> QED
    BY <2>1, <2>2
<1>2. /\ SameRows(a, c) /\ Charged(a, c, user, added)
      /\ d.files = e.files /\ d.used = e.used /\ d.tenantUsed = e.tenantUsed
  BY DEF Copies, Relogs
<1>3. t.kind = "coll" /\ ~recursive => added = 0
  BY DEF Copies
<1>4. ~(t.kind = "coll" /\ ~recursive) => added = Total(SumFileSizesByOwner(c, t))
  <2>1. CASE w.existing = None
    <3>1. c = b /\ w.sums = SumFileSizesByOwner(b, t)
      BY <2>1 DEF Copies, SumsNow, Summed
    <3> QED
      BY <2>1, <3>1 DEF Copies
  <2>2. CASE w.existing # None
    BY <2>2 DEF Copies
  <2> QED
    BY <2>1, <2>2
<1>5. \A u \in Users : Stored(a, u) = Stored(c, u)
  BY <1>2, SameFilesStored DEF SameRows
<1>6. \A u \in Users : Stored(d, u) = Stored(e, u)
  BY <1>2, SameFilesStored
<1>7. CASE t.kind = "coll"
  <2>1. /\ Copied(e, a, t.id, w.parent.id, name, user, recursive)
        /\ e.used = a.used /\ e.tenantUsed = a.tenantUsed
    BY <1>7 DEF Copies, Copied
  <2>2. t.id \in 1..(a.nextColl - 1)
    <3>1. IsColl(b, t)
      BY <1>7 DEF Held, Chosen, IsHandle, IsFile
    <3>2. a.nextColl = b.nextColl
      BY DEF Copies, SameRows, Cleared, Clears
    <3> QED
      BY <3>1, <3>2 DEF IsColl
  <2>3. Sum(Sizes(a), CopiedFiles(a, t.id, recursive)) = added
    <3>1. CASE recursive
      <4>1. IsFiniteSet(DOMAIN c.colls) /\ a.colls = c.colls /\ a.files = c.files
        BY <1>2, Finite DEF SameRows
      <4>2. CopiedFiles(a, t.id, recursive) = FilesBelow(c, t.id) /\ Sizes(a) = Sizes(c)
        BY <3>1, <4>1, FilesBelowSame DEF CopiedFiles, Sizes
      <4>3. Total(SumFileSizesByOwner(c, t)) = Sum(Sizes(c), FilesBelow(c, t.id))
        BY <1>7, TotalOfColl
      <4> QED
        BY <1>4, <3>1, <4>2, <4>3
    <3>2. CASE ~recursive
      <4>1. CopiedFiles(a, t.id, recursive) = {}
        BY <3>2 DEF CopiedFiles
      <4> QED
        BY <1>3, <1>7, <3>2, <4>1, SumEmpty
    <3> QED
      BY <3>1, <3>2
  <2> HIDE DEF t, user, recursive, name
  <2>4. /\ Stored(e, user) = Stored(a, user) + added
        /\ \A v \in Users \ {user} : Stored(e, v) = Stored(a, v)
    <3>1. user \in Users
      BY DEF user
    <3> QED
      BY <2>1, <2>2, <2>3, <3>1, CopiedStored
  <2>5. Charged(d, c, user, added)
    BY <1>2, <2>1 DEF Charged
  <2>6. /\ user \in Users /\ added \in Int
        /\ Stored(d, user) = Stored(c, user) + added
        /\ \A v \in Users \ {user} : Stored(d, v) = Stored(c, v)
    BY <1>5, <1>6, <2>4 DEF user
  <2> QED
    BY <1>1, <2>5, <2>6, ChargedCovers
<1>8. CASE t.kind # "coll"
  <2>1. IsFile(b, t)
    BY <1>8 DEF Held, Chosen, IsHandle, IsColl
  <2> DEFINE row == FileRow(w.parent.id, name, a.content[t.id], t.row.size, user)
  <2>2. e.files = With(a.files, a.nextFile, row) /\ e.used = a.used /\ e.tenantUsed = a.tenantUsed
    BY <1>8 DEF Copies
  <2>3. added = t.row.size
    BY <1>4, <1>8, <2>1, TotalOfFile DEF IsFile
  <2>4. row.owner = user /\ row.size = t.row.size
    BY DEF FileRow
  <2>5. row.owner \in Users /\ row.size \in Nat
    BY <2>1, <2>4 DEF IsFile
  <2>6. d.files = With(c.files, c.nextFile, row)
    BY <1>2, <2>2 DEF SameRows
  <2> HIDE DEF row, t, user
  <2>7. Charged(d, c, row.owner, row.size)
    BY <1>2, <2>2, <2>3, <2>4 DEF Charged
  <2> QED
    BY <1>1, <2>5, <2>6, <2>7, CreateCovers
<1> QED
  BY <1>7, <1>8

LEMMA StepCovers ==
  ASSUME IInv, IInv', NEW p \in Procs, Step(p), ~raced', raced \/ Covered(db)
  PROVE  Covered(db')
<1>1. CASE Lookup(p) \/ SumFileSizes(p) \/ RollBack(p)
  BY <1>1, TablesStay
<1>2. Shape(db) /\ Shape(db')
  BY DEF IInv
<1>3. ASSUME NEW w, Ran(p, w)
      PROVE  /\ Covered(db) /\ Held(db, w) /\ w.req.user \in Users /\ w.req.body \in Bodies
             /\ w.pc = "summed" => w.sums = SumsNow(db, w)
  <2>1. w.req \in Requests
    BY <1>3 DEF Ran, AtWork
  <2> QED
    BY <1>3, <2>1, RanFresh, RequestAssumption
<1>4. CASE PutOverwrite(p)
  <2>1. PICK w : /\ Ran(p, w) /\ w.req.op = "PUT" /\ w.target # None /\ Overwrites(db', db, w)
    BY <1>4, PutOverwriteMakes
  <2>2. Held(db, w) /\ Covered(db) /\ w.req.body \in Bodies
    BY <1>3, <2>1
  <2> QED
    BY <1>2, <2>1, <2>2, OverwriteCovers
<1>5. CASE PutCreate(p)
  <2>1. PICK w : Ran(p, w) /\ CreatesFile(db', db, w)
    BY <1>5, PutCreateMakes
  <2>2. Covered(db) /\ w.req.user \in Users /\ w.req.body \in Bodies
    BY <1>3, <2>1
  <2>3. PICK row : row = FileRow(w.parent.id, Last(w.req.path), w.req.body, Size[w.req.body], w.req.user)
    OBVIOUS
  <2>4. row.owner = w.req.user /\ row.size = Size[w.req.body]
    BY <2>3 DEF FileRow
  <2>5. db'.files = With(db.files, db.nextFile, row) /\ Charged(db', db, row.owner, row.size)
    BY <2>1, <2>3, <2>4 DEF CreatesFile
  <2>6. row.owner \in Users /\ row.size \in Nat
    BY <2>2, <2>4, SizeAssumption
  <2> QED
    BY <1>2, <2>2, <2>5, <2>6, CreateCovers
<1>6. CASE Mkcol(p)
  <2>1. PICK w : Ran(p, w) /\ CreatesColl(db', db, w)
    BY <1>6, MkcolMakes
  <2>2. /\ Covered(db) /\ db'.files = db.files
        /\ db'.used = db.used /\ db'.tenantUsed = db.tenantUsed
    BY <1>3, <2>1 DEF CreatesColl
  <2>3. \A u \in Users : Stored(db', u) <= Stored(db, u)
    <3> TAKE u \in Users
    <3>1. Stored(db', u) = Stored(db, u) /\ Stored(db, u) \in Nat
      BY <1>2, <2>2, SameFilesStored, StoredIs
    <3> QED
      BY <3>1
  <2> QED
    BY <1>2, <2>2, <2>3, SameCovers
<1>7. CASE Delete(p)
  <2>1. PICK w, c : /\ Ran(p, w) /\ w.req.op = "DELETE" /\ w.pc = "summed"
                    /\ Keeps(c, db) /\ Deletes(db', c, db, w)
    BY <1>7, DeleteActionMakes
  <2>2. Covered(db) /\ Held(db, w) /\ w.sums = SumsNow(db, w)
    BY <1>3, <2>1
  <2>3. w.target \in Handles(db) /\ w.target # None /\ w.sums = SumFileSizesByOwner(db, w.target)
    BY <2>1, <2>2 DEF Held, Chosen, IsHandle, IsColl, IsFile, None, SumsNow, Summed
  <2>4. Shape(c) /\ Clears(c, db, w.target) /\ CreditedBy(c, db, w.sums)
    BY <2>1 DEF Keeps, Deletes
  <2>5. Covered(c)
    BY <1>2, <2>2, <2>3, <2>4, ClearCovers
  <2>6. db'.files = c.files /\ db'.used = c.used /\ db'.tenantUsed = c.tenantUsed
    BY <2>1 DEF Deletes, Relogs
  <2>7. \A u \in Users : Stored(db', u) <= Stored(c, u)
    <3> TAKE u \in Users
    <3>1. Stored(db', u) = Stored(c, u) /\ Stored(c, u) \in Nat
      BY <1>2, <2>4, <2>6, SameFilesStored, StoredIs
    <3> QED
      BY <3>1
  <2> QED
    BY <1>2, <2>4, <2>5, <2>6, <2>7, SameCovers
<1>8. CASE Copy(p)
  <2>1. PICK w, c, a, e, added :
           /\ Ran(p, w) /\ w.req.op = "COPY" /\ w.pc = "summed"
           /\ Keeps(c, db) /\ Keeps(a, c) /\ Keeps(e, a) /\ added \in Nat
           /\ Copies(db', e, a, c, db, w, added)
    BY <1>8, CopyActionMakes
  <2>2. Covered(db) /\ Held(db, w) /\ w.req.user \in Users /\ w.sums = SumsNow(db, w)
    BY <1>3, <2>1
  <2>3. Shape(c) /\ Shape(a) /\ Shape(e)
    BY <2>1 DEF Keeps
  <2> QED
    BY <1>2, <2>1, <2>2, <2>3, CopyCovers
<1>9. CASE Move(p)
  <2>1. PICK w, c : Ran(p, w) /\ Keeps(c, db) /\ Moves(db', c, db, w)
    BY <1>9, MoveMakes
  <2>2. Covered(db) /\ Held(db, w) /\ Shape(c)
    BY <1>3, <2>1 DEF Keeps
  <2> QED
    BY <1>2, <2>1, <2>2, MoveCovers
<1> QED
  BY <1>1, <1>4, <1>5, <1>6, <1>7, <1>8, <1>9 DEF Step

\* Unless some request committed on a stale lookup, every user is charged for
\* at least the bytes he stores, and the tenant for what its users are charged:
\* PUT charges the owner the difference, COPY the requester, DELETE and an
\* overwriting COPY credit every owner, an overwriting MOVE nobody.
THEOREM StoredBytesAreCharged == Spec => []QuotaCoversStored
<1>1. Init => IInv /\ QuotaCoversStored
  <2> SUFFICES ASSUME Init
               PROVE  Covered(db)
    BY Starts DEF QuotaCoversStored, StoredBytes, Covered, Stored, Mine
  <2>1. Shape(db) /\ DOMAIN db.files = {} /\ db.used = [u \in Users |-> 0] /\ db.tenantUsed = 0
    BY Starts DEF IInv, Init, InitWith, NewTenant
  <2>2. \A u \in Users : Stored(db, u) = 0
    <3> TAKE u \in Users
    <3>1. Mine(db, u) = {}
      BY <2>1 DEF Mine, OwnedBy
    <3> QED
      BY <2>1, <3>1, StoredIs, SumEmpty
  <2>3. Total(db.used) = 0
    <3> DEFINE z == db.used
    <3>1. z \in [Users -> Nat] /\ \A u \in Users : z[u] = z[u] + z[u]
      BY <2>1
    <3> HIDE DEF z
    <3>2. Total(z) \in Nat /\ Total(z) = Sum(z, Users) /\ NatsOn(z, Users)
      BY <3>1, TotalNat
    <3>3. Sum(z, Users) = Sum(z, Users) + Sum(z, Users)
      BY <3>1, <3>2, UserAssumption, SumOfParts
    <3>4. \A n \in Nat : n = n + n => n = 0
      OBVIOUS
    <3>5. Total(z) = 0
      BY <3>2, <3>3, <3>4
    <3> QED
      BY <3>5 DEF z
  <2> QED
    BY <2>1, <2>2, <2>3 DEF Covered
<1>2. IInv /\ QuotaCoversStored /\ [Next]_vars => IInv' /\ QuotaCoversStored'
  <2> SUFFICES ASSUME IInv, QuotaCoversStored, [Next]_vars
               PROVE  QuotaCoversStored'
    BY StepKeeps
  <2>1. raced \/ Covered(db)
    BY DEF QuotaCoversStored, StoredBytes, Covered, Stored, Mine
  <2>2. IInv'
    BY StepKeeps
  <2>3. ASSUME NEW p \in Procs, Step(p), ~raced'
        PROVE  Covered(db')
    BY <2>1, <2>2, <2>3, StepCovers
  <2>4. raced' \/ Covered(db')
    <3>1. CASE Next
      BY <3>1, <2>3 DEF Next
    <3>2. CASE UNCHANGED vars
      BY <3>2, <2>1 DEF vars
    <3> QED
      BY <3>1, <3>2
  <2> QED
    BY <2>4 DEF QuotaCoversStored, StoredBytes, Covered, Stored, Mine
<1> QED
  BY <1>1, <1>2, PTL DEF Spec

-----------------------------------------------------------------------------
(* A place is a name in a collection.  While no place has two holders, a   *)
(* path has one meaning, and in any tables a row one path.                 *)

One(d, c, n) == \A g, h \in Holders(d, c, n) : g = h
Unique(d) == \A c \in DOMAIN d.colls : \A n : One(d, c, n)

LEMMA HolderIs ==
  ASSUME NEW d, NEW c, NEW n, NEW h \in Holders(d, c, n)
  PROVE  h \in Handles(d) /\ h # None /\ h.row.parent = c /\ h.row.name = n
BY DEF Holders, Handles, SubColls, SubFiles, Coll, File, None

LEMMA ChildrenAre ==
  ASSUME NEW d, NEW c, NEW n, NEW t \in ChildrenAt(d, c, n)
  PROVE  IF t = None THEN Holders(d, c, n) = {} ELSE t \in Holders(d, c, n)
<1> DEFINE colls == {x \in SubColls(d, c) : d.colls[x].name = n}
           files == {f \in SubFiles(d, c) : d.files[f].name = n}
<1>1. Holders(d, c, n) = {Coll(d, x) : x \in colls} \cup {File(d, f) : f \in files}
  BY DEF Holders
<1>2. t \in CASE colls # {} -> {Coll(d, x) : x \in colls}
              [] colls = {} /\ files # {} -> {File(d, f) : f \in files}
              [] OTHER -> {None}
  BY DEF ChildrenAt
<1>3. \A x : Coll(d, x) # None /\ File(d, x) # None
  BY DEF Coll, File, None
<1> HIDE DEF colls, files
<1>4. CASE colls # {}
  BY <1>1, <1>2, <1>3, <1>4
<1>5. CASE colls = {} /\ files # {}
  BY <1>1, <1>2, <1>3, <1>5
<1>6. CASE colls = {} /\ files = {}
  BY <1>1, <1>2, <1>6
<1> QED
  BY <1>4, <1>5, <1>6

LEMMA ResolveOne ==
  ASSUME NEW d, Shape(d), Unique(d)
  PROVE  \A q \in Seq(STRING) : \A g, h \in Resolve(d, q) : g = h
<1> DEFINE T == {n \in Nat : \A q \in Seq(STRING) :
                               Len(q) = n => \A g, h \in Resolve(d, q) : g = h}
<1>1. Root \in DOMAIN d.colls
  BY DEF Shape
<1>2. 0 \in T
  <2>1. \A q \in Seq(STRING) : Len(q) = 0 => q = <<>>
    OBVIOUS
  <2> QED
    BY <1>1, <2>1, ResolveRoot
<1>3. ASSUME NEW n \in T
      PROVE  n + 1 \in T
  <2> SUFFICES ASSUME NEW q \in Seq(STRING), Len(q) = n + 1, NEW g \in Resolve(d, q), NEW h \in Resolve(d, q)
               PROVE  g = h
    OBVIOUS
  <2>1. q # <<>> /\ n \in Nat
    OBVIOUS
  <2>2. Front(q) \in Seq(STRING) /\ Len(Front(q)) = n
    BY <2>1, FrontOf
  <2>3. Resolve(d, q) = OneDown(d, Last(q), Resolve(d, Front(q)))
    BY <1>1, <2>1, ResolveStep
  <2>4. \A s, t \in Resolve(d, Front(q)) : s = t
    BY <2>2
  <2> HIDE DEF T
  <2>5. PICK t \in Resolve(d, Front(q)) :
          /\ g \in IF t.kind = "coll" THEN ChildrenAt(d, t.id, Last(q)) ELSE {None}
          /\ h \in IF t.kind = "coll" THEN ChildrenAt(d, t.id, Last(q)) ELSE {None}
    BY <2>3, <2>4 DEF OneDown
  <2>6. CASE t.kind = "coll"
    <3>1. t \in Handles(d)
      BY <2>2, <2>5, ResolveFinds
    <3>2. t.id \in DOMAIN d.colls
      BY <2>6, <3>1, HandlesAre DEF None, IsFile
    <3>3. One(d, t.id, Last(q))
      BY <3>2 DEF Unique
    <3>4. g \in ChildrenAt(d, t.id, Last(q)) /\ h \in ChildrenAt(d, t.id, Last(q))
      BY <2>5, <2>6
    <3>5. /\ IF g = None THEN Holders(d, t.id, Last(q)) = {} ELSE g \in Holders(d, t.id, Last(q))
          /\ IF h = None THEN Holders(d, t.id, Last(q)) = {} ELSE h \in Holders(d, t.id, Last(q))
      BY <3>4, ChildrenAre
    <3> QED
      BY <3>3, <3>5 DEF One
  <2>7. CASE t.kind # "coll"
    BY <2>5, <2>7
  <2> QED
    BY <2>6, <2>7
<1>4. T = Nat
  <2> HIDE DEF T
  <2>1. T \in SUBSET Nat
    BY DEF T
  <2> QED
    BY <1>2, <1>3, <2>1, Inductive
<1>5. \A q \in Seq(STRING) : Len(q) \in T
  BY <1>4
<1> QED
  BY <1>5

\* What a path resolves to is held by a place in what is above it.
LEMMA Up ==
  ASSUME NEW d, Shape(d), NEW q \in Seq(STRING), q # <<>>, NEW x \in Resolve(d, q), x # None
  PROVE  \E t \in Resolve(d, Front(q)) :
           /\ t.kind = "coll" /\ t.id \in DOMAIN d.colls /\ t = Coll(d, t.id)
           /\ x \in Holders(d, t.id, Last(q))
<1>1. Resolve(d, q) = OneDown(d, Last(q), Resolve(d, Front(q))) /\ Front(q) \in Seq(STRING)
  BY ResolveStep, FrontOf DEF Shape
<1>2. PICK t \in Resolve(d, Front(q)) :
        x \in IF t.kind = "coll" THEN ChildrenAt(d, t.id, Last(q)) ELSE {None}
  BY <1>1 DEF OneDown
<1>3. t.kind = "coll" /\ x \in ChildrenAt(d, t.id, Last(q))
  BY <1>2
<1>4. t \in Handles(d) /\ t # None
  BY <1>1, <1>3, ResolveFinds DEF None
<1>5. t.id \in DOMAIN d.colls /\ t = Coll(d, t.id)
  BY <1>3, <1>4, HandlesAre DEF IsFile
<1>6. x \in Holders(d, t.id, Last(q))
  BY <1>3, ChildrenAre
<1> QED
  BY <1>3, <1>5, <1>6

LEMMA OnePath ==
  ASSUME NEW d, Shape(d), NEW q \in Seq(STRING), NEW r \in Seq(STRING),
         NEW x \in Resolve(d, q), x \in Resolve(d, r), x # None
  PROVE  q = r
<1> DEFINE T == {n \in Nat : \A p \in Seq(STRING) : \A s \in Seq(STRING) : \A y \in Resolve(d, p) :
                               Len(p) = n /\ y \in Resolve(d, s) /\ y # None => p = s}
<1>1. \A p \in Seq(STRING) : \A s \in Seq(STRING) : \A y \in Resolve(d, p) :
        p = <<>> /\ y \in Resolve(d, s) => s = <<>>
  <2> SUFFICES ASSUME NEW p \in Seq(STRING), NEW s \in Seq(STRING), NEW y \in Resolve(d, p), p = <<>>,
                      y \in Resolve(d, s), s # <<>>
               PROVE  FALSE
    OBVIOUS
  <2>1. y = Coll(d, Root) /\ NotRoot(y)
    BY ResolveFinds
  <2> QED
    BY <2>1 DEF NotRoot, Coll
<1>2. 0 \in T
  <2>1. \A p \in Seq(STRING) : Len(p) = 0 => p = <<>>
    OBVIOUS
  <2> QED
    BY <1>1, <2>1
<1>3. ASSUME NEW n \in T
      PROVE  n + 1 \in T
  <2> SUFFICES ASSUME NEW p \in Seq(STRING), NEW s \in Seq(STRING), NEW y \in Resolve(d, p),
                      Len(p) = n + 1, y \in Resolve(d, s), y # None
               PROVE  p = s
    OBVIOUS
  <2>1. p # <<>> /\ s # <<>> /\ n \in Nat
    BY <1>1
  <2> HIDE DEF T
  <2>2. /\ Front(p) \in Seq(STRING) /\ Len(Front(p)) = Len(p) - 1 /\ Len(p) \in Nat
        /\ Last(p) = p[Len(p)] /\ \A i \in 1..(Len(p) - 1) : Front(p)[i] = p[i]
    BY <2>1, FrontOf
  <2>11. Len(Front(p)) = n
    BY <2>1, <2>2
  <2>3. /\ Front(s) \in Seq(STRING) /\ Len(Front(s)) = Len(s) - 1 /\ Len(s) \in Nat
        /\ Last(s) = s[Len(s)] /\ \A i \in 1..(Len(s) - 1) : Front(s)[i] = s[i]
    BY <2>1, FrontOf
  <2>4. PICK t \in Resolve(d, Front(p)) :
          t.kind = "coll" /\ t = Coll(d, t.id) /\ y \in Holders(d, t.id, Last(p))
    BY <2>1, Up
  <2>5. PICK u \in Resolve(d, Front(s)) :
          u.kind = "coll" /\ u = Coll(d, u.id) /\ y \in Holders(d, u.id, Last(s))
    BY <2>1, Up
  <2>6. t.id = u.id /\ Last(p) = Last(s)
    BY <2>4, <2>5, HolderIs
  <2>7. t = u /\ t # None
    BY <2>4, <2>5, <2>6 DEF None
  <2>8. Front(p) = Front(s)
    BY <2>2, <2>3, <2>7, <2>11 DEF T
  <2>9. Len(p) = Len(s)
    BY <2>2, <2>3, <2>8
  <2>10. \A i \in 1..Len(p) : p[i] = s[i]
    <3> TAKE i \in 1..Len(p)
    <3>1. CASE i = Len(p)
      BY <2>2, <2>3, <2>6, <2>9, <3>1
    <3>2. CASE i # Len(p)
      <4>1. i \in 1..(Len(p) - 1)
        BY <3>2
      <4> QED
        BY <2>2, <2>3, <2>8, <2>9, <4>1
    <3> QED
      BY <3>1, <3>2
  <2> QED
    BY <2>9, <2>10
<1>4. T = Nat
  <2> HIDE DEF T
  <2>1. T \in SUBSET Nat
    BY DEF T
  <2> QED
    BY <1>2, <1>3, <2>1, Inductive
<1>5. Len(q) \in T
  BY <1>4
<1> QED
  BY <1>5

Prefixed(p, q) == Len(p) <= Len(q) /\ \A i \in 1..Len(p) : p[i] = q[i]

LEMMA PrefixIs ==
  ASSUME NEW p \in Seq(STRING), NEW q \in Seq(STRING), Prefixed(p, q)
  PROVE  IsPrefix(p, q)
<1>1. /\ Len(p) \in Nat /\ Len(q) \in Nat /\ Len(p) <= Len(q)
      /\ \A i \in 1..Len(p) : p[i] = q[i]
  BY DEF Prefixed
<1>2. SubSeq(p, 1, Len(p)) = [i \in 1..Len(p) |-> p[i]]
  BY <1>1
<1>3. SubSeq(q, 1, Len(p)) = [i \in 1..Len(p) |-> q[i]]
  BY <1>1
<1> QED
  BY <1>1, <1>2, <1>3 DEF IsPrefix

\* The path of what is in the subtree of a collection begins with its path.
LEMMA Inside ==
  ASSUME NEW d, Shape(d), NEW p \in Seq(STRING), NEW t \in Resolve(d, p), t.kind = "coll",
         NEW q \in Seq(STRING), NEW x \in Resolve(d, q), x.kind = "coll", x.id \in Subtree(d, t.id)
  PROVE  Prefixed(p, q)
<1> DEFINE T == {n \in Nat : \A s \in Seq(STRING) : \A y \in Resolve(d, s) :
                     Len(s) = n /\ y.kind = "coll" /\ y.id \in Subtree(d, t.id) => Prefixed(p, s)}
<1>1. \A s \in Seq(STRING) : \A y \in Resolve(d, s) :
        y.kind = "coll" => y # None /\ y.id \in DOMAIN d.colls /\ y = Coll(d, y.id)
  BY ResolveFinds, HandlesAre DEF None, IsFile
<1>2. ASSUME NEW s \in Seq(STRING), NEW y \in Resolve(d, s), y.kind = "coll", y.id = t.id
      PROVE  Prefixed(p, s)
  <2>1. t # None /\ y = t
    BY <1>1, <1>2
  <2>2. p = s
    BY <2>1, OnePath
  <2>3. Len(s) \in Nat
    OBVIOUS
  <2> QED
    BY <2>2, <2>3 DEF Prefixed
<1>3. IsFiniteSet(DOMAIN d.colls)
  BY Finite
<1>4. ASSUME NEW s \in Seq(STRING), s = <<>>, NEW y \in Resolve(d, s), y.kind = "coll",
             y.id \in Subtree(d, t.id)
      PROVE  y.id = t.id
  <2>1. y = Coll(d, Root)
    BY <1>4, ResolveFinds
  <2>2. y.id = Root
    BY <2>1 DEF Coll
  <2> QED
    BY <1>4, <2>2, RootStays
<1>5. 0 \in T
  <2>1. \A s \in Seq(STRING) : Len(s) = 0 => s = <<>>
    OBVIOUS
  <2> QED
    BY <1>2, <1>4, <2>1
<1>6. ASSUME NEW n \in T
      PROVE  n + 1 \in T
  <2> SUFFICES ASSUME NEW s \in Seq(STRING), NEW y \in Resolve(d, s), Len(s) = n + 1,
                      y.kind = "coll", y.id \in Subtree(d, t.id), y.id # t.id
               PROVE  Prefixed(p, s)
    BY <1>2
  <2>1. n \in Nat /\ y # None /\ y = Coll(d, y.id)
    BY <1>1
  <2>8. s # <<>>
    BY <2>1
  <2> HIDE DEF T
  <2>9. /\ Front(s) \in Seq(STRING) /\ Len(Front(s)) = Len(s) - 1 /\ Len(s) \in Nat
        /\ \A i \in 1..(Len(s) - 1) : Front(s)[i] = s[i]
    BY <2>1, <2>8, FrontOf
  <2>2. Len(Front(s)) = n
    BY <2>1, <2>9
  <2>3. PICK u \in Resolve(d, Front(s)) :
          u.kind = "coll" /\ u = Coll(d, u.id) /\ y \in Holders(d, u.id, Last(s))
    BY <2>1, <2>8, Up
  <2>4. d.colls[y.id].parent = u.id
    BY <2>1, <2>3, HolderIs DEF Coll
  <2>5. u.id \in Subtree(d, t.id)
    BY <1>3, <2>4, SubtreeParents
  <2>6. Prefixed(p, Front(s))
    BY <2>2, <2>3, <2>5, <2>9 DEF T
  <2>7. Len(p) \in Nat /\ Len(p) <= n /\ \A i \in 1..Len(p) : i \in 1..(Len(s) - 1)
    BY <2>1, <2>2, <2>6, <2>9 DEF Prefixed
  <2> QED
    BY <2>1, <2>6, <2>7, <2>9 DEF Prefixed
<1>7. T = Nat
  <2> HIDE DEF T
  <2>1. T \in SUBSET Nat
    BY DEF T
  <2> QED
    BY <1>5, <1>6, <2>1, Inductive
<1>8. Len(q) \in T
  BY <1>7
<1> QED
  BY <1>8

-----------------------------------------------------------------------------
(* Where the rows a handler holds are.                                     *)

\* The place a handler found empty, or what holds it.
Destined(d, parent, path, x) ==
  /\ path # <<>> /\ parent.kind = "coll"
  /\ parent \in Resolve(d, Front(path)) /\ x \in Resolve(d, path)

Situated(d, w) ==
  /\ w.req.path \in Seq(STRING) /\ w.req.dest \in Seq(STRING)
  /\ w.target # None => w.target \in Resolve(d, w.req.path)
  /\ w.req.op = "MKCOL" => w.target = None
  /\ w.req.op \in {"PUT", "MKCOL"} /\ w.target = None => Destined(d, w.parent, w.req.path, None)
  /\ w.req.op \in {"COPY", "MOVE"} =>
       /\ Destined(d, w.parent, w.req.dest, w.existing)
       /\ ~IsPrefix(w.req.path, w.req.dest)

LEMMA LookupsSituate ==
  ASSUME NEW d, Shape(d), NEW r \in Requests, NEW w \in Lookups(d, r)
  PROVE  Situated(d, w)
<1>1. r.path \in Seq(STRING) /\ r.dest \in Seq(STRING)
      /\ r.op \in {"PUT", "MKCOL", "DELETE", "COPY", "MOVE"}
  BY RequestAssumption
<1>2. w.req = r
  BY LookupsFind
<1>3. ASSUME None \in Resolve(d, r.path)
      PROVE  r.path # <<>>
  <2>1. Coll(d, Root) # None
    BY DEF Coll, None
  <2> QED
    BY <1>1, <1>3, <2>1, ResolveFinds
<1>4. CASE r.op = "PUT"
  <2>1. w \in PutLookups(d, r)
    BY <1>4 DEF Lookups
  <2>2. CASE \E t \in ResolveFile(d, r.path) : w = Found(r, t, None, None)
    <3>1. \A t \in ResolveFile(d, r.path) : t \in Resolve(d, r.path) /\ t # None
      BY DEF ResolveFile, None
    <3> QED
      BY <1>1, <1>4, <2>2, <3>1, FoundIs DEF Situated
  <2>3. CASE None \in Resolve(d, r.path) /\ \E c \in ResolveColl(d, Front(r.path)) : w = Found(r, None, c, None)
    BY <1>1, <1>3, <1>4, <2>3, FoundIs DEF Situated, Destined, ResolveColl
  <2> QED
    BY <2>1, <2>2, <2>3 DEF PutLookups
<1>5. CASE r.op = "MKCOL"
  <2>1. None \in Resolve(d, r.path) /\ \E c \in ResolveColl(d, Front(r.path)) : w = Found(r, None, c, None)
    BY <1>5 DEF Lookups, MkcolLookups
  <2> QED
    BY <1>1, <1>3, <1>5, <2>1, FoundIs DEF Situated, Destined, ResolveColl
<1>6. CASE r.op = "DELETE"
  <2>1. \E t \in Resolve(d, r.path) : t # None /\ w = Found(r, t, None, None)
    BY <1>6 DEF Lookups, DeleteLookups
  <2> QED
    BY <1>1, <1>6, <2>1, FoundIs DEF Situated
<1>7. CASE r.op \in {"COPY", "MOVE"}
  <2>1. PICK sources : sources \subseteq Resolve(d, r.path) /\ w \in DestinationLookups(d, r, sources)
    BY <1>7 DEF Lookups, CopyLookups, MoveLookups
  <2>2. r.dest # <<>> /\ ~IsPrefix(r.path, r.dest)
    BY <2>1 DEF DestinationLookups, DestinationWithinSource
  <2>3. PICK s \in sources, c \in ResolveColl(d, Front(r.dest)), x \in Resolve(d, r.dest) :
          w = Found(r, s, c, x)
    BY <2>1 DEF DestinationLookups
  <2> QED
    BY <1>1, <1>7, <2>1, <2>2, <2>3, FoundIs DEF Situated, Destined, ResolveColl
<1> QED
  BY <1>1, <1>4, <1>5, <1>6, <1>7

LEMMA RanSituated ==
  ASSUME IInv, NEW p \in Procs, NEW w, Ran(p, w), ~raced'
  PROVE  Situated(db, w)
<1>1. Fresh(w) /\ AtWork(db, w)
  BY DEF Ran, IInv
<1>2. PICK v : v = [w EXCEPT !.pc = "found", !.sums = NoSums]
  OBVIOUS
<1>3. v \in Lookups(db, w.req)
  BY <1>1, <1>2 DEF Fresh
<1>4. v.req = w.req /\ v.target = w.target /\ v.parent = w.parent /\ v.existing = w.existing
  BY <1>1, <1>2 DEF AtWork, WorkFields
<1>5. w.req \in Requests /\ Shape(db)
  BY <1>1 DEF AtWork, IInv
<1>6. Situated(db, v)
  BY <1>3, <1>5, LookupsSituate
<1> QED
  BY <1>4, <1>6 DEF Situated

\* With one holder to a place, the destination is the place of nobody else.
LEMMA DestinationIs ==
  ASSUME NEW d, Shape(d), Unique(d), NEW parent, NEW path \in Seq(STRING), NEW x,
         Destined(d, parent, path, x)
  PROVE  /\ parent.id \in DOMAIN d.colls /\ parent = Coll(d, parent.id)
         /\ Holders(d, parent.id, Last(path)) = IF x = None THEN {} ELSE {x}
<1>1. path # <<>> /\ Front(path) \in Seq(STRING)
  BY FrontOf DEF Destined
<1>2. parent \in Handles(d) /\ parent # None /\ parent.kind = "coll"
  BY <1>1, ResolveFinds DEF Destined, None
<1>3. parent.id \in DOMAIN d.colls /\ parent = Coll(d, parent.id)
  BY <1>2, HandlesAre DEF IsFile
<1>4. Resolve(d, Front(path)) = {parent}
  BY <1>1, ResolveOne DEF Destined
<1>5. Resolve(d, path) = OneDown(d, Last(path), Resolve(d, Front(path)))
  BY <1>1, ResolveStep DEF Shape
<1>6. x \in ChildrenAt(d, parent.id, Last(path))
  BY <1>2, <1>4, <1>5 DEF OneDown, Destined
<1>7. IF x = None THEN Holders(d, parent.id, Last(path)) = {} ELSE x \in Holders(d, parent.id, Last(path))
  BY <1>6, ChildrenAre
<1>8. One(d, parent.id, Last(path))
  BY <1>3 DEF Unique
<1> QED
  BY <1>3, <1>7, <1>8 DEF One

-----------------------------------------------------------------------------
(* What the pieces make of the holders of the places there are.            *)

LEMMA HoldersAre ==
  ASSUME NEW d, NEW q, NEW n, NEW h
  PROVE  h \in Holders(d, q, n) <=>
           \/ \E x \in DOMAIN d.colls :
                d.colls[x].parent = q /\ d.colls[x].name = n /\ h = Coll(d, x)
           \/ \E f \in DOMAIN d.files :
                d.files[f].parent = q /\ d.files[f].name = n /\ h = File(d, f)
BY DEF Holders, SubColls, SubFiles

LEMMA CollFileIs ==
  \A d, x : /\ Coll(d, x).kind = "coll" /\ Coll(d, x).id = x /\ Coll(d, x).row = d.colls[x]
            /\ File(d, x).kind = "file" /\ File(d, x).id = x /\ File(d, x).row = d.files[x]
BY DEF Coll, File

\* Of the places that stay, what was deleted held one.
LEMMA ClearedHolders ==
  ASSUME NEW b, Shape(b), NEW t \in Handles(b), t # None, NEW c, Clears(c, b, t),
         NEW q \in DOMAIN c.colls, NEW n
  PROVE  Holders(c, q, n) = Holders(b, q, n) \ {t}
<1>1. /\ DOMAIN c.colls = DOMAIN b.colls \ CollsBelow(b, t)
      /\ \A x \in DOMAIN c.colls : c.colls[x] = b.colls[x]
      /\ DOMAIN c.files = DOMAIN b.files \ FilesIn(b, t)
      /\ \A f \in DOMAIN c.files : c.files[f] = b.files[f]
  BY DEF Clears, Kept
<1>2. \A x \in DOMAIN c.colls : Coll(c, x) = Coll(b, x)
  BY <1>1 DEF Coll
<1>3. \A f \in DOMAIN c.files : File(c, f) = File(b, f)
  BY <1>1 DEF File
<1>4. CASE t = File(b, t.id) /\ t.id \in DOMAIN b.files
  <2>1. CollsBelow(b, t) = {} /\ FilesIn(b, t) = {t.id}
    BY <1>4, CollFileIs DEF CollsBelow, FilesIn
  <2>2. \A h : h \in Holders(c, q, n) => h \in Holders(b, q, n) \ {t}
    BY <1>1, <1>2, <1>3, <1>4, <2>1, HoldersAre, CollFileIs
  <2>3. \A h : h \in Holders(b, q, n) \ {t} => h \in Holders(c, q, n)
    BY <1>1, <1>2, <1>3, <1>4, <2>1, HoldersAre, CollFileIs
  <2> QED
    BY <2>2, <2>3
<1>5. CASE t = Coll(b, t.id) /\ t.id \in DOMAIN b.colls
  <2> DEFINE T == Subtree(b, t.id)
  <2>1. CollsBelow(b, t) = T /\ FilesIn(b, t) = FilesBelow(b, t.id)
    BY <1>5, CollFileIs DEF CollsBelow, FilesIn
  <2>2. IsFiniteSet(DOMAIN b.colls) /\ t.id \in T
    BY <1>5, Finite, SubtreeClosed
  <2>3. \A x \in T : x # t.id => b.colls[x].parent \in T
    BY <2>2, SubtreeParents
  <2>4. \A f \in FilesBelow(b, t.id) : b.files[f].parent \in T
    BY DEF FilesBelow, SubFiles
  <2> HIDE DEF T
  <2>5. q \notin T
    BY <1>1, <2>1
  <2>6. \A h : h \in Holders(c, q, n) => h \in Holders(b, q, n) \ {t}
    <3> SUFFICES ASSUME NEW h, h \in Holders(c, q, n)
                 PROVE  h \in Holders(b, q, n) /\ h # t
      OBVIOUS
    <3>1. CASE \E x \in DOMAIN c.colls :
                 c.colls[x].parent = q /\ c.colls[x].name = n /\ h = Coll(c, x)
      BY <1>1, <1>2, <2>1, <2>2, <3>1, HoldersAre, CollFileIs
    <3>2. CASE \E f \in DOMAIN c.files :
                 c.files[f].parent = q /\ c.files[f].name = n /\ h = File(c, f)
      BY <1>1, <1>3, <1>5, <3>2, HoldersAre, CollFileIs
    <3> QED
      BY <3>1, <3>2, HoldersAre
  <2>7. \A h : h \in Holders(b, q, n) \ {t} => h \in Holders(c, q, n)
    <3> SUFFICES ASSUME NEW h, h \in Holders(b, q, n), h # t
                 PROVE  h \in Holders(c, q, n)
      OBVIOUS
    <3>1. CASE \E x \in DOMAIN b.colls :
                 b.colls[x].parent = q /\ b.colls[x].name = n /\ h = Coll(b, x)
      <4>1. PICK x \in DOMAIN b.colls : b.colls[x].parent = q /\ b.colls[x].name = n /\ h = Coll(b, x)
        BY <3>1
      <4>2. x \notin T
        BY <1>5, <2>3, <2>5, <4>1
      <4> QED
        BY <1>1, <1>2, <2>1, <4>1, <4>2, HoldersAre
    <3>2. CASE \E f \in DOMAIN b.files :
                 b.files[f].parent = q /\ b.files[f].name = n /\ h = File(b, f)
      BY <1>1, <1>3, <2>1, <2>4, <2>5, <3>2, HoldersAre
    <3> QED
      BY <3>1, <3>2, HoldersAre
  <2> QED
    BY <2>6, <2>7
<1> QED
  BY <1>4, <1>5, HandlesAre

LEMMA HoldersSame ==
  ASSUME NEW c, NEW d, d.colls = c.colls, d.files = c.files, NEW q, NEW n
  PROVE  Holders(d, q, n) = Holders(c, q, n)
<1>1. \A x : Coll(d, x) = Coll(c, x) /\ File(d, x) = File(c, x)
  BY DEF Coll, File
<1>2. \A h : h \in Holders(d, q, n) <=> h \in Holders(c, q, n)
  BY <1>1, HoldersAre
<1> QED
  BY <1>2

\* A collection at a new place; it may be a new one.
LEMMA CollPlaced ==
  ASSUME NEW c, NEW d, NEW x, NEW parent, NEW name,
         d.colls = With(c.colls, x, CollRow(parent, name)), d.files = c.files, NEW q, NEW n
  PROVE  Holders(d, q, n) = {h \in Holders(c, q, n) : ~(h.kind = "coll" /\ h.id = x)}
                              \cup IF q = parent /\ n = name THEN {Coll(d, x)} ELSE {}
<1>1. /\ DOMAIN d.colls = DOMAIN c.colls \cup {x}
      /\ d.colls[x].parent = parent /\ d.colls[x].name = name
      /\ \A y \in DOMAIN c.colls \ {x} : d.colls[y] = c.colls[y]
  BY DEF With, CollRow
<1>2. \A y \in DOMAIN c.colls \ {x} : Coll(d, y) = Coll(c, y)
  BY <1>1 DEF Coll
<1>3. \A f : File(d, f) = File(c, f)
  BY DEF File
<1>4. \A h : h \in Holders(d, q, n) =>
               \/ h \in Holders(c, q, n) /\ ~(h.kind = "coll" /\ h.id = x)
               \/ q = parent /\ n = name /\ h = Coll(d, x)
  BY <1>1, <1>2, <1>3, HoldersAre, CollFileIs
<1>5. \A h : h \in Holders(c, q, n) /\ ~(h.kind = "coll" /\ h.id = x) => h \in Holders(d, q, n)
  BY <1>1, <1>2, <1>3, HoldersAre, CollFileIs
<1>6. q = parent /\ n = name => Coll(d, x) \in Holders(d, q, n)
  BY <1>1, HoldersAre
<1> QED
  BY <1>4, <1>5, <1>6

LEMMA FilePlaced ==
  ASSUME NEW c, NEW d, NEW x, NEW row,
         d.files = With(c.files, x, row), d.colls = c.colls, NEW q, NEW n
  PROVE  Holders(d, q, n) = {h \in Holders(c, q, n) : ~(h.kind = "file" /\ h.id = x)}
                              \cup IF q = row.parent /\ n = row.name THEN {File(d, x)} ELSE {}
<1>1. /\ DOMAIN d.files = DOMAIN c.files \cup {x} /\ d.files[x] = row
      /\ \A y \in DOMAIN c.files \ {x} : d.files[y] = c.files[y]
  BY DEF With
<1>2. \A y \in DOMAIN c.files \ {x} : File(d, y) = File(c, y)
  BY <1>1 DEF File
<1>3. \A y : Coll(d, y) = Coll(c, y)
  BY DEF Coll
<1>4. \A h : h \in Holders(d, q, n) =>
               \/ h \in Holders(c, q, n) /\ ~(h.kind = "file" /\ h.id = x)
               \/ q = row.parent /\ n = row.name /\ h = File(d, x)
  BY <1>1, <1>2, <1>3, HoldersAre, CollFileIs
<1>5. \A h : h \in Holders(c, q, n) /\ ~(h.kind = "file" /\ h.id = x) => h \in Holders(d, q, n)
  BY <1>1, <1>2, <1>3, HoldersAre, CollFileIs
<1>6. q = row.parent /\ n = row.name => File(d, x) \in Holders(d, q, n)
  BY <1>1, HoldersAre
<1> QED
  BY <1>4, <1>5, <1>6

-----------------------------------------------------------------------------
(* What a row in the log of a collection tells of its names: of the one it *)
(* names, whether that is gone; of the others, nothing new.                *)

RowsIn(s, n) == {i \in DOMAIN s : s[i].name = n}
Quiet(s, r, n) == RowsIn(s, n) = RowsIn(r, n) /\ \A i \in RowsIn(r, n) : s[i] = r[i]
News(s, r, n, gone) ==
  \E i \in RowsIn(s, n) :
    i > Len(r) /\ (\A j \in RowsIn(s, n) : j <= i) /\ (s[i].action = "deleted" <=> gone)

IsLog(s) == \E S : s \in Seq(S)
Logs(log) == \A c \in DOMAIN log : IsLog(log[c])

LongerBy(r, s, x) ==
  /\ IsLog(r) /\ Len(s) \in Nat /\ Len(r) = Len(s) + 1
  /\ DOMAIN s = 1..Len(s) /\ DOMAIN r = 1..(Len(s) + 1)
  /\ r[Len(s) + 1] = x /\ \A i \in 1..Len(s) : r[i] = s[i]

LEMMA AppendIs ==
  ASSUME NEW s, IsLog(s), NEW x, NEW r, r = Append(s, x)
  PROVE  LongerBy(r, s, x)
<1>1. PICK T : s \in Seq(T)
  BY DEF IsLog
<1>2. PICK S : S = T \cup {x}
  OBVIOUS
<1>3. s \in Seq(S) /\ x \in S
  <2>1. Len(s) \in Nat /\ s = [i \in 1..Len(s) |-> s[i]] /\ \A i \in 1..Len(s) : s[i] \in T
    BY <1>1
  <2> QED
    BY <1>1, <1>2
<1>4. r \in Seq(S)
  BY <1>3
<1>5. /\ Len(s) \in Nat /\ Len(r) = Len(s) + 1
      /\ DOMAIN s = 1..Len(s) /\ DOMAIN r = 1..(Len(s) + 1)
      /\ r[Len(s) + 1] = x /\ \A i \in 1..Len(s) : r[i] = s[i]
  BY <1>3
<1> QED
  BY <1>4, <1>5 DEF IsLog, LongerBy

Tells(log, old, c, name, gone) ==
  /\ DOMAIN log = DOMAIN old /\ Logs(log)
  /\ \A q \in DOMAIN old : Len(old[q]) \in Nat /\ Len(log[q]) \in Nat /\ Len(old[q]) <= Len(log[q])
  /\ News(log[c], old[c], name, gone)
  /\ \A q \in DOMAIN old : \A n : ~(q = c /\ n = name) => Quiet(log[q], old[q], n)

LEMMA LoggedTells ==
  ASSUME NEW old, Logs(old), NEW c \in DOMAIN old, NEW name, NEW action,
         NEW gone, gone \in BOOLEAN, gone <=> action = "deleted", NEW log, log = Logged(old, c, name, action)
  PROVE  Tells(log, old, c, name, gone)
<1> DEFINE x == [name |-> name, action |-> action]
           s == old[c]
           r == Append(s, x)
<1>1. DOMAIN log = DOMAIN old /\ log[c] = r /\ \A q \in DOMAIN old : q # c => log[q] = old[q]
  BY DEF Logged, With
<1>2. x.name = name /\ x.action = action
  OBVIOUS
<1>3. \A q \in DOMAIN old : IsLog(old[q])
  BY DEF Logs
<1>4. \A q \in DOMAIN old : Len(old[q]) \in Nat
  BY <1>3 DEF IsLog
<1>11. IsLog(s) /\ r = Append(s, x)
  BY <1>3
<1> HIDE DEF x, s, r
<1>12. LongerBy(r, s, x)
  BY <1>11, AppendIs
<1>5. /\ IsLog(r) /\ Len(s) \in Nat /\ Len(r) = Len(s) + 1
      /\ DOMAIN s = 1..Len(s) /\ DOMAIN r = 1..(Len(s) + 1)
      /\ r[Len(s) + 1] = x /\ \A i \in 1..Len(s) : r[i] = s[i]
  BY <1>12 DEF LongerBy
<1>6. Logs(log)
  BY <1>1, <1>3, <1>5 DEF Logs
<1>7. \A q \in DOMAIN old : Len(log[q]) \in Nat /\ Len(old[q]) <= Len(log[q])
  BY <1>1, <1>4, <1>5 DEF s
<1>8. News(r, s, name, gone)
  <2>1. Len(s) + 1 \in RowsIn(r, name) /\ Len(s) + 1 > Len(s)
    BY <1>2, <1>5 DEF RowsIn
  <2>2. \A j \in RowsIn(r, name) : j <= Len(s) + 1
    BY <1>5 DEF RowsIn
  <2>3. r[Len(s) + 1].action = "deleted" <=> gone
    BY <1>2, <1>5
  <2> QED
    BY <2>1, <2>2, <2>3 DEF News
<1>9. \A n : n # name => Quiet(r, s, n)
  BY <1>2, <1>5 DEF Quiet, RowsIn
<1>10. \A q \in DOMAIN old : \A n : ~(q = c /\ n = name) => Quiet(log[q], old[q], n)
  BY <1>1, <1>9 DEF Quiet, s
<1> QED
  BY <1>1, <1>4, <1>6, <1>7, <1>8, <1>10 DEF s, Tells

LEMMA NewsAfter ==
  ASSUME NEW r, NEW s, NEW t, NEW n, NEW gone
  PROVE  /\ News(s, r, n, gone) /\ Quiet(t, s, n) => News(t, r, n, gone)
         /\ Len(r) \in Nat /\ Len(s) \in Nat /\ Len(r) <= Len(s) /\ DOMAIN t \subseteq Nat
              /\ News(t, s, n, gone) => News(t, r, n, gone)
         /\ Quiet(s, r, n) /\ Quiet(t, s, n) => Quiet(t, r, n)
<1>1. News(s, r, n, gone) /\ Quiet(t, s, n) => News(t, r, n, gone)
  BY DEF News, Quiet
<1>2. Len(r) \in Nat /\ Len(s) \in Nat /\ Len(r) <= Len(s) /\ DOMAIN t \subseteq Nat
        /\ News(t, s, n, gone) => News(t, r, n, gone)
  <2> SUFFICES ASSUME Len(r) \in Nat, Len(s) \in Nat, Len(r) <= Len(s), DOMAIN t \subseteq Nat,
                      News(t, s, n, gone)
               PROVE  News(t, r, n, gone)
    OBVIOUS
  <2>1. \A i \in RowsIn(t, n) : i \in Nat
    BY DEF RowsIn
  <2>2. \A i \in Nat : i > Len(s) => i > Len(r)
    OBVIOUS
  <2> QED
    BY <2>1, <2>2 DEF News
<1>3. Quiet(s, r, n) /\ Quiet(t, s, n) => Quiet(t, r, n)
  BY DEF Quiet
<1> QED
  BY <1>1, <1>2, <1>3

\* Of every place: nothing happened to it, and nothing is logged; or it has
\* one holder or none, and the last row says which; or it is new.
Told(d, b) ==
  \A c \in DOMAIN d.colls : \A n :
    \/ /\ c \in DOMAIN b.colls
       /\ Holders(d, c, n) = Holders(b, c, n) /\ Quiet(d.log[c], b.log[c], n)
    \/ /\ c \in DOMAIN b.colls
       /\ One(d, c, n) /\ News(d.log[c], b.log[c], n, Holders(d, c, n) = {})
    \/ /\ c \notin DOMAIN b.colls
       /\ One(d, c, n) /\ d.log[c] = <<>>

LEMMA StillUnique ==
  ASSUME NEW b, Unique(b), NEW d, Told(d, b)
  PROVE  Unique(d)
BY DEF Told, Unique, One

\* Only files and names that were there, in other places.
LEMMA OverwriteTells ==
  ASSUME NEW b, Shape(b), Unique(b), Logs(b.log), NEW w, Held(b, w), Situated(b, w),
         w.req.op = "PUT", w.target # None, NEW d, Overwrites(d, b, w)
  PROVE  Told(d, b) /\ Logs(d.log)
<1> DEFINE t == w.target
           f == t.id
           P == t.row.parent
           N == t.row.name
           row == FileRow(P, N, w.req.body, Size[w.req.body], t.row.owner)
<1>1. f \in DOMAIN b.files /\ t = File(b, f) /\ t.kind = "file"
  <2>1. IsFile(b, t) /\ t \in Handles(b) /\ t # None
    BY DEF Held, Chosen
  <2> QED
    BY <2>1, HandlesAre DEF IsFile, IsColl
<1>2. Last(w.req.path) = N
  <2>1. w.req.path \in Seq(STRING) /\ t \in Resolve(b, w.req.path) /\ t # None
    BY DEF Situated
  <2>2. w.req.path # <<>>
    BY <1>1, <2>1, ResolveFinds DEF Coll
  <2> QED
    BY <2>1, <2>2, Up, HolderIs
<1>3. /\ d.files = With(b.files, f, row) /\ d.colls = b.colls
      /\ P \in DOMAIN b.log /\ d.log = Logged(b.log, P, N, "modified")
  BY <1>2 DEF Overwrites
<1>4. row.parent = P /\ row.name = N
  BY DEF FileRow
<1>5. t \in Holders(b, P, N)
  BY <1>1, HoldersAre, CollFileIs
<1>6. DOMAIN b.log = DOMAIN b.colls
  BY DEF Shape
<1> HIDE DEF t, f, P, N, row
<1>7. \A h \in Holders(b, P, N) : h = t
  BY <1>3, <1>5, <1>6 DEF Unique, One
<1>8. \A q, n : \A h \in Holders(b, q, n) : h.kind = "file" /\ h.id = f => h = t
  BY <1>1, HoldersAre, CollFileIs
<1>9. \A q, n : Holders(d, q, n) = {h \in Holders(b, q, n) : ~(h.kind = "file" /\ h.id = f)}
                                     \cup IF q = P /\ n = N THEN {File(d, f)} ELSE {}
  <2> TAKE q, n
  <2>1. Holders(d, q, n) = {h \in Holders(b, q, n) : ~(h.kind = "file" /\ h.id = f)}
                             \cup IF q = row.parent /\ n = row.name THEN {File(d, f)} ELSE {}
    BY <1>3, FilePlaced
  <2> QED
    BY <1>4, <2>1
<1>10. Holders(d, P, N) = {File(d, f)}
  BY <1>1, <1>7, <1>9, CollFileIs
<1>11. \A q, n : ~(q = P /\ n = N) => Holders(d, q, n) = Holders(b, q, n)
  <2> TAKE q, n
  <2>1. ASSUME ~(q = P /\ n = N)
        PROVE  t \notin Holders(b, q, n)
    BY <2>1, HolderIs DEF P, N, t
  <2> QED
    <3>1. \A h \in Holders(b, q, n) : ~(h.kind = "file" /\ h.id = f) \/ (q = P /\ n = N)
      BY <1>8, <2>1
    <3>2. Holders(d, q, n) = {h \in Holders(b, q, n) : ~(h.kind = "file" /\ h.id = f)}
                               \cup IF q = P /\ n = N THEN {File(d, f)} ELSE {}
      BY <1>9
    <3> QED
      BY <3>1, <3>2
<1>12. /\ Logs(d.log)
       /\ News(d.log[P], b.log[P], N, FALSE)
       /\ \A q \in DOMAIN b.log : \A n : ~(q = P /\ n = N) => Quiet(d.log[q], b.log[q], n)
  <2>1. FALSE \in BOOLEAN /\ (FALSE <=> "modified" = "deleted")
    OBVIOUS
  <2>2. Tells(d.log, b.log, P, N, FALSE)
    BY <1>3, <2>1, LoggedTells
  <2> QED
    BY <2>2 DEF Tells
<1>13. One(d, P, N) /\ (Holders(d, P, N) = {}) = FALSE
  BY <1>10 DEF One
<1>14. ASSUME NEW q \in DOMAIN b.colls, NEW n
       PROVE  \/ Holders(d, q, n) = Holders(b, q, n) /\ Quiet(d.log[q], b.log[q], n)
              \/ One(d, q, n) /\ News(d.log[q], b.log[q], n, Holders(d, q, n) = {})
  <2>1. CASE q = P /\ n = N
    BY <1>12, <1>13, <2>1
  <2>2. CASE ~(q = P /\ n = N)
    BY <1>6, <1>11, <1>12, <2>2
  <2> QED
    BY <2>1, <2>2
<1>15. Told(d, b)
  BY <1>3, <1>14 DEF Told
<1> QED
  BY <1>12, <1>15

LEMMA CreateTells ==
  ASSUME NEW b, Shape(b), Unique(b), Logs(b.log), NEW w, Situated(b, w),
         w.req.op = "PUT", w.target = None, NEW d, CreatesFile(d, b, w)
  PROVE  Told(d, b) /\ Logs(d.log)
<1> DEFINE P == w.parent.id
           N == Last(w.req.path)
           f == b.nextFile
           row == FileRow(P, N, w.req.body, Size[w.req.body], w.req.user)
<1>1. P \in DOMAIN b.colls /\ Holders(b, P, N) = {}
  <2>1. Destined(b, w.parent, w.req.path, None) /\ w.req.path \in Seq(STRING)
    BY DEF Situated
  <2>2. Holders(b, P, N) = IF None = None THEN {} ELSE {None}
    BY <2>1, DestinationIs
  <2>3. P \in DOMAIN b.colls
    BY <2>1, DestinationIs
  <2> QED
    BY <2>2, <2>3
<1>2. /\ d.files = With(b.files, f, row) /\ d.colls = b.colls
      /\ P \in DOMAIN b.log /\ d.log = Logged(b.log, P, N, "added")
  BY DEF CreatesFile
<1>3. row.parent = P /\ row.name = N
  BY DEF FileRow
<1>4. f \notin DOMAIN b.files /\ DOMAIN b.log = DOMAIN b.colls
  BY DEF Shape
<1> HIDE DEF P, N, f, row
<1>5. \A q, n : \A h \in Holders(b, q, n) : ~(h.kind = "file" /\ h.id = f)
  BY <1>4, HoldersAre, CollFileIs
<1>6. \A q, n : Holders(d, q, n) = Holders(b, q, n) \cup IF q = P /\ n = N THEN {File(d, f)} ELSE {}
  <2> TAKE q, n
  <2>1. Holders(d, q, n) = {h \in Holders(b, q, n) : ~(h.kind = "file" /\ h.id = f)}
                             \cup IF q = row.parent /\ n = row.name THEN {File(d, f)} ELSE {}
    BY <1>2, FilePlaced
  <2> QED
    BY <1>3, <1>5, <2>1
<1>7. Tells(d.log, b.log, P, N, FALSE)
  <2>1. FALSE \in BOOLEAN /\ (FALSE <=> "added" = "deleted")
    OBVIOUS
  <2> QED
    BY <1>2, <2>1, LoggedTells
<1>8. One(d, P, N) /\ (Holders(d, P, N) = {}) = FALSE
  BY <1>1, <1>6 DEF One
<1>9. ASSUME NEW q \in DOMAIN b.colls, NEW n
      PROVE  \/ Holders(d, q, n) = Holders(b, q, n) /\ Quiet(d.log[q], b.log[q], n)
             \/ One(d, q, n) /\ News(d.log[q], b.log[q], n, Holders(d, q, n) = {})
  <2>1. CASE q = P /\ n = N
    <3>1. News(d.log[P], b.log[P], N, FALSE)
      BY <1>7 DEF Tells
    <3> QED
      BY <1>8, <2>1, <3>1
  <2>2. CASE ~(q = P /\ n = N)
    <3>1. Quiet(d.log[q], b.log[q], n)
      BY <1>4, <1>7, <2>2 DEF Tells
    <3> QED
      BY <1>6, <2>2, <3>1
  <2> QED
    BY <2>1, <2>2
<1>10. Logs(d.log)
  BY <1>7 DEF Tells
<1>11. Told(d, b)
  BY <1>2, <1>9 DEF Told
<1> QED
  BY <1>10, <1>11

LEMMA CreateCollTells ==
  ASSUME NEW b, Shape(b), ConstraintsHold(b), Unique(b), Logs(b.log), NEW w, Situated(b, w),
         w.req.op = "MKCOL", NEW d, CreatesColl(d, b, w)
  PROVE  Told(d, b) /\ Logs(d.log)
<1> DEFINE P == w.parent.id
           N == Last(w.req.path)
           x == b.nextColl
           old == With(b.log, x, <<>>)
<1>1. P \in DOMAIN b.colls /\ Holders(b, P, N) = {}
  <2>1. Destined(b, w.parent, w.req.path, None) /\ w.req.path \in Seq(STRING)
    BY DEF Situated
  <2>2. Holders(b, P, N) = IF None = None THEN {} ELSE {None}
    BY <2>1, DestinationIs
  <2>3. P \in DOMAIN b.colls
    BY <2>1, DestinationIs
  <2> QED
    BY <2>2, <2>3
<1>2. /\ d.colls = With(b.colls, x, CollRow(P, N)) /\ d.files = b.files
      /\ P \in DOMAIN old /\ d.log = Logged(old, P, N, "added")
  BY DEF CreatesColl
<1>3. /\ x \notin DOMAIN b.colls /\ DOMAIN b.log = DOMAIN b.colls
      /\ \A y \in DOMAIN b.colls : b.colls[y].parent # x
      /\ \A f \in DOMAIN b.files : b.files[f].parent # x
  <2>1. x \notin DOMAIN b.colls /\ DOMAIN b.log = DOMAIN b.colls /\ x # 0
    BY DEF Shape
  <2>2. \A y \in DOMAIN b.colls : b.colls[y].parent # x
    <3> TAKE y \in DOMAIN b.colls
    <3>1. CASE y = Root
      BY <2>1, <3>1 DEF Shape
    <3>2. CASE y # Root
      BY <2>1, <3>2 DEF ConstraintsHold
    <3> QED
      BY <3>1, <3>2
  <2>3. \A f \in DOMAIN b.files : b.files[f].parent # x
    BY <2>1 DEF ConstraintsHold
  <2> QED
    BY <2>1, <2>2, <2>3
<1>4. /\ DOMAIN old = DOMAIN b.log \cup {x} /\ old[x] = <<>>
      /\ \A q \in DOMAIN b.log : old[q] = b.log[q]
  BY <1>3 DEF With
<1>5. DOMAIN d.colls = DOMAIN b.colls \cup {x}
  BY <1>2 DEF With
<1> HIDE DEF P, N, x, old
<1>6. Logs(old)
  <2>1. IsLog(<<>>)
    <3>1. <<>> \in Seq({})
      OBVIOUS
    <3> QED
      BY <3>1 DEF IsLog
  <2> QED
    BY <1>4, <2>1 DEF Logs
<1>7. \A q, n : \A h \in Holders(b, q, n) : ~(h.kind = "coll" /\ h.id = x)
  BY <1>3, HoldersAre, CollFileIs
<1>8. \A q, n : Holders(d, q, n) = Holders(b, q, n) \cup IF q = P /\ n = N THEN {Coll(d, x)} ELSE {}
  <2> TAKE q, n
  <2>1. Holders(d, q, n) = {h \in Holders(b, q, n) : ~(h.kind = "coll" /\ h.id = x)}
                             \cup IF q = P /\ n = N THEN {Coll(d, x)} ELSE {}
    BY <1>2, CollPlaced
  <2> QED
    BY <1>7, <2>1
<1>9. Tells(d.log, old, P, N, FALSE)
  <2>1. FALSE \in BOOLEAN /\ (FALSE <=> "added" = "deleted")
    OBVIOUS
  <2> QED
    BY <1>2, <1>6, <2>1, LoggedTells
<1>10. One(d, P, N) /\ (Holders(d, P, N) = {}) = FALSE
  BY <1>1, <1>8 DEF One
<1>11. P # x
  BY <1>1, <1>3
<1>12. \A n : Holders(b, x, n) = {}
  BY <1>3, HoldersAre
<1>13. \A n : Holders(d, x, n) = {}
  BY <1>8, <1>11, <1>12
<1>14. d.log[x] = <<>>
  BY <1>2, <1>4, <1>11 DEF Logged, With
<1>15. ASSUME NEW n
       PROVE  One(d, x, n)
  BY <1>13 DEF One
<1>16. ASSUME NEW q \in DOMAIN b.colls, NEW n
       PROVE  \/ Holders(d, q, n) = Holders(b, q, n) /\ Quiet(d.log[q], b.log[q], n)
              \/ One(d, q, n) /\ News(d.log[q], b.log[q], n, Holders(d, q, n) = {})
  <2>1. q \in DOMAIN old /\ old[q] = b.log[q]
    BY <1>3, <1>4
  <2>2. CASE q = P /\ n = N
    <3>1. News(d.log[P], old[P], N, FALSE)
      BY <1>9 DEF Tells
    <3> QED
      BY <1>10, <2>1, <2>2, <3>1
  <2>3. CASE ~(q = P /\ n = N)
    <3>1. Quiet(d.log[q], old[q], n)
      BY <1>9, <2>1, <2>3 DEF Tells
    <3> QED
      BY <1>8, <2>1, <2>3, <3>1
  <2> QED
    BY <2>2, <2>3
<1>17. Logs(d.log)
  BY <1>9 DEF Tells
<1>18. Told(d, b)
  BY <1>3, <1>5, <1>14, <1>15, <1>16 DEF Told
<1> QED
  BY <1>17, <1>18

LEMMA DeleteTells ==
  ASSUME NEW b, Shape(b), Unique(b), Logs(b.log), NEW w, Held(b, w), w.req.op = "DELETE",
         NEW c, Shape(c), NEW d, Deletes(d, c, b, w)
  PROVE  Told(d, b) /\ Logs(d.log)
<1> DEFINE t == w.target
           P == t.row.parent
           N == t.row.name
<1>1. /\ t \in Handles(b) /\ t # None
      /\ Clears(c, b, t)
      /\ d.colls = c.colls /\ d.files = c.files
      /\ P \in DOMAIN c.log /\ d.log = Logged(c.log, P, N, "deleted")
  BY DEF Held, Chosen, IsHandle, IsColl, IsFile, None, Deletes, Relogs
<1>2. t \in Holders(b, P, N)
  BY <1>1, HandlesAre, HoldersAre, CollFileIs
<1>3. /\ DOMAIN c.log = DOMAIN c.colls /\ DOMAIN c.colls \subseteq DOMAIN b.colls
      /\ \A q \in DOMAIN c.log : c.log[q] = b.log[q]
      /\ DOMAIN b.log = DOMAIN b.colls
  BY <1>1 DEF Clears, Kept, Shape
<1> HIDE DEF t, P, N
<1>4. Logs(c.log)
  BY <1>3 DEF Logs
<1>5. \A h \in Holders(b, P, N) : h = t
  BY <1>1, <1>2, <1>3 DEF Unique, One
<1>6. \A q, n : Holders(d, q, n) = Holders(c, q, n)
  BY <1>1, HoldersSame
<1>7. \A q \in DOMAIN c.colls : \A n : Holders(c, q, n) = Holders(b, q, n) \ {t}
  BY <1>1, ClearedHolders
<1>8. Holders(d, P, N) = {}
  BY <1>1, <1>3, <1>5, <1>6, <1>7
<1>9. ASSUME NEW q \in DOMAIN c.colls, NEW n, ~(q = P /\ n = N)
      PROVE  Holders(d, q, n) = Holders(b, q, n)
  <2>1. t \notin Holders(b, q, n)
    BY <1>9, HolderIs DEF P, N
  <2> QED
    BY <1>6, <1>7, <2>1
<1>10. Tells(d.log, c.log, P, N, TRUE)
  <2>1. TRUE \in BOOLEAN /\ (TRUE <=> "deleted" = "deleted")
    OBVIOUS
  <2> QED
    BY <1>1, <1>4, <2>1, LoggedTells
<1>11. ASSUME NEW q \in DOMAIN c.colls, NEW n
       PROVE  \/ Holders(d, q, n) = Holders(b, q, n) /\ Quiet(d.log[q], b.log[q], n)
              \/ One(d, q, n) /\ News(d.log[q], b.log[q], n, Holders(d, q, n) = {})
  <2>1. q \in DOMAIN c.log /\ c.log[q] = b.log[q]
    BY <1>3
  <2>2. CASE q = P /\ n = N
    <3>1. News(d.log[P], c.log[P], N, TRUE)
      BY <1>10 DEF Tells
    <3>2. One(d, P, N) /\ (Holders(d, P, N) = {}) = TRUE
      BY <1>8 DEF One
    <3> QED
      BY <2>1, <2>2, <3>1, <3>2
  <2>3. CASE ~(q = P /\ n = N)
    <3>1. Quiet(d.log[q], c.log[q], n)
      BY <1>10, <2>1, <2>3 DEF Tells
    <3> QED
      BY <1>9, <2>1, <2>3, <3>1
  <2> QED
    BY <2>2, <2>3
<1>12. Logs(d.log)
  BY <1>10 DEF Tells
<1>13. Told(d, b)
  BY <1>1, <1>3, <1>11 DEF Told
<1> QED
  BY <1>12, <1>13

\* The destination has been cleared: nobody holds it, and of the places that
\* stay no other has changed.
Vacated(c, b, P, N) ==
  /\ DOMAIN c.colls \subseteq DOMAIN b.colls
  /\ \A q \in DOMAIN c.colls : c.log[q] = b.log[q]
  /\ \A q \in DOMAIN c.colls : \A n :
       Holders(c, q, n) = IF q = P /\ n = N THEN {} ELSE Holders(b, q, n)

LEMMA ClearedVacates ==
  ASSUME NEW b, Shape(b), Unique(b), NEW w, Held(b, w), Situated(b, w),
         w.req.op \in {"COPY", "MOVE"}, NEW c, Shape(c), Cleared(c, b, w)
  PROVE  Vacated(c, b, w.parent.id, Last(w.req.dest)) /\ Unique(c)
<1> DEFINE P == w.parent.id
           N == Last(w.req.dest)
           x == w.existing
<1>1. /\ Holders(b, P, N) = IF x = None THEN {} ELSE {x}
      /\ x \in Handles(b)
  <2>1. Destined(b, w.parent, w.req.dest, x) /\ w.req.dest \in Seq(STRING)
    BY DEF Situated
  <2> QED
    BY <2>1, DestinationIs DEF Held
<1>2. Cleared(c, b, w) /\ (x = None => c = b) /\ (x # None => Clears(c, b, x))
  BY DEF Cleared
<1> HIDE DEF P, N, x
<1>3. CASE x = None
  <2>1. \A q \in DOMAIN c.colls : \A n :
          Holders(c, q, n) = IF q = P /\ n = N THEN {} ELSE Holders(b, q, n)
    BY <1>1, <1>2, <1>3
  <2> QED
    BY <1>2, <1>3, <2>1 DEF Vacated, P, N
<1>4. CASE x # None
  <2>1. \A q \in DOMAIN c.colls : \A n : Holders(c, q, n) = Holders(b, q, n) \ {x}
    BY <1>1, <1>2, <1>4, ClearedHolders
  <2>2. x.row.parent = P /\ x.row.name = N
    BY <1>1, <1>4, HolderIs
  <2>3. \A q \in DOMAIN c.colls : \A n : ~(q = P /\ n = N) => x \notin Holders(b, q, n)
    BY <2>2, HolderIs
  <2>4. \A q \in DOMAIN c.colls : \A n :
          Holders(c, q, n) = IF q = P /\ n = N THEN {} ELSE Holders(b, q, n)
    BY <1>1, <1>4, <2>1, <2>3
  <2>5. /\ DOMAIN c.colls \subseteq DOMAIN b.colls
        /\ \A q \in DOMAIN c.colls : c.log[q] = b.log[q]
    BY <1>2, <1>4 DEF Clears, Kept, Shape
  <2>6. Unique(c)
    BY <2>1, <2>5 DEF Unique, One
  <2> QED
    BY <2>4, <2>5, <2>6 DEF Vacated, P, N
<1> QED
  BY <1>3, <1>4

\* Of the copies only the topmost is in a collection that was there.
LEMMA CopiedHolders ==
  ASSUME NEW a, Shape(a), Unique(a),
         \A x \in DOMAIN a.colls : a.colls[x].parent < a.nextColl,
         \A f \in DOMAIN a.files : a.files[f].parent < a.nextColl,
         NEW c \in 1..(a.nextColl - 1), NEW P \in DOMAIN a.colls, NEW name, NEW user, NEW recursive,
         NEW e, Copied(e, a, c, P, name, user, recursive)
  PROVE  /\ \A q \in DOMAIN a.colls : \A n :
              Holders(e, q, n) = Holders(a, q, n)
                \cup IF q = P /\ n = name THEN {Coll(e, NewColl(a, c, recursive, c))} ELSE {}
         /\ \A q \in NewColls(a, c, recursive) : e.log[q] = <<>> /\ \A n : One(e, q, n)
<1> DEFINE S == CopiedColls(a, c, recursive)
           F == CopiedFiles(a, c, recursive)
           m(x) == NewColl(a, c, recursive, x)
           k(f) == NewFile(a, c, recursive, f)
           M == NewColls(a, c, recursive)
           K == NewFiles(a, c, recursive)
<1>1. /\ M \cap DOMAIN a.colls = {} /\ K \cap DOMAIN a.files = {}
      /\ \A x, y \in S : m(x) = m(y) => x = y
      /\ \A f, g \in F : k(f) = k(g) => f = g
      /\ S \subseteq 1..(a.nextColl - 1) /\ F \subseteq DOMAIN a.files
  BY NewRows
<1>2. M = {m(x) : x \in S} /\ K = {k(f) : f \in F} /\ c \in S
  BY DEF NewColls, NewFiles, CopiedColls
<1>13. \A z : z \in S => m(z) \notin DOMAIN a.colls
  <2>1. \A z : z \in S => m(z) \in M
    BY DEF NewColls
  <2> HIDE DEF S, m, M
  <2> QED
    BY <1>1, <2>1
<1>3. \A y \in M : y >= a.nextColl
  <2>1. a.nextColl \in Nat /\ IsFiniteSet(S) /\ S \subseteq Int
    <3>1. 1 \in Int /\ a.nextColl - 1 \in Int
      BY DEF Shape
    <3>2. IsFiniteSet(1..(a.nextColl - 1))
      BY <3>1, FS_Interval
    <3> QED
      BY <1>1, <3>2, FS_Subset DEF Shape
  <2>2. \A x \in S : m(x) \in a.nextColl..(a.nextColl + Cardinality(S) - 1)
    BY <2>1, NewIds DEF NewColl
  <2> QED
    BY <1>2, <2>2
<1>4. /\ DOMAIN e.colls = DOMAIN a.colls \cup M /\ DOMAIN e.files = DOMAIN a.files \cup K
      /\ \A y \in DOMAIN a.colls : e.colls[y] = a.colls[y]
      /\ \A g \in DOMAIN a.files : e.files[g] = a.files[g]
  BY DEF Copied
<1>5. /\ e.colls[m(c)].parent = P /\ e.colls[m(c)].name = name
      /\ \A x \in S : e.log[m(x)] = <<>>
      /\ \A x \in S \ {c} : /\ e.colls[m(x)].parent = m(a.colls[x].parent)
                            /\ e.colls[m(x)].name = a.colls[x].name
  <2>1. \A p, n : CollRow(p, n).parent = p /\ CollRow(p, n).name = n
    BY DEF CollRow
  <2>2. \A x \in S : /\ e.colls[m(x)] = IF x = c THEN CollRow(P, name)
                                       ELSE CollRow(m(a.colls[x].parent), a.colls[x].name)
                    /\ e.log[m(x)] = <<>>
    BY DEF Copied
  <2> HIDE DEF S, m
  <2>3. e.colls[m(c)] = CollRow(P, name)
    BY <1>2, <2>2
  <2>4. \A x \in S \ {c} : e.colls[m(x)] = CollRow(m(a.colls[x].parent), a.colls[x].name)
    BY <2>2
  <2> QED
    BY <2>1, <2>2, <2>3, <2>4
<1>6. \A f \in F : /\ e.files[k(f)].parent = m(a.files[f].parent)
                   /\ e.files[k(f)].name = a.files[f].name
  <2>1. \A p, n, h, s, u : FileRow(p, n, h, s, u).parent = p /\ FileRow(p, n, h, s, u).name = n
    BY DEF FileRow
  <2> TAKE f \in F
  <2>2. PICK h, s, u : e.files[k(f)] = FileRow(m(a.files[f].parent), a.files[f].name, h, s, u)
    BY DEF Copied
  <2> HIDE DEF F, k, m
  <2> QED
    BY <2>1, <2>2
<1>7. \A x \in S \ {c} : x \in DOMAIN a.colls /\ a.colls[x].parent \in S /\ a.colls[x].parent \in DOMAIN a.colls
  <2>1. IsFiniteSet(DOMAIN a.colls)
    BY Finite
  <2>2. \A x \in S \ {c} : x \in Subtree(a, c) /\ Subtree(a, c) \subseteq S
    BY DEF CopiedColls
  <2>3. Subtree(a, c) \subseteq DOMAIN a.colls
    BY <2>1, SubtreeClosed
  <2>4. \A x \in Subtree(a, c) : x # c => a.colls[x].parent \in Subtree(a, c)
    BY <2>1, SubtreeParents
  <2> QED
    BY <2>2, <2>3, <2>4
<1>8. \A f \in F : a.files[f].parent \in S /\ a.files[f].parent \in DOMAIN a.colls
  <2>1. \A f \in F : a.files[f].parent \in Subtree(a, c) /\ Subtree(a, c) \subseteq S
    BY DEF CopiedFiles, CopiedColls, FilesBelow, SubFiles
  <2>2. Subtree(a, c) \subseteq DOMAIN a.colls
    BY Finite, SubtreeClosed
  <2> QED
    BY <2>1, <2>2
<1> HIDE DEF S, F, m, k, M, K
<1>9. \A y \in DOMAIN a.colls : Coll(e, y) = Coll(a, y)
  BY <1>4 DEF Coll
<1>10. \A g \in DOMAIN a.files : File(e, g) = File(a, g)
  BY <1>4 DEF File
<1>11. ASSUME NEW q \in DOMAIN a.colls, NEW n
       PROVE  Holders(e, q, n) = Holders(a, q, n)
                \cup IF q = P /\ n = name THEN {Coll(e, m(c))} ELSE {}
  <2>1. \A h : h \in Holders(a, q, n) => h \in Holders(e, q, n)
    BY <1>4, <1>9, <1>10, HoldersAre
  <2>2. q = P /\ n = name => Coll(e, m(c)) \in Holders(e, q, n)
    BY <1>2, <1>4, <1>5, HoldersAre
  <2>3. ASSUME NEW h \in Holders(e, q, n)
        PROVE  h \in Holders(a, q, n) \/ (q = P /\ n = name /\ h = Coll(e, m(c)))
    <3>1. ASSUME NEW y \in DOMAIN e.colls, e.colls[y].parent = q, e.colls[y].name = n, h = Coll(e, y)
          PROVE  h \in Holders(a, q, n) \/ (q = P /\ n = name /\ h = Coll(e, m(c)))
      <4>1. CASE y \in DOMAIN a.colls
        BY <1>4, <1>9, <3>1, <4>1, HoldersAre
      <4>2. CASE y \in M
        <5>1. PICK x \in S : y = m(x)
          BY <1>2, <4>2
        <5>2. CASE x = c
          BY <1>5, <3>1, <5>1, <5>2
        <5>3. CASE x # c
          <6>1. q = m(a.colls[x].parent) /\ a.colls[x].parent \in S
            BY <1>5, <1>7, <3>1, <5>1, <5>3
          <6> QED
            BY <1>13, <6>1
        <5> QED
          BY <5>2, <5>3
      <4> QED
        BY <1>4, <3>1, <4>1, <4>2
    <3>2. ASSUME NEW g \in DOMAIN e.files, e.files[g].parent = q, e.files[g].name = n, h = File(e, g)
          PROVE  h \in Holders(a, q, n)
      <4>1. CASE g \in DOMAIN a.files
        BY <1>4, <1>10, <3>2, <4>1, HoldersAre
      <4>2. CASE g \in K
        <5>1. PICK f \in F : g = k(f)
          BY <1>2, <4>2
        <5>2. q = m(a.files[f].parent) /\ a.files[f].parent \in S
          BY <1>6, <1>8, <3>2, <5>1
        <5> QED
          BY <1>13, <5>2
      <4> QED
        BY <1>4, <3>2, <4>1, <4>2
    <3> QED
      BY <3>1, <3>2, HoldersAre
  <2> QED
    BY <2>1, <2>2, <2>3
<1>12. ASSUME NEW q \in M
       PROVE  e.log[q] = <<>> /\ \A n : One(e, q, n)
  <2>1. PICK y \in S : q = m(y)
    BY <1>2
  <2>2. e.log[q] = <<>>
    BY <1>5, <2>1
  \* A holder in the copy has one it was copied from.
  <2>3. ASSUME NEW n, NEW h \in Holders(e, q, n)
        PROVE  /\ y \in DOMAIN a.colls
               /\ \/ \E x \in S : h = Coll(e, m(x)) /\ Coll(a, x) \in Holders(a, y, n)
                  \/ \E f \in F : h = File(e, k(f)) /\ File(a, f) \in Holders(a, y, n)
    <3>1. ASSUME NEW z \in DOMAIN e.colls, e.colls[z].parent = q, e.colls[z].name = n, h = Coll(e, z)
          PROVE  /\ y \in DOMAIN a.colls
                 /\ \E x \in S : h = Coll(e, m(x)) /\ Coll(a, x) \in Holders(a, y, n)
      <4>1. CASE z \in DOMAIN a.colls
        <5>1. a.colls[z].parent < a.nextColl /\ a.colls[z].parent = q /\ q >= a.nextColl
          BY <1>3, <1>4, <3>1, <4>1
        <5>2. a.nextColl \in Nat /\ q \in Int
          <6>1. q \in 1..(a.nextColl + Cardinality(S) - 1) /\ Cardinality(S) \in Nat
            BY NewRows DEF M, S
          <6> QED
            BY <6>1 DEF Shape
        <5> QED
          BY <5>1, <5>2
      <4>2. CASE z \in M
        <5>1. PICK x \in S : z = m(x)
          BY <1>2, <4>2
        <5>2. x # c
          BY <1>1, <1>5, <3>1, <5>1
        <5>3. m(a.colls[x].parent) = m(y) /\ a.colls[x].parent \in S
          BY <1>5, <1>7, <2>1, <3>1, <5>1, <5>2
        <5>5. a.colls[x].parent = y
          BY <1>1, <5>3
        <5>4. a.colls[x].parent = y /\ a.colls[x].name = n /\ x \in DOMAIN a.colls /\ y \in DOMAIN a.colls
          BY <1>5, <1>7, <3>1, <5>1, <5>2, <5>5
        <5> QED
          BY <3>1, <5>1, <5>4, HoldersAre
      <4> QED
        BY <1>4, <3>1, <4>1, <4>2
    <3>2. ASSUME NEW g \in DOMAIN e.files, e.files[g].parent = q, e.files[g].name = n, h = File(e, g)
          PROVE  /\ y \in DOMAIN a.colls
                 /\ \E f \in F : h = File(e, k(f)) /\ File(a, f) \in Holders(a, y, n)
      <4>1. CASE g \in DOMAIN a.files
        <5>1. a.files[g].parent < a.nextColl /\ a.files[g].parent = q /\ q >= a.nextColl
          BY <1>3, <1>4, <3>2, <4>1
        <5>2. a.nextColl \in Nat /\ q \in Int
          <6>1. q \in 1..(a.nextColl + Cardinality(S) - 1) /\ Cardinality(S) \in Nat
            BY NewRows DEF M, S
          <6> QED
            BY <6>1 DEF Shape
        <5> QED
          BY <5>1, <5>2
      <4>2. CASE g \in K
        <5>1. PICK f \in F : g = k(f)
          BY <1>2, <4>2
        <5>2. m(a.files[f].parent) = m(y) /\ a.files[f].parent \in S
          BY <1>6, <1>8, <2>1, <3>2, <5>1
        <5>3. a.files[f].parent = y /\ a.files[f].name = n /\ f \in DOMAIN a.files /\ y \in DOMAIN a.colls
          BY <1>1, <1>6, <1>8, <3>2, <5>1, <5>2
        <5> QED
          BY <3>2, <5>1, <5>3, HoldersAre
      <4> QED
        BY <1>4, <3>2, <4>1, <4>2
    <3> QED
      BY <3>1, <3>2, HoldersAre
  <2>4. ASSUME NEW n, NEW g \in Holders(e, q, n), NEW h \in Holders(e, q, n)
        PROVE  g = h
    <3>1. y \in DOMAIN a.colls
      BY <2>3
    <3>2. \A s, t \in Holders(a, y, n) : s = t
      BY <3>1 DEF Unique, One
    <3>3. \/ \E x \in S : g = Coll(e, m(x)) /\ Coll(a, x) \in Holders(a, y, n)
          \/ \E f \in F : g = File(e, k(f)) /\ File(a, f) \in Holders(a, y, n)
      BY <2>3
    <3>4. \/ \E x \in S : h = Coll(e, m(x)) /\ Coll(a, x) \in Holders(a, y, n)
          \/ \E f \in F : h = File(e, k(f)) /\ File(a, f) \in Holders(a, y, n)
      BY <2>3
    <3>5. /\ \A x, z : Coll(a, x) = Coll(a, z) => x = z
          /\ \A x, z : File(a, x) = File(a, z) => x = z
          /\ \A x, z : Coll(a, x) # File(a, z)
      BY CollFileIs
    <3> QED
      BY <3>2, <3>3, <3>4, <3>5
  <2> QED
    BY <2>2, <2>4 DEF One
<1> QED
  BY <1>11, <1>12 DEF M, m

LEMMA ParentsBelow ==
  ASSUME NEW b, Shape(b), ConstraintsHold(b)
  PROVE  /\ \A x \in DOMAIN b.colls : b.colls[x].parent < b.nextColl
         /\ \A f \in DOMAIN b.files : b.files[f].parent < b.nextColl
<1>1. b.nextColl \in Nat /\ \A c \in DOMAIN b.colls : c \in Int /\ c < b.nextColl /\ 0 < b.nextColl
  BY DEF Shape
<1>2. ASSUME NEW x \in DOMAIN b.colls
      PROVE  b.colls[x].parent < b.nextColl
  <2>1. CASE x = Root
    <3>1. b.colls[x].parent = 0
      BY <2>1 DEF Shape
    <3> QED
      BY <1>1, <3>1
  <2>2. CASE x # Root
    <3>1. b.colls[x].parent \in DOMAIN b.colls
      BY <2>2 DEF ConstraintsHold
    <3> QED
      BY <1>1, <3>1
  <2> QED
    BY <2>1, <2>2
<1>3. \A f \in DOMAIN b.files : b.files[f].parent < b.nextColl
  BY <1>1 DEF ConstraintsHold
<1> QED
  BY <1>2, <1>3

LEMMA CopyTells ==
  ASSUME NEW b, Shape(b), ConstraintsHold(b), Unique(b), Logs(b.log), NEW w, Held(b, w),
         Situated(b, w), w.req.op = "COPY",
         NEW c, Shape(c), NEW a, Shape(a), NEW e, Shape(e), NEW added,
         NEW d, Copies(d, e, a, c, b, w, added)
  PROVE  Told(d, b) /\ Logs(d.log)
<1> DEFINE t == w.target
           P == w.parent.id
           N == Last(w.req.dest)
           action == IF w.existing = None THEN "added" ELSE "modified"
<1>1. Vacated(c, b, P, N) /\ Unique(c)
  BY ClearedVacates DEF Copies
<1>2. /\ SameRows(a, c) /\ P \in DOMAIN a.log
      /\ d.colls = e.colls /\ d.files = e.files
      /\ P \in DOMAIN e.log /\ d.log = Logged(e.log, P, N, action)
  BY DEF Copies, Relogs
<1>3. /\ DOMAIN a.log = DOMAIN a.colls /\ DOMAIN e.log = DOMAIN e.colls
      /\ DOMAIN b.log = DOMAIN b.colls /\ DOMAIN a.colls \subseteq DOMAIN b.colls
      /\ \A q \in DOMAIN a.colls : a.log[q] = b.log[q]
  BY <1>1, <1>2 DEF Shape, SameRows, Vacated
<1>4. /\ \A q, n : Holders(a, q, n) = Holders(c, q, n)
      /\ \A q, n : Holders(d, q, n) = Holders(e, q, n)
  BY <1>2, HoldersSame DEF SameRows
<1>5. Unique(a)
  BY <1>1, <1>2, <1>4 DEF Unique, One, SameRows
<1>6. /\ \A x \in DOMAIN a.colls : a.colls[x].parent < a.nextColl
      /\ \A f \in DOMAIN a.files : a.files[f].parent < a.nextColl
  <2>1. /\ a.nextColl = b.nextColl
        /\ \A x \in DOMAIN a.colls : x \in DOMAIN b.colls /\ a.colls[x] = b.colls[x]
        /\ \A f \in DOMAIN a.files : f \in DOMAIN b.files /\ a.files[f] = b.files[f]
    BY DEF Copies, SameRows, Cleared, Clears, Kept
  <2> QED
    BY <2>1, ParentsBelow
\* Old places keep their holders, but for the destination; new ones are copies.
<1>7. /\ DOMAIN a.colls \subseteq DOMAIN e.colls
      /\ \A q \in DOMAIN a.colls : e.log[q] = a.log[q]
      /\ \A q \in DOMAIN e.colls \ DOMAIN a.colls :
           q \notin DOMAIN b.colls /\ e.log[q] = <<>> /\ \A n : One(e, q, n)
      /\ \E h : \A q \in DOMAIN a.colls : \A n :
           Holders(e, q, n) = Holders(a, q, n) \cup IF q = P /\ n = N THEN {h} ELSE {}
  <2>1. CASE t.kind = "coll"
    <3>1. Copied(e, a, t.id, P, N, w.req.user, w.req.recursive)
      BY <2>1 DEF Copies
    <3>2. t.id \in 1..(a.nextColl - 1)
      <4>1. IsColl(b, t)
        BY <2>1 DEF Held, Chosen, IsHandle, IsFile
      <4>2. a.nextColl = b.nextColl
        BY DEF Copies, SameRows, Cleared, Clears
      <4> QED
        BY <4>1, <4>2 DEF IsColl
    <3> DEFINE M == NewColls(a, t.id, w.req.recursive)
               h == Coll(e, NewColl(a, t.id, w.req.recursive, t.id))
    <3>3. /\ DOMAIN e.colls = DOMAIN a.colls \cup M
          /\ \A q \in DOMAIN a.log : e.log[q] = a.log[q]
      BY <3>1 DEF Copied
    <3>4. M \cap DOMAIN b.colls = {}
      <4>1. b.nextColl = a.nextColl
        BY DEF Copies, SameRows, Cleared, Clears
      <4>2. \A y \in M : y >= a.nextColl /\ y \in Int
        <5>1. IsFiniteSet(CopiedColls(a, t.id, w.req.recursive))
              /\ CopiedColls(a, t.id, w.req.recursive) \subseteq Int
          <6>1. CopiedColls(a, t.id, w.req.recursive) \subseteq 1..(a.nextColl - 1)
            BY <3>2, NewRows
          <6>2. 1 \in Int /\ a.nextColl - 1 \in Int
            BY DEF Shape
          <6>3. PICK n \in Int : n = a.nextColl - 1
            BY <6>2
          <6>4. PICK S : S = CopiedColls(a, t.id, w.req.recursive)
            OBVIOUS
          <6>5. S \subseteq 1..n
            BY <6>1, <6>3, <6>4
          <6>6. IsFiniteSet(1..n)
            BY <6>2, FS_Interval
          <6>7. IsFiniteSet(S)
            BY <6>5, <6>6, FS_Subset
          <6>8. S \subseteq Int
            BY <6>5
          <6> QED
            BY <6>4, <6>7, <6>8
        <5>2. a.nextColl \in Nat
          BY DEF Shape
        <5>3. \A x \in CopiedColls(a, t.id, w.req.recursive) :
                NewColl(a, t.id, w.req.recursive, x)
                  \in a.nextColl..(a.nextColl + Cardinality(CopiedColls(a, t.id, w.req.recursive)) - 1)
          BY <5>1, <5>2, NewIds DEF NewColl
        <5> QED
          BY <5>2, <5>3 DEF NewColls
      <4>3. \A y \in DOMAIN b.colls : y \in Int /\ y < b.nextColl /\ b.nextColl \in Int
        BY DEF Shape
      <4> HIDE DEF M
      <4>4. ASSUME NEW y \in M, y \in DOMAIN b.colls
            PROVE  FALSE
        <5>1. y >= a.nextColl /\ y \in Int /\ y < b.nextColl /\ b.nextColl \in Int
          BY <4>2, <4>3, <4>4
        <5> QED
          BY <4>1, <5>1
      <4> QED
        BY <4>4
    <3>5. /\ \A q \in DOMAIN a.colls : \A n :
               Holders(e, q, n) = Holders(a, q, n) \cup IF q = P /\ n = N THEN {h} ELSE {}
          /\ \A q \in M : e.log[q] = <<>> /\ \A n : One(e, q, n)
      <4>1. P \in DOMAIN a.colls
        BY <1>2, <1>3
      <4> QED
        BY <1>5, <1>6, <3>1, <3>2, <4>1, CopiedHolders
    <3> HIDE DEF M, h, t, P, N
    <3> QED
      BY <1>3, <3>3, <3>4, <3>5
  <2>2. CASE t.kind # "coll"
    <3> DEFINE row == FileRow(P, N, a.content[t.id], t.row.size, w.req.user)
               f == a.nextFile
    <3>1. e.files = With(a.files, f, row) /\ e.colls = a.colls /\ e.log = a.log
      BY <2>2 DEF Copies
    <3>2. row.parent = P /\ row.name = N
      BY DEF FileRow
    <3>3. f \notin DOMAIN a.files
      BY DEF Shape
    <3> HIDE DEF row, f, t, P, N
    <3>4. \A q, n : \A h \in Holders(a, q, n) : ~(h.kind = "file" /\ h.id = f)
      BY <3>3, HoldersAre, CollFileIs
    <3>5. \A q, n : Holders(e, q, n) = Holders(a, q, n) \cup IF q = P /\ n = N THEN {File(e, f)} ELSE {}
      <4> TAKE q, n
      <4>1. Holders(e, q, n) = {h \in Holders(a, q, n) : ~(h.kind = "file" /\ h.id = f)}
                                 \cup IF q = row.parent /\ n = row.name THEN {File(e, f)} ELSE {}
        BY <3>1, FilePlaced
      <4> QED
        BY <3>2, <3>4, <4>1
    <3>6. PICK h : h = File(e, f)
      OBVIOUS
    <3>7. \A q \in DOMAIN a.colls : \A n :
            Holders(e, q, n) = Holders(a, q, n) \cup IF q = P /\ n = N THEN {h} ELSE {}
      BY <3>5, <3>6
    <3>8. /\ DOMAIN a.colls \subseteq DOMAIN e.colls /\ DOMAIN e.colls \ DOMAIN a.colls = {}
          /\ \A q \in DOMAIN a.colls : e.log[q] = a.log[q]
      BY <3>1
    <3> QED
      BY <3>7, <3>8
  <2> QED
    BY <2>1, <2>2
<1> HIDE DEF t, P, N, action
<1>8. Logs(e.log)
  <2>1. IsLog(<<>>)
    <3>1. <<>> \in Seq({})
      OBVIOUS
    <3> QED
      BY <3>1 DEF IsLog
  <2>2. \A q \in DOMAIN e.colls : IsLog(e.log[q])
    BY <1>3, <1>7, <2>1 DEF Logs
  <2> QED
    BY <1>3, <2>2 DEF Logs
<1>9. Tells(d.log, e.log, P, N, FALSE)
  <2>1. FALSE \in BOOLEAN /\ (FALSE <=> action = "deleted")
    BY DEF action
  <2> QED
    BY <1>2, <1>8, <2>1, LoggedTells
<1>10. PICK h : \A q \in DOMAIN a.colls : \A n :
         Holders(e, q, n) = Holders(a, q, n) \cup IF q = P /\ n = N THEN {h} ELSE {}
  BY <1>7
<1>11. P \in DOMAIN a.colls /\ DOMAIN a.colls = DOMAIN c.colls
  BY <1>2, <1>3 DEF SameRows
<1>12. Holders(d, P, N) = {h}
  <2>1. Holders(a, P, N) = {}
    BY <1>1, <1>4, <1>11 DEF Vacated
  <2> QED
    BY <1>4, <1>10, <1>11, <2>1
<1>13. \A q \in DOMAIN a.colls : \A n : ~(q = P /\ n = N) => Holders(d, q, n) = Holders(b, q, n)
  <2> SUFFICES ASSUME NEW q \in DOMAIN a.colls, NEW n, ~(q = P /\ n = N)
               PROVE  Holders(d, q, n) = Holders(b, q, n)
    OBVIOUS
  <2>2. Holders(e, q, n) = Holders(a, q, n)
    <3>1. Holders(e, q, n) = Holders(a, q, n) \cup IF q = P /\ n = N THEN {h} ELSE {}
      BY <1>10
    <3>2. (IF q = P /\ n = N THEN {h} ELSE {}) = {}
      OBVIOUS
    <3> QED
      BY <3>1, <3>2
  <2>3. Holders(c, q, n) = Holders(b, q, n)
    BY <1>1, <1>11 DEF Vacated
  <2> QED
    BY <1>4, <2>2, <2>3
<1>14. ASSUME NEW q \in DOMAIN a.colls, NEW n
       PROVE  \/ Holders(d, q, n) = Holders(b, q, n) /\ Quiet(d.log[q], b.log[q], n)
              \/ One(d, q, n) /\ News(d.log[q], b.log[q], n, Holders(d, q, n) = {})
  <2>1. q \in DOMAIN e.log /\ e.log[q] = b.log[q]
    BY <1>3, <1>7
  <2>2. CASE q = P /\ n = N
    <3>1. News(d.log[P], e.log[P], N, FALSE)
      BY <1>9 DEF Tells
    <3>2. One(d, P, N) /\ (Holders(d, P, N) = {}) = FALSE
      BY <1>12 DEF One
    <3> QED
      BY <2>1, <2>2, <3>1, <3>2
  <2>3. CASE ~(q = P /\ n = N)
    <3>1. Quiet(d.log[q], e.log[q], n)
      BY <1>9, <2>1, <2>3 DEF Tells
    <3> QED
      BY <1>13, <2>1, <2>3, <3>1
  <2> QED
    BY <2>2, <2>3
<1>15. ASSUME NEW q \in DOMAIN e.colls \ DOMAIN a.colls
       PROVE  q \notin DOMAIN b.colls /\ d.log[q] = <<>> /\ \A n : One(d, q, n)
  <2>1. q # P /\ q \in DOMAIN e.log
    BY <1>3, <1>11
  <2>2. d.log[q] = e.log[q]
    BY <1>2, <2>1 DEF Logged, With
  <2> QED
    BY <1>4, <1>7, <2>2 DEF One
<1>16. Logs(d.log)
  BY <1>9 DEF Tells
<1>17. Told(d, b)
  BY <1>2, <1>3, <1>14, <1>15 DEF Told
<1> QED
  BY <1>16, <1>17

\* What is moved is not what is overwritten, and has not gone with it.
LEMMA MovedStays ==
  ASSUME NEW b, Shape(b), NEW w, Held(b, w), Situated(b, w), w.req.op = "MOVE",
         NEW c, Shape(c), NEW d, Moves(d, c, b, w)
  PROVE  LET t == w.target IN
         /\ t \in Holders(c, t.row.parent, t.row.name)
         /\ \/ t.kind = "coll" /\ t.id \in DOMAIN c.colls /\ t = Coll(c, t.id)
            \/ t.kind = "file" /\ t.id \in DOMAIN c.files /\ t = File(c, t.id)
<1> DEFINE t == w.target
           x == w.existing
           q == t.row.parent
           n == t.row.name
<1>1. t \in Handles(b) /\ t # None /\ x \in Handles(b)
  BY DEF Held, Chosen, IsHandle, IsColl, IsFile, None
<1>2. t \in Holders(b, q, n)
  BY <1>1, HandlesAre, HoldersAre, CollFileIs
<1>3. x # t
  <2> SUFFICES ASSUME x = t
               PROVE  FALSE
    OBVIOUS
  <2>1. /\ w.req.path \in Seq(STRING) /\ w.req.dest \in Seq(STRING)
        /\ t \in Resolve(b, w.req.path) /\ t \in Resolve(b, w.req.dest)
        /\ ~IsPrefix(w.req.path, w.req.dest)
    BY <1>1 DEF Situated, Destined
  <2>2. w.req.path = w.req.dest
    BY <1>1, <2>1, OnePath
  <2>3. Prefixed(w.req.path, w.req.dest)
    <3>1. Len(w.req.path) \in Nat
      BY <2>1
    <3> QED
      BY <2>2, <3>1 DEF Prefixed
  <2> QED
    BY <2>1, <2>3, PrefixIs
<1>4. q \in DOMAIN c.colls /\ Cleared(c, b, w)
  BY DEF Moves, Shape
<1> HIDE DEF t, x, q, n
<1>5. t \in Holders(c, q, n)
  <2>1. CASE x = None
    BY <1>2, <1>4, <2>1 DEF Cleared, x
  <2>2. CASE x # None
    <3>1. Clears(c, b, x)
      BY <1>4, <2>2 DEF Cleared, x
    <3>2. Holders(c, q, n) = Holders(b, q, n) \ {x}
      BY <1>1, <1>4, <2>2, <3>1, ClearedHolders
    <3> QED
      BY <1>2, <1>3, <3>2
  <2> QED
    BY <2>1, <2>2
<1>6. \/ t.kind = "coll" /\ t.id \in DOMAIN c.colls /\ t = Coll(c, t.id)
      \/ t.kind = "file" /\ t.id \in DOMAIN c.files /\ t = File(c, t.id)
  BY <1>5, HoldersAre, CollFileIs
<1> QED
  BY <1>5, <1>6 DEF t, q, n

LEMMA MoveTells ==
  ASSUME NEW b, Shape(b), Unique(b), Logs(b.log), NEW w, Held(b, w),
         Situated(b, w), w.req.op = "MOVE", NEW c, Shape(c), NEW d, Moves(d, c, b, w)
  PROVE  Told(d, b) /\ Logs(d.log)
<1> DEFINE t == w.target
           Q == t.row.parent
           M == t.row.name
           P == w.parent.id
           N == Last(w.req.dest)
           left == Logged(c.log, Q, M, "deleted")
<1>1. Vacated(c, b, P, N) /\ Unique(c)
  BY ClearedVacates DEF Moves
<1>2. /\ t \in Holders(c, Q, M)
      /\ \/ t.kind = "coll" /\ t.id \in DOMAIN c.colls /\ t = Coll(c, t.id)
         \/ t.kind = "file" /\ t.id \in DOMAIN c.files /\ t = File(c, t.id)
  BY MovedStays
<1>3. /\ Q \in DOMAIN c.log /\ P \in DOMAIN c.log /\ d.log = Logged(left, P, N, "added")
      /\ DOMAIN c.log = DOMAIN c.colls /\ DOMAIN b.log = DOMAIN b.colls
  BY DEF Moves, Shape
<1>4. /\ DOMAIN d.colls = DOMAIN c.colls
      /\ \E h : \A q, n : Holders(d, q, n) = (Holders(c, q, n) \ {t})
                                               \cup IF q = P /\ n = N THEN {h} ELSE {}
  <2>1. CASE t.kind = "coll" /\ t.id \in DOMAIN c.colls /\ t = Coll(c, t.id)
    <3>1. d.colls = With(c.colls, t.id, CollRow(P, N)) /\ d.files = c.files
      BY <2>1 DEF Moves
    <3>2. PICK h : h = Coll(d, t.id)
      OBVIOUS
    <3> HIDE DEF t, P, N
    <3>3. \A q, n : \A g \in Holders(c, q, n) : g.kind = "coll" /\ g.id = t.id <=> g = t
      BY <2>1, HoldersAre, CollFileIs
    <3>4. \A q, n : Holders(d, q, n) = (Holders(c, q, n) \ {t}) \cup IF q = P /\ n = N THEN {h} ELSE {}
      <4> TAKE q, n
      <4>1. Holders(d, q, n) = {g \in Holders(c, q, n) : ~(g.kind = "coll" /\ g.id = t.id)}
                                 \cup IF q = P /\ n = N THEN {h} ELSE {}
        BY <3>1, <3>2, CollPlaced
      <4>2. {g \in Holders(c, q, n) : ~(g.kind = "coll" /\ g.id = t.id)} = Holders(c, q, n) \ {t}
        BY <3>3
      <4> QED
        BY <4>1, <4>2
    <3>5. DOMAIN d.colls = DOMAIN c.colls
      BY <2>1, <3>1 DEF With
    <3> QED
      BY <3>4, <3>5
  <2>2. CASE t.kind = "file" /\ t.id \in DOMAIN c.files /\ t = File(c, t.id)
    <3>1. PICK row : row = FileRow(P, N, c.files[t.id].etag, c.files[t.id].size, c.files[t.id].owner)
      OBVIOUS
    <3>2. d.files = With(c.files, t.id, row) /\ d.colls = c.colls
      BY <2>2, <3>1 DEF Moves
    <3>3. row.parent = P /\ row.name = N
      BY <3>1 DEF FileRow
    <3>4. PICK h : h = File(d, t.id)
      OBVIOUS
    <3> HIDE DEF t, P, N
    <3>5. \A q, n : \A g \in Holders(c, q, n) : g.kind = "file" /\ g.id = t.id <=> g = t
      BY <2>2, HoldersAre, CollFileIs
    <3>6. \A q, n : Holders(d, q, n) = (Holders(c, q, n) \ {t}) \cup IF q = P /\ n = N THEN {h} ELSE {}
      <4> TAKE q, n
      <4>1. Holders(d, q, n) = {g \in Holders(c, q, n) : ~(g.kind = "file" /\ g.id = t.id)}
                                 \cup IF q = row.parent /\ n = row.name THEN {h} ELSE {}
        BY <3>2, <3>4, FilePlaced
      <4>2. {g \in Holders(c, q, n) : ~(g.kind = "file" /\ g.id = t.id)} = Holders(c, q, n) \ {t}
        BY <3>5
      <4> QED
        BY <3>3, <4>1, <4>2
    <3>7. DOMAIN d.colls = DOMAIN c.colls
      BY <3>2
    <3> QED
      BY <3>6, <3>7
  <2> QED
    BY <1>2, <2>1, <2>2
<1>5. PICK h : \A q, n : Holders(d, q, n) = (Holders(c, q, n) \ {t})
                                              \cup IF q = P /\ n = N THEN {h} ELSE {}
  BY <1>4
<1>6. \A q, n : t \in Holders(c, q, n) => q = Q /\ n = M
  BY HolderIs
<1> HIDE DEF t, Q, M, P, N, left
<1>7. Holders(c, P, N) = {} /\ ~(Q = P /\ M = N)
  <2>1. Holders(c, P, N) = {}
    BY <1>1, <1>3 DEF Vacated
  <2> QED
    BY <1>2, <2>1
<1>8. Holders(d, P, N) = {h}
  BY <1>5, <1>7
<1>9. Holders(d, Q, M) = {}
  <2>1. \A g \in Holders(c, Q, M) : g = t
    BY <1>1, <1>2, <1>3 DEF Unique, One
  <2>2. Holders(d, Q, M) = (Holders(c, Q, M) \ {t}) \cup IF Q = P /\ M = N THEN {h} ELSE {}
    BY <1>5
  <2>3. (IF Q = P /\ M = N THEN {h} ELSE {}) = {}
    BY <1>7
  <2> QED
    BY <2>1, <2>2, <2>3
<1>10. ASSUME NEW q \in DOMAIN c.colls, NEW n, ~(q = P /\ n = N), ~(q = Q /\ n = M)
       PROVE  Holders(d, q, n) = Holders(b, q, n)
  <2>1. Holders(d, q, n) = (Holders(c, q, n) \ {t}) \cup IF q = P /\ n = N THEN {h} ELSE {}
    BY <1>5
  <2>2. (IF q = P /\ n = N THEN {h} ELSE {}) = {}
    BY <1>10
  <2>3. Holders(c, q, n) \ {t} = Holders(c, q, n)
    BY <1>6, <1>10
  <2>4. Holders(c, q, n) = Holders(b, q, n)
    BY <1>1, <1>10 DEF Vacated
  <2> QED
    BY <2>1, <2>2, <2>3, <2>4
<1>11. \A q \in DOMAIN c.colls : c.log[q] = b.log[q] /\ q \in DOMAIN b.colls
  BY <1>1 DEF Vacated
<1>12. Logs(c.log)
  BY <1>3, <1>11 DEF Logs
<1>13. Tells(left, c.log, Q, M, TRUE)
  <2>1. TRUE \in BOOLEAN /\ (TRUE <=> "deleted" = "deleted")
    OBVIOUS
  <2> QED
    BY <1>3, <1>12, <2>1, LoggedTells DEF left
<1>14. Tells(d.log, left, P, N, FALSE)
  <2>1. FALSE \in BOOLEAN /\ (FALSE <=> "added" = "deleted")
    OBVIOUS
  <2>2. Logs(left) /\ P \in DOMAIN left
    BY <1>3, <1>13 DEF Tells
  <2> QED
    BY <1>3, <2>1, <2>2, LoggedTells
<1>15. ASSUME NEW q \in DOMAIN c.colls, NEW n
       PROVE  \/ Holders(d, q, n) = Holders(b, q, n) /\ Quiet(d.log[q], b.log[q], n)
              \/ One(d, q, n) /\ News(d.log[q], b.log[q], n, Holders(d, q, n) = {})
  <2>1. q \in DOMAIN c.log /\ q \in DOMAIN left /\ c.log[q] = b.log[q]
    BY <1>3, <1>11, <1>13 DEF Tells
  <2>2. CASE q = P /\ n = N
    <3>1. News(d.log[q], left[q], n, FALSE)
      BY <1>14, <2>2 DEF Tells
    <3>2. Len(c.log[q]) \in Nat /\ Len(left[q]) \in Nat /\ Len(c.log[q]) <= Len(left[q])
      BY <1>13, <2>1 DEF Tells
    <3>3. DOMAIN d.log[q] \subseteq Nat
      <4>1. IsLog(d.log[q])
        BY <1>14, <2>1 DEF Tells, Logs
      <4>2. PICK S : d.log[q] \in Seq(S)
        BY <4>1 DEF IsLog
      <4> QED
        BY <4>2
    <3>4. News(d.log[q], c.log[q], n, FALSE)
      BY <3>1, <3>2, <3>3, NewsAfter
    <3>5. One(d, P, N) /\ (Holders(d, P, N) = {}) = FALSE
      BY <1>8 DEF One
    <3> QED
      BY <2>1, <2>2, <3>4, <3>5
  <2>3. CASE q = Q /\ n = M
    <3>1. News(left[q], c.log[q], n, TRUE)
      BY <1>13, <2>3 DEF Tells
    <3>2. Quiet(d.log[q], left[q], n)
      BY <1>7, <1>14, <2>1, <2>3 DEF Tells
    <3>3. News(d.log[q], c.log[q], n, TRUE)
      BY <3>1, <3>2, NewsAfter
    <3>4. One(d, Q, M) /\ (Holders(d, Q, M) = {}) = TRUE
      BY <1>9 DEF One
    <3> QED
      BY <2>1, <2>3, <3>3, <3>4
  <2>4. CASE ~(q = P /\ n = N) /\ ~(q = Q /\ n = M)
    <3>1. Quiet(left[q], c.log[q], n)
      BY <1>13, <2>1, <2>4 DEF Tells
    <3>2. Quiet(d.log[q], left[q], n)
      BY <1>14, <2>1, <2>4 DEF Tells
    <3>3. Quiet(d.log[q], c.log[q], n)
      BY <3>1, <3>2, NewsAfter
    <3> QED
      BY <1>10, <2>1, <2>4, <3>3
  <2> QED
    BY <2>2, <2>3, <2>4
<1>16. Logs(d.log)
  BY <1>14 DEF Tells
<1>17. Told(d, b)
  BY <1>4, <1>11, <1>15 DEF Told
<1> QED
  BY <1>16, <1>17

-----------------------------------------------------------------------------
(* One holder to a place, and a log that is one, step by step.             *)

Placed(d) == Unique(d) /\ Logs(d.log)

LEMMA StepTells ==
  ASSUME IInv, NEW p \in Procs, Step(p), ~raced', raced \/ Placed(db)
  PROVE  /\ Placed(db')
         /\ db' = db \/ Told(db', db)
<1>1. CASE Lookup(p) \/ SumFileSizes(p) \/ RollBack(p)
  BY <1>1, TablesStay
<1>2. Shape(db) /\ ConstraintsHold(db)
  BY DEF IInv
<1>3. ASSUME NEW w, Ran(p, w)
      PROVE  Unique(db) /\ Logs(db.log) /\ Held(db, w) /\ Situated(db, w)
  BY <1>3, RanFresh, RanSituated DEF Placed
<1>4. ASSUME Unique(db), Told(db', db), Logs(db'.log)
      PROVE  Placed(db') /\ (db' = db \/ Told(db', db))
  BY <1>4, StillUnique DEF Placed
<1>5. CASE PutOverwrite(p)
  <2>1. PICK w : /\ Ran(p, w) /\ w.req.op = "PUT" /\ w.target # None /\ Overwrites(db', db, w)
    BY <1>5, PutOverwriteMakes
  <2>2. Unique(db) /\ Logs(db.log) /\ Held(db, w) /\ Situated(db, w)
    BY <1>3, <2>1
  <2>3. Told(db', db) /\ Logs(db'.log)
    BY <1>2, <2>1, <2>2, OverwriteTells
  <2> QED
    BY <1>4, <2>2, <2>3
<1>6. CASE PutCreate(p)
  <2>1. PICK w : /\ Ran(p, w) /\ w.req.op = "PUT" /\ w.target = None /\ CreatesFile(db', db, w)
    BY <1>6, PutCreateMakes
  <2>2. Unique(db) /\ Logs(db.log) /\ Situated(db, w)
    BY <1>3, <2>1
  <2>3. Told(db', db) /\ Logs(db'.log)
    BY <1>2, <2>1, <2>2, CreateTells
  <2> QED
    BY <1>4, <2>2, <2>3
<1>7. CASE Mkcol(p)
  <2>1. PICK w : Ran(p, w) /\ w.req.op = "MKCOL" /\ CreatesColl(db', db, w)
    BY <1>7, MkcolMakes
  <2>2. Unique(db) /\ Logs(db.log) /\ Situated(db, w)
    BY <1>3, <2>1
  <2>3. Told(db', db) /\ Logs(db'.log)
    BY <1>2, <2>1, <2>2, CreateCollTells
  <2> QED
    BY <1>4, <2>2, <2>3
<1>8. CASE Delete(p)
  <2>1. PICK w, c : Ran(p, w) /\ w.req.op = "DELETE" /\ Keeps(c, db) /\ Deletes(db', c, db, w)
    BY <1>8, DeleteActionMakes
  <2>2. Unique(db) /\ Logs(db.log) /\ Held(db, w) /\ Shape(c)
    BY <1>3, <2>1 DEF Keeps
  <2>3. Told(db', db) /\ Logs(db'.log)
    BY <1>2, <2>1, <2>2, DeleteTells
  <2> QED
    BY <1>4, <2>2, <2>3
<1>9. CASE Copy(p)
  <2>1. PICK w, c, a, e, added :
           /\ Ran(p, w) /\ w.req.op = "COPY" /\ Keeps(c, db) /\ Keeps(a, c) /\ Keeps(e, a)
           /\ Copies(db', e, a, c, db, w, added)
    BY <1>9, CopyActionMakes
  <2>2. Unique(db) /\ Logs(db.log) /\ Held(db, w) /\ Situated(db, w)
    BY <1>3, <2>1
  <2>3. Shape(c) /\ Shape(a) /\ Shape(e)
    BY <2>1 DEF Keeps
  <2>4. Told(db', db) /\ Logs(db'.log)
    BY <1>2, <2>1, <2>2, <2>3, CopyTells
  <2> QED
    BY <1>4, <2>2, <2>4
<1>10. CASE Move(p)
  <2>1. PICK w, c : Ran(p, w) /\ w.req.op = "MOVE" /\ Keeps(c, db) /\ Moves(db', c, db, w)
    BY <1>10, MoveMakes
  <2>2. Unique(db) /\ Logs(db.log) /\ Held(db, w) /\ Situated(db, w) /\ Shape(c)
    BY <1>3, <2>1 DEF Keeps
  <2>3. Told(db', db) /\ Logs(db'.log)
    BY <1>2, <2>1, <2>2, MoveTells
  <2> QED
    BY <1>4, <2>2, <2>3
<1> QED
  BY <1>1, <1>5, <1>6, <1>7, <1>8, <1>9, <1>10 DEF Step

LEMMA RacedStays ==
  ASSUME IInv, [Next]_vars, ~raced'
  PROVE  ~raced
<1>1. ASSUME NEW p \in Procs, Step(p)
      PROVE  ~raced
  <2>1. CASE Lookup(p) \/ SumFileSizes(p) \/ RollBack(p)
    BY <2>1, TablesStay
  <2>2. CASE \E d : Commit(p, d)
    BY <2>2 DEF Commit, IInv
  <2>3. PutOverwrite(p) \/ PutCreate(p) \/ Mkcol(p) \/ Delete(p) \/ Copy(p) \/ Move(p)
          => \E d : Commit(p, d)
    BY PutOverwriteKeeps, PutCreateKeeps, MkcolKeeps, DeleteActionKeeps, CopyActionKeeps, MoveKeeps
  <2> QED
    BY <1>1, <2>1, <2>2, <2>3 DEF Step
<1>2. CASE UNCHANGED vars
  BY <1>2 DEF vars
<1> QED
  BY <1>1, <1>2 DEF Next

LEMMA NextTells ==
  ASSUME IInv, [Next]_vars, ~raced', raced \/ Placed(db)
  PROVE  /\ Placed(db')
         /\ db' = db \/ Told(db', db)
<1>1. CASE Next
  BY <1>1, StepTells DEF Next
<1>2. CASE UNCHANGED vars
  BY <1>2 DEF vars
<1> QED
  BY <1>1, <1>2

LEMMA StartsPlaced ==
  ASSUME Init
  PROVE  /\ DOMAIN db.colls = {Root} /\ db.log[Root] = <<>> /\ Placed(db)
         /\ \A c, n : Holders(db, c, n) = {} \/ c = 0
<1>1. db = NewTenant
  BY DEF Init, InitWith
<1>2. PICK d : d = NewTenant
  OBVIOUS
<1>3. /\ d.colls = [c \in {Root} |-> CollRow(0, "")] /\ d.log = [c \in {Root} |-> <<>>]
      /\ d.files = [f \in {} |-> None]
  BY <1>2 DEF NewTenant
<1>4. DOMAIN d.colls = {Root} /\ DOMAIN d.log = {Root} /\ DOMAIN d.files = {}
  BY <1>3, Zenon
<1>5. d.colls[Root].parent = 0
  BY <1>1, <1>2, Starts DEF IInv, Shape
<1>6. d.log[Root] = <<>>
  BY <1>3, Zenon
<1>7. IsLog(<<>>)
  <2>1. <<>> \in Seq({})
    OBVIOUS
  <2> QED
    BY <2>1 DEF IsLog
<1>8. Logs(d.log)
  BY <1>4, <1>6, <1>7 DEF Logs
<1>9. \A c, n : Holders(d, c, n) = {} \/ c = 0
  <2> TAKE c, n
  <2> SUFFICES ASSUME c # 0, NEW h \in Holders(d, c, n)
               PROVE  FALSE
    OBVIOUS
  <2> QED
    BY <1>4, <1>5, HoldersAre
<1>10. Unique(d)
  <2>1. Root # 0
    BY DEF Root
  <2> QED
    BY <1>4, <1>9, <2>1 DEF Unique, One
<1> QED
  BY <1>1, <1>2, <1>4, <1>6, <1>8, <1>9, <1>10 DEF Placed

\* Unless some request committed on a stale lookup, whatever comes to hold a
\* name in a collection, or ceases to, or gets another ETag, leaves a new row
\* of that name in the log of the collection (recordChange in every handler).
THEOREM ChangesAreLogged == Spec => MembershipLogged
<1> DEFINE Inv == IInv /\ (raced \/ Placed(db))
           Step1 == raced' \/ \A c \in DOMAIN db.colls \cap DOMAIN db'.colls :
                      \A n \in MemberNames(db, c) \cup MemberNames(db', c) :
                        Holders(db, c, n) # Holders(db', c, n) =>
                          \E i \in RowsOf(db', c, n) : i > Len(db.log[c])
<1>1. Init => Inv
  BY Starts, StartsPlaced
<1>2. Inv /\ [Next]_vars => Inv'
  BY StepKeeps, NextTells
<1>3. Inv /\ [Next]_vars => [Step1]_vars
  <2> SUFFICES ASSUME Inv, [Next]_vars, ~raced',
                      NEW c \in DOMAIN db.colls \cap DOMAIN db'.colls, NEW n,
                      Holders(db, c, n) # Holders(db', c, n)
               PROVE  \E i \in RowsOf(db', c, n) : i > Len(db.log[c])
    OBVIOUS
  <2>1. Told(db', db)
    BY NextTells
  <2>2. News(db'.log[c], db.log[c], n, Holders(db', c, n) = {})
    BY <2>1 DEF Told
  <2> QED
    BY <2>2 DEF News, RowsIn, RowsOf
<1> QED
  BY <1>1, <1>2, <1>3, PTL DEF Spec, MembershipLogged

-----------------------------------------------------------------------------
(* What the last row of a name says.                                       *)

Says(s, n, gone) ==
  \E i \in RowsIn(s, n) :
    (\A j \in RowsIn(s, n) : j <= i) /\ (s[i].action = "deleted" <=> gone)
Agreeing(d) ==
  \A c \in DOMAIN d.colls : \A n :
    RowsIn(d.log[c], n) # {} => Says(d.log[c], n, Holders(d, c, n) = {})

LEMMA ToldAgrees ==
  ASSUME NEW b, Agreeing(b), NEW d, Told(d, b)
  PROVE  Agreeing(d)
<1> SUFFICES ASSUME NEW c \in DOMAIN d.colls, NEW n, RowsIn(d.log[c], n) # {}
             PROVE  Says(d.log[c], n, Holders(d, c, n) = {})
  BY DEF Agreeing
<1>1. CASE c \in DOMAIN b.colls /\ Holders(d, c, n) = Holders(b, c, n) /\ Quiet(d.log[c], b.log[c], n)
  <2>1. RowsIn(d.log[c], n) = RowsIn(b.log[c], n) /\ \A i \in RowsIn(b.log[c], n) : d.log[c][i] = b.log[c][i]
    BY <1>1 DEF Quiet
  <2>2. Says(b.log[c], n, Holders(b, c, n) = {})
    BY <1>1, <2>1 DEF Agreeing
  <2> QED
    BY <1>1, <2>1, <2>2 DEF Says
<1>2. CASE News(d.log[c], b.log[c], n, Holders(d, c, n) = {})
  BY <1>2 DEF News, Says
<1>3. CASE d.log[c] = <<>>
  <2>1. DOMAIN d.log[c] = {}
    BY <1>3
  <2> QED
    BY <2>1 DEF RowsIn
<1> QED
  BY <1>1, <1>2, <1>3 DEF Told

LEMMA NoMemberIs ==
  ASSUME NEW d, NEW c, NEW n
  PROVE  n \notin MemberNames(d, c) <=> Holders(d, c, n) = {}
<1>1. CASE n \in MemberNames(d, c)
  <2>1. \E h : h \in Holders(d, c, n)
    <3>1. CASE \E x \in SubColls(d, c) : n = d.colls[x].name
      <4>1. PICK x \in DOMAIN d.colls : d.colls[x].parent = c /\ d.colls[x].name = n
        BY <3>1 DEF SubColls
      <4>2. Coll(d, x) \in Holders(d, c, n)
        BY <4>1, HoldersAre
      <4> QED
        BY <4>2
    <3>2. CASE \E f \in SubFiles(d, c) : n = d.files[f].name
      BY <3>2, HoldersAre DEF SubFiles
    <3> QED
      BY <1>1, <3>1, <3>2 DEF MemberNames
  <2> QED
    BY <1>1, <2>1
<1>2. ASSUME NEW h \in Holders(d, c, n)
      PROVE  n \in MemberNames(d, c)
  <2>1. CASE \E x \in DOMAIN d.colls : d.colls[x].parent = c /\ d.colls[x].name = n
    BY <2>1 DEF MemberNames, SubColls
  <2>2. CASE \E f \in DOMAIN d.files : d.files[f].parent = c /\ d.files[f].name = n
    BY <2>2 DEF MemberNames, SubFiles
  <2> QED
    BY <1>2, <2>1, <2>2, HoldersAre
<1> QED
  BY <1>1, <1>2

LEMMA DeletedLastIs ==
  ASSUME NEW d, NEW c, IsLog(d.log[c]), NEW n, NEW gone, gone \in BOOLEAN, Says(d.log[c], n, gone)
  PROVE  DeletedLast(d, c, n) <=> gone
<1>1. PICK S : S = RowsOf(d, c, n)
  OBVIOUS
<1>2. S = RowsIn(d.log[c], n)
  BY <1>1 DEF RowsOf, RowsIn
<1>3. PICK i \in S : (\A j \in S : j <= i) /\ (d.log[c][i].action = "deleted" <=> gone)
  BY <1>2 DEF Says
<1>4. S \subseteq Int
  <2>1. PICK T : d.log[c] \in Seq(T)
    BY DEF IsLog
  <2>2. DOMAIN d.log[c] \subseteq Int
    BY <2>1
  <2> QED
    BY <1>2, <2>2 DEF RowsIn
<1>5. Max(S) = i
  <2>1. PICK m : m = Max(S)
    OBVIOUS
  <2>2. \A j \in S : i >= j
    BY <1>3, <1>4
  <2>3. m \in S /\ \A j \in S : m >= j
    BY <1>3, <2>1, <2>2 DEF Max
  <2>4. m \in Int /\ i \in Int /\ m >= i /\ m <= i
    BY <1>3, <1>4, <2>3
  <2> QED
    BY <2>1, <2>4
<1> QED
  BY <1>1, <1>3, <1>5 DEF DeletedLast

\* Unless some request committed on a stale lookup, the last row of a name in
\* the log of a collection says "deleted" exactly if the collection has no such
\* member, which is what a sync report tells the client to drop.
THEOREM LastRowsAreTrue == Spec => []LogAgrees
<1> DEFINE Inv == IInv /\ (raced \/ (Placed(db) /\ Agreeing(db)))
<1>1. Init => Inv
  <2> SUFFICES ASSUME Init
               PROVE  Agreeing(db)
    BY Starts, StartsPlaced
  <2>1. (DOMAIN <<>>) = {}
    OBVIOUS
  <2> QED
    BY <2>1, StartsPlaced DEF Agreeing, RowsIn
<1>2. Inv /\ [Next]_vars => Inv'
  <2> SUFFICES ASSUME Inv, [Next]_vars, ~raced'
               PROVE  Placed(db') /\ Agreeing(db')
    BY StepKeeps
  <2>1. ~raced
    BY RacedStays
  <2> QED
    BY <2>1, NextTells, ToldAgrees
<1>3. Inv => LogAgrees
  <2> SUFFICES ASSUME Inv, ~raced, NEW c \in DOMAIN db.colls, NEW n \in LoggedNames(db, c)
               PROVE  DeletedLast(db, c, n) <=> n \notin MemberNames(db, c)
    BY DEF LogAgrees
  <2>1. RowsIn(db.log[c], n) # {} /\ IsLog(db.log[c])
    BY DEF LoggedNames, RowsIn, Placed, Logs, IInv, Shape
  <2>2. PICK gone \in BOOLEAN : gone = (Holders(db, c, n) = {})
    OBVIOUS
  <2>3. Says(db.log[c], n, gone)
    BY <2>1, <2>2 DEF Agreeing
  <2>4. DeletedLast(db, c, n) <=> gone
    BY <2>1, <2>3, DeletedLastIs
  <2> QED
    BY <2>2, <2>4, NoMemberIs
<1> QED
  BY <1>1, <1>2, <1>3, PTL DEF Spec

-----------------------------------------------------------------------------
(* Every collection is below the root: whatever holds the root and, with a  *)
(* collection, those in it, holds them all.                                 *)

Rooted(d) == \A S : Root \in S /\ ClosedDown(d, S) => DOMAIN d.colls \subseteq S

LEMMA RootedIs ==
  ASSUME NEW d, Shape(d), Rooted(d)
  PROVE  Subtree(d, Root) = DOMAIN d.colls
<1>1. IsFiniteSet(DOMAIN d.colls) /\ Root \in DOMAIN d.colls
  BY Finite DEF Shape
<1>2. /\ Subtree(d, Root) \subseteq DOMAIN d.colls
      /\ Root \in Subtree(d, Root) /\ ClosedDown(d, Subtree(d, Root))
  BY <1>1, SubtreeClosed
<1> QED
  BY <1>2 DEF Rooted

LEMMA RootedSame ==
  ASSUME NEW b, Rooted(b), NEW d, d.colls = b.colls
  PROVE  Rooted(d)
BY DEF Rooted, ClosedDown, SubColls

\* Where rows are added, what was there is where it was.
LEMMA RootedBefore ==
  ASSUME NEW b, Rooted(b), NEW d, DOMAIN b.colls \subseteq DOMAIN d.colls,
         \A x \in DOMAIN b.colls : d.colls[x] = b.colls[x],
         NEW S, Root \in S, ClosedDown(d, S)
  PROVE  DOMAIN b.colls \subseteq S
<1>1. ClosedDown(b, S)
  BY DEF ClosedDown, SubColls
<1> QED
  BY <1>1 DEF Rooted

LEMMA CreateCollRoots ==
  ASSUME NEW b, Shape(b), Rooted(b), NEW w, Situated(b, w), w.req.op = "MKCOL",
         NEW d, CreatesColl(d, b, w)
  PROVE  Rooted(d)
<1> DEFINE P == w.parent.id
           x == b.nextColl
<1>1. Destined(b, w.parent, w.req.path, None) /\ w.req.path \in Seq(STRING)
  BY DEF Situated
<1>2. P \in DOMAIN b.colls
  <2>1. w.req.path # <<>> /\ Front(w.req.path) \in Seq(STRING)
    BY <1>1, FrontOf DEF Destined
  <2>2. w.parent \in Handles(b) /\ w.parent # None /\ w.parent.kind = "coll"
    BY <1>1, <2>1, ResolveFinds DEF Destined, None
  <2> QED
    BY <2>2, HandlesAre DEF IsFile
<1>3. \A n : CollRow(P, n).parent = P
  BY DEF CollRow
<1>4. PICK row : row = CollRow(P, Last(w.req.path))
  OBVIOUS
<1>5. d.colls = With(b.colls, x, row) /\ row.parent = P
  BY <1>3, <1>4 DEF CreatesColl
<1>6. x \notin DOMAIN b.colls
  BY DEF Shape
<1> HIDE DEF P, x
<1>7. /\ DOMAIN d.colls = DOMAIN b.colls \cup {x} /\ d.colls[x].parent = P
      /\ \A y \in DOMAIN b.colls : d.colls[y] = b.colls[y]
  BY <1>5, <1>6 DEF With
<1>8. ASSUME NEW S, Root \in S, ClosedDown(d, S)
      PROVE  DOMAIN d.colls \subseteq S
  <2>1. DOMAIN b.colls \subseteq S
    BY <1>7, <1>8, RootedBefore
  <2>2. x \in S
    BY <1>2, <1>7, <1>8, <2>1 DEF ClosedDown, SubColls, P
  <2> QED
    BY <1>7, <2>1, <2>2
<1> QED
  BY <1>8 DEF Rooted

LEMMA ClearedRoots ==
  ASSUME NEW b, Shape(b), Rooted(b), NEW t \in Handles(b), NEW c, Clears(c, b, t)
  PROVE  Rooted(c)
<1> DEFINE T == CollsBelow(b, t)
<1>1. DOMAIN c.colls = DOMAIN b.colls \ T /\ \A x \in DOMAIN c.colls : c.colls[x] = b.colls[x]
  BY DEF Clears, Kept
<1>2. ClosedDown(b, T)
  BY Finite, SubtreeClosed DEF CollsBelow, ClosedDown
<1> HIDE DEF T
<1> SUFFICES ASSUME NEW S, Root \in S, ClosedDown(c, S)
             PROVE  DOMAIN c.colls \subseteq S
  BY DEF Rooted
<1>3. ClosedDown(b, S \cup T)
  BY <1>1, <1>2 DEF ClosedDown, SubColls
<1>4. DOMAIN b.colls \subseteq S \cup T
  BY <1>3 DEF Rooted
<1> QED
  BY <1>1, <1>4

LEMMA CopiedRoots ==
  ASSUME NEW a, Shape(a), Rooted(a), NEW c \in 1..(a.nextColl - 1), NEW P \in DOMAIN a.colls,
         NEW name, NEW user, NEW recursive,
         NEW e, Copied(e, a, c, P, name, user, recursive)
  PROVE  Rooted(e)
<1> DEFINE C == CopiedColls(a, c, recursive)
           T == Subtree(a, c)
           m(x) == NewColl(a, c, recursive, x)
           M == NewColls(a, c, recursive)
<1>1. M = {m(x) : x \in C} /\ c \in C /\ C \subseteq T \cup {c}
  BY DEF NewColls, CopiedColls
<1>2. /\ IsFiniteSet(DOMAIN a.colls) /\ T \subseteq DOMAIN a.colls
      /\ c \in DOMAIN a.colls => c \in T
      /\ ClosedDown(a, T)
  BY Finite, SubtreeClosed
<1>3. M \cap DOMAIN a.colls = {}
  BY NewRows
<1>4. /\ DOMAIN e.colls = DOMAIN a.colls \cup M
      /\ \A y \in DOMAIN a.colls : e.colls[y] = a.colls[y]
  BY DEF Copied
<1>5. /\ e.colls[m(c)].parent = P
      /\ \A x \in C \ {c} : e.colls[m(x)].parent = m(a.colls[x].parent)
  <2>1. \A p, n : CollRow(p, n).parent = p
    BY DEF CollRow
  <2>2. \A x \in C : e.colls[m(x)] = IF x = c THEN CollRow(P, name)
                                     ELSE CollRow(m(a.colls[x].parent), a.colls[x].name)
    BY DEF Copied
  <2> HIDE DEF C, m
  <2>3. e.colls[m(c)] = CollRow(P, name)
    BY <1>1, <2>2
  <2>4. \A x \in C \ {c} : e.colls[m(x)] = CollRow(m(a.colls[x].parent), a.colls[x].name)
    BY <2>2
  <2> QED
    BY <2>1, <2>3, <2>4
<1>6. recursive => C = T \cup {c}
  BY DEF CopiedColls
<1>7. ~recursive => C = {c}
  BY DEF CopiedColls
<1> SUFFICES ASSUME NEW S, Root \in S, ClosedDown(e, S)
             PROVE  DOMAIN e.colls \subseteq S
  BY DEF Rooted
<1>8. DOMAIN a.colls \subseteq S
  BY <1>4, RootedBefore
<1> HIDE DEF C, T, m, M
<1>9. \A x \in C : m(x) \in DOMAIN e.colls
  BY <1>1, <1>4
<1>10. m(c) \in S
  BY <1>1, <1>5, <1>8, <1>9 DEF ClosedDown, SubColls
<1>11. ASSUME recursive
       PROVE  \A x \in T : m(x) \in S
  <2> DEFINE X == {x \in T : m(x) \in S}
  <2>1. {c} \cap DOMAIN a.colls \subseteq X
    BY <1>2, <1>10
  <2>2. ASSUME NEW x \in X, NEW y \in SubColls(a, x)
        PROVE  y \in X
    <3>1. y \in T /\ a.colls[y].parent = x
      BY <1>2, <2>2 DEF ClosedDown, SubColls
    <3>2. CASE y = c
      BY <1>10, <3>1, <3>2
    <3>3. CASE y # c
      <4>1. y \in C \ {c}
        BY <1>6, <1>11, <3>1, <3>3
      <4>2. e.colls[m(y)].parent = m(x) /\ m(y) \in DOMAIN e.colls
        BY <1>5, <1>9, <3>1, <4>1
      <4>3. m(y) \in S
        BY <2>2, <4>2 DEF ClosedDown, SubColls
      <4> QED
        BY <3>1, <4>3
    <3> QED
      BY <3>2, <3>3
  <2>3. ClosedDown(a, X)
    BY <2>2 DEF ClosedDown
  <2> HIDE DEF X
  <2>4. T \subseteq X
    BY <1>2, <2>1, <2>3, SubtreeLeast DEF T
  <2> QED
    BY <2>4 DEF X
<1>12. \A x \in C : m(x) \in S
  BY <1>6, <1>7, <1>10, <1>11
<1> QED
  BY <1>1, <1>4, <1>8, <1>12

\* A collection moves to where its own subtree does not reach.
LEMMA MoveRoots ==
  ASSUME NEW b, Shape(b), NEW w, Held(b, w), Situated(b, w), w.req.op = "MOVE",
         NEW c, Shape(c), Rooted(c), Cleared(c, b, w), NEW d, Moves(d, c, b, w)
  PROVE  Rooted(d)
<1> DEFINE t == w.target
           P == w.parent.id
           path == w.req.path
           dest == w.req.dest
<1>1. CASE ~(t.kind = "coll" /\ t.id \in DOMAIN c.colls)
  BY <1>1, RootedSame DEF Moves
<1>2. CASE t.kind = "coll" /\ t.id \in DOMAIN c.colls
  <2>1. PICK row : row = CollRow(P, Last(dest))
    OBVIOUS
  <2>2. row.parent = P /\ d.colls = With(c.colls, t.id, row)
    BY <1>2, <2>1 DEF CollRow, Moves
  <2>3. /\ DOMAIN d.colls = DOMAIN c.colls /\ d.colls[t.id].parent = P
        /\ \A x \in DOMAIN c.colls \ {t.id} : d.colls[x] = c.colls[x]
    BY <1>2, <2>2 DEF With
  <2>4. P \in DOMAIN c.colls
    BY DEF Moves, Shape
  <2>5. /\ path \in Seq(STRING) /\ dest \in Seq(STRING) /\ dest # <<>>
        /\ ~IsPrefix(path, dest)
        /\ t \in Resolve(b, path)
        /\ w.parent \in Resolve(b, Front(dest)) /\ w.parent.kind = "coll"
    BY <1>2 DEF Situated, Destined, None
  <2>6. P \notin Subtree(b, t.id)
    <3> SUFFICES ASSUME P \in Subtree(b, t.id)
                 PROVE  FALSE
      OBVIOUS
    <3>1. /\ Front(dest) \in Seq(STRING) /\ Len(Front(dest)) = Len(dest) - 1
          /\ Len(dest) \in Nat \ {0}
          /\ \A i \in 1..(Len(dest) - 1) : Front(dest)[i] = dest[i]
      BY <2>5, FrontOf
    <3>4. Len(path) \in Nat
      BY <2>5
    <3>2. Prefixed(path, Front(dest))
      BY <1>2, <2>5, <3>1, Inside
    <3>3. Prefixed(path, dest)
      <4> HIDE DEF path, dest
      <4>1. Len(path) <= Len(dest) - 1 /\ \A i \in 1..Len(path) : path[i] = Front(dest)[i]
        BY <3>1, <3>2 DEF Prefixed
      <4>2. Len(path) <= Len(dest) /\ \A i \in 1..Len(path) : i \in 1..(Len(dest) - 1)
        BY <3>1, <3>4, <4>1
      <4> QED
        BY <3>1, <4>1, <4>2 DEF Prefixed
    <3> QED
      BY <2>5, <3>3, PrefixIs
  <2>7. P \notin Subtree(c, t.id)
    <3>1. IsFiniteSet(DOMAIN b.colls) /\ IsFiniteSet(DOMAIN c.colls)
      BY Finite
    <3>2. DOMAIN c.colls \subseteq DOMAIN b.colls /\ \A x \in DOMAIN c.colls : c.colls[x] = b.colls[x]
      BY DEF Cleared, Clears, Kept
    <3>3. t.id \in Subtree(b, t.id) /\ ClosedDown(b, Subtree(b, t.id))
      BY <1>2, <3>1, <3>2, SubtreeClosed
    <3>4. ClosedDown(c, Subtree(b, t.id))
      BY <3>2, <3>3 DEF ClosedDown, SubColls
    <3>5. Subtree(c, t.id) \subseteq Subtree(b, t.id)
      BY <3>1, <3>3, <3>4, SubtreeLeast
    <3> QED
      BY <2>6, <3>5
  <2>8. ASSUME NEW S, Root \in S, ClosedDown(d, S)
        PROVE  DOMAIN d.colls \subseteq S
    <3> DEFINE T == Subtree(c, t.id)
    <3>1. t.id \in T /\ ClosedDown(c, T)
      BY <1>2, Finite, SubtreeClosed
    <3> HIDE DEF T, t, P
    <3>2. \A x \in S : \A y \in SubColls(c, x) : y = t.id \/ y \in S
      BY <2>3, <2>8 DEF ClosedDown, SubColls
    <3>3. ClosedDown(c, S \cup T)
      BY <3>1, <3>2 DEF ClosedDown
    <3>4. P \in S
      BY <2>4, <2>7, <2>8, <3>3 DEF Rooted, T
    <3>5. t.id \in S
      BY <1>2, <2>3, <2>8, <3>4 DEF ClosedDown, SubColls
    <3>6. ClosedDown(c, S)
      BY <3>2, <3>5 DEF ClosedDown
    <3> QED
      BY <2>3, <2>8, <3>6 DEF Rooted
  <2> QED
    BY <2>8 DEF Rooted
<1> QED
  BY <1>1, <1>2

LEMMA StepRoots ==
  ASSUME IInv, NEW p \in Procs, Step(p), ~raced', raced \/ Rooted(db)
  PROVE  Rooted(db')
<1>1. CASE Lookup(p) \/ SumFileSizes(p) \/ RollBack(p)
  BY <1>1, TablesStay
<1>2. Shape(db)
  BY DEF IInv
<1>3. ASSUME NEW w, Ran(p, w)
      PROVE  Rooted(db) /\ Held(db, w) /\ Situated(db, w)
  BY <1>3, RanFresh, RanSituated
<1>4. ASSUME NEW w, Ran(p, w), NEW c, Cleared(c, db, w)
      PROVE  Rooted(c)
  <2>1. w.existing \in Handles(db) /\ Rooted(db)
    BY <1>3, <1>4 DEF Held
  <2> QED
    BY <1>2, <1>4, <2>1, ClearedRoots DEF Cleared
<1>5. CASE PutOverwrite(p)
  <2>1. PICK w : Ran(p, w) /\ Overwrites(db', db, w)
    BY <1>5, PutOverwriteMakes
  <2>2. db'.colls = db.colls
    BY <2>1 DEF Overwrites
  <2> QED
    BY <1>3, <2>1, <2>2, RootedSame
<1>6. CASE PutCreate(p)
  <2>1. PICK w : Ran(p, w) /\ CreatesFile(db', db, w)
    BY <1>6, PutCreateMakes
  <2>2. db'.colls = db.colls
    BY <2>1 DEF CreatesFile
  <2> QED
    BY <1>3, <2>1, <2>2, RootedSame
<1>7. CASE Mkcol(p)
  <2>1. PICK w : Ran(p, w) /\ w.req.op = "MKCOL" /\ CreatesColl(db', db, w)
    BY <1>7, MkcolMakes
  <2> QED
    BY <1>2, <1>3, <2>1, CreateCollRoots
<1>8. CASE Delete(p)
  <2>1. PICK w, c : Ran(p, w) /\ Deletes(db', c, db, w)
    BY <1>8, DeleteActionMakes
  <2>2. w.target \in Handles(db) /\ Clears(c, db, w.target) /\ db'.colls = c.colls
    BY <1>3, <2>1 DEF Held, Deletes, Relogs
  <2>3. Rooted(c)
    BY <1>2, <1>3, <2>1, <2>2, ClearedRoots
  <2> QED
    BY <2>2, <2>3, RootedSame
<1>9. CASE Copy(p)
  <2>1. PICK w, c, a, e, added :
           /\ Ran(p, w) /\ w.req.op = "COPY" /\ Keeps(c, db) /\ Keeps(a, c) /\ Keeps(e, a)
           /\ Copies(db', e, a, c, db, w, added)
    BY <1>9, CopyActionMakes
  <2>2. Shape(a) /\ w.parent.id \in DOMAIN a.colls /\ Cleared(c, db, w)
    BY <2>1 DEF Keeps, Shape, Copies
  <2>3. a.colls = c.colls /\ a.nextColl = c.nextColl /\ db'.colls = e.colls
    BY <2>1 DEF Copies, SameRows, Relogs
  <2>4. Rooted(a)
    BY <1>4, <2>1, <2>2, <2>3, RootedSame
  <2>5. Rooted(e)
    <3>1. CASE w.target.kind = "coll"
      <4>1. Copied(e, a, w.target.id, w.parent.id, Last(w.req.dest), w.req.user, w.req.recursive)
        BY <2>1, <3>1 DEF Copies
      <4>2. w.target.id \in 1..(db.nextColl - 1) /\ c.nextColl = db.nextColl
        BY <1>3, <2>1, <2>2, <3>1 DEF Held, Chosen, IsHandle, IsColl, IsFile, Cleared, Clears
      <4> QED
        BY <2>2, <2>3, <2>4, <4>1, <4>2, CopiedRoots
    <3>2. CASE w.target.kind # "coll"
      BY <2>1, <2>4, <3>2, RootedSame DEF Copies
    <3> QED
      BY <3>1, <3>2
  <2> QED
    BY <2>3, <2>5, RootedSame
<1>10. CASE Move(p)
  <2>1. PICK w, c : Ran(p, w) /\ w.req.op = "MOVE" /\ Keeps(c, db) /\ Moves(db', c, db, w)
    BY <1>10, MoveMakes
  <2>2. Cleared(c, db, w) /\ Shape(c) /\ Held(db, w) /\ Situated(db, w)
    BY <1>3, <2>1 DEF Moves, Keeps
  <2>3. Rooted(c)
    BY <1>4, <2>1, <2>2
  <2> QED
    BY <1>2, <2>1, <2>2, <2>3, MoveRoots
<1> QED
  BY <1>1, <1>5, <1>6, <1>7, <1>8, <1>9, <1>10 DEF Step

LEMMA OneHolder ==
  ASSUME NEW d, NEW c, NEW n \in MemberNames(d, c), One(d, c, n)
  PROVE  Cardinality(Holders(d, c, n)) = 1
<1>1. PICK h : h \in Holders(d, c, n)
  BY NoMemberIs
<1>2. Holders(d, c, n) = {h}
  BY <1>1 DEF One
<1> QED
  BY <1>2, FS_Singleton

\* Unless some request committed on a stale lookup, every collection is below
\* the root and every name in a collection has one holder, so a path has one
\* meaning: MKCOL and PUT refuse a name that is taken, COPY and MOVE clear it,
\* and no collection moves below itself (isDestinationWithinSource).
THEOREM TheTreeIsSound == Spec => []TreeIsSound
<1> DEFINE Inv == IInv /\ (raced \/ (Placed(db) /\ Rooted(db)))
<1>1. Init => Inv
  <2> SUFFICES ASSUME Init
               PROVE  Rooted(db)
    BY Starts, StartsPlaced
  <2> QED
    BY StartsPlaced DEF Rooted
<1>2. Inv /\ [Next]_vars => Inv'
  <2> SUFFICES ASSUME Inv, [Next]_vars, ~raced'
               PROVE  Placed(db') /\ Rooted(db')
    BY StepKeeps
  <2>1. ~raced
    BY RacedStays
  <2>2. Rooted(db')
    <3>1. CASE Next
      BY <2>1, <3>1, StepRoots DEF Next
    <3>2. CASE UNCHANGED vars
      BY <2>1, <3>2 DEF vars
    <3> QED
      BY <3>1, <3>2
  <2> QED
    BY <2>1, <2>2, NextTells
<1>3. Inv => TreeIsSound
  <2> SUFFICES ASSUME Inv, ~raced
               PROVE  /\ Subtree(db, Root) = DOMAIN db.colls
                      /\ \A c \in DOMAIN db.colls : \A n \in MemberNames(db, c) :
                           Cardinality(Holders(db, c, n)) = 1
    BY DEF TreeIsSound
  <2>1. Subtree(db, Root) = DOMAIN db.colls
    BY RootedIs DEF IInv
  <2>2. \A c \in DOMAIN db.colls : \A n \in MemberNames(db, c) : Cardinality(Holders(db, c, n)) = 1
    BY OneHolder DEF Placed, Unique
  <2> QED
    BY <2>1, <2>2
<1> QED
  BY <1>1, <1>2, <1>3, PTL DEF Spec

=============================================================================
