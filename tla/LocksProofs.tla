----------------------------- MODULE LocksProofs -----------------------------
(***************************************************************************)
(* What is proved of Locks, for all clients, requests, trees and bounds:   *)
(* of a lock nothing but its end ever changes and none comes back, and     *)
(* locks come to conflict only by a race or by a MOVE that takes along     *)
(* locks of others.  Both rest on what is above a row: the walk up the     *)
(* tree ends, and finds the smallest set that has the row and, of every    *)
(* row but the root, the parent.                                           *)
(***************************************************************************)
EXTENDS Locks, FiniteSetTheorems, NaturalsInduction, WellFoundedInduction, TLAPS

-----------------------------------------------------------------------------
(* Recursion along the naturals.                                           *)

\* What holds of 0, and of n + 1 if of n, holds of every natural.
LEMMA Inductive ==
  ASSUME NEW S \in SUBSET Nat, 0 \in S, \A n \in S : n + 1 \in S
  PROVE  S = Nat
<1>1. SUFFICES ASSUME Nat \ S # {}
               PROVE  FALSE
  OBVIOUS
<1>2. PICK m \in Nat \ S : \A n \in Nat \ S : ~(<<n, m>> \in OpToRel(<, Nat))
  BY <1>1, NatLessThanWellFounded, WFMin
<1>3. \A n \in Nat \ S : ~(n < m)
  BY <1>2 DEF OpToRel
<1>4. m - 1 \in Nat \ S /\ m - 1 < m
  <2>1. m \in Nat /\ m \notin S /\ m # 0
    BY <1>2
  <2>2. m - 1 \in Nat /\ m - 1 < m /\ (m - 1) + 1 = m
    BY <2>1
  <2> QED
    BY <2>1, <2>2
<1> QED
  BY <1>3, <1>4

\* A sequence that starts at base and goes on by a function of what came last.
GoesBy(f, base, step, n) ==
  /\ DOMAIN f = 0..n
  /\ f[0] = base
  /\ \A i \in 1..n : f[i] = step[<<i, f[i - 1]>>]

LEMMA Recursion ==
  ASSUME NEW X, NEW base \in X, NEW step \in [(Nat \X X) -> X]
  PROVE  \A n \in Nat : \E f \in [0..n -> X] : GoesBy(f, base, step, n)
<1> DEFINE T == {n \in Nat : \E f \in [0..n -> X] : GoesBy(f, base, step, n)}
<1>1. 0 \in T
  <2> DEFINE f == [i \in 0..0 |-> base]
  <2>1. f \in [0..0 -> X] /\ GoesBy(f, base, step, 0)
    BY DEF GoesBy
  <2> QED
    BY <2>1
<1>2. ASSUME NEW n \in T
      PROVE  n + 1 \in T
  <2>1. PICK f \in [0..n -> X] : GoesBy(f, base, step, n)
    OBVIOUS
  <2>2. n \in Nat /\ n \in 0..n /\ n + 1 \in Nat
    OBVIOUS
  <2>3. PICK next \in X : next = step[<<n + 1, f[n]>>]
    BY <2>2
  <2> DEFINE g == [i \in 0..(n + 1) |-> IF i = n + 1 THEN next ELSE f[i]]
  <2>4. g \in [0..(n + 1) -> X]
    BY <2>2
  <2>5. g[0] = base
    BY <2>1, <2>2 DEF GoesBy
  <2>6. ASSUME NEW i \in 1..(n + 1)
        PROVE  g[i] = step[<<i, g[i - 1]>>]
    <3>1. i - 1 \in 0..n /\ i - 1 # n + 1 /\ i \in 0..(n + 1)
      BY <2>2
    <3>2. g[i - 1] = f[i - 1]
      BY <2>2, <3>1
    <3>3. CASE i = n + 1
      <4>1. i - 1 = n
        BY <2>2, <3>3
      <4> QED
        BY <2>3, <3>1, <3>2, <3>3, <4>1
    <3>4. CASE i # n + 1
      <4>1. i \in 1..n
        BY <2>2, <3>4
      <4> QED
        BY <2>1, <3>1, <3>2, <3>4, <4>1 DEF GoesBy
    <3> QED
      BY <3>3, <3>4
  <2>7. GoesBy(g, base, step, n + 1)
    BY <2>4, <2>5, <2>6 DEF GoesBy
  <2> QED
    BY <2>2, <2>4, <2>7
<1> HIDE DEF T
<1>3. T = Nat
  BY <1>1, <1>2, Inductive DEF T
<1> QED
  BY <1>3 DEF T

-----------------------------------------------------------------------------
(* The way up.                                                             *)

\* What one more step up adds.
Higher(t, S) == S \cup ({t[x].parent : x \in S \cap DOMAIN t} \ {NoParent})

Climbs(f, t, c, n) ==
  f = [i \in 0..n |-> IF i = 0 THEN {c} \ {NoParent} ELSE Higher(t, f[i - 1])]

LEMMA ClimbExists ==
  ASSUME NEW t, NEW c, NEW n \in Nat
  PROVE  \E f : Climbs(f, t, c, n)
<1> DEFINE Y == {c} \cup {t[x].parent : x \in DOMAIN t}
           X == SUBSET Y
           step == [k \in Nat \X X |-> Higher(t, k[2])]
<1>1. {c} \ {NoParent} \in X
  OBVIOUS
<1>2. \A S \in X : Higher(t, S) \in X
  BY DEF Higher
<1>3. step \in [(Nat \X X) -> X]
  BY <1>2
<1>4. \A i \in Nat : \A S \in X : step[<<i, S>>] = Higher(t, S)
  OBVIOUS
<1> HIDE DEF X, step
<1>5. PICK f \in [0..n -> X] : GoesBy(f, {c} \ {NoParent}, step, n)
  BY <1>1, <1>3, Recursion
<1>6. ASSUME NEW i \in 0..n
      PROVE  f[i] = IF i = 0 THEN {c} \ {NoParent} ELSE Higher(t, f[i - 1])
  <2>1. CASE i = 0
    BY <1>5, <2>1 DEF GoesBy
  <2>2. CASE i # 0
    <3>1. i \in 1..n /\ i \in Nat /\ i - 1 \in 0..n
      BY <2>2
    <3>2. f[i - 1] \in X
      BY <3>1
    <3> QED
      BY <1>4, <1>5, <2>2, <3>1, <3>2 DEF GoesBy
  <2> QED
    BY <2>1, <2>2
<1>7. Climbs(f, t, c, n)
  BY <1>6 DEF Climbs
<1> QED
  BY <1>7

LEMMA UpwardsIs ==
  ASSUME NEW t, NEW c, Cardinality(DOMAIN t) \in Nat
  PROVE  \E f : /\ Climbs(f, t, c, Cardinality(DOMAIN t))
                /\ Upwards(t, c) = f[Cardinality(DOMAIN t)]
<1> DEFINE F == CHOOSE G : Climbs(G, t, c, Cardinality(DOMAIN t))
<1>1. Climbs(F, t, c, Cardinality(DOMAIN t))
  BY ClimbExists
<1>2. Upwards(t, c) = F[Cardinality(DOMAIN t)]
  BY Zenon DEF Upwards, Climbs, Higher
<1> QED
  BY <1>1, <1>2

\* Of every row but the root the parent is a row.
Sound(t) ==
  /\ IsFiniteSet(DOMAIN t)
  /\ DOMAIN t \subseteq Nat \ {NoParent}
  /\ \A n \in DOMAIN t : t[n].parent \in DOMAIN t \cup {NoParent}

\* A set that has, of each of its rows, the parent.
ClosedUp(t, S) == \A x \in S : t[x].parent \in S \cup {NoParent}

\* What every stage of the walk has in common, and which of them are enough.
LEMMA Stages ==
  ASSUME NEW t, Sound(t), NEW c \in DOMAIN t, NEW last \in Nat,
         NEW f, Climbs(f, t, c, last)
  PROVE  /\ \A i \in 0..last : c \in f[i] /\ f[i] \subseteq DOMAIN t
         /\ \A i \in 0..last : ClosedUp(t, f[i]) \/ Cardinality(f[i]) >= i + 1
<1> DEFINE Good(i) == /\ c \in f[i] /\ f[i] \subseteq DOMAIN t
                      /\ ClosedUp(t, f[i]) \/ Cardinality(f[i]) >= i + 1
           T == {i \in Nat : i <= last => Good(i)}
<1>1. 0 \in T
  <2>1. f[0] = {c}
    BY DEF Climbs, Sound
  <2>2. Cardinality({c}) = 1
    BY FS_Singleton
  <2>3. Good(0)
    BY <2>1, <2>2
  <2> HIDE DEF Good
  <2> QED
    BY <2>3
<1>2. ASSUME NEW i \in T
      PROVE  i + 1 \in T
  <2> SUFFICES ASSUME i + 1 <= last
               PROVE  Good(i + 1)
    <3> HIDE DEF Good
    <3> QED
      OBVIOUS
  <2>1. i \in Nat /\ Good(i) /\ i + 1 \in 0..last /\ i + 1 # 0 /\ (i + 1) - 1 = i
    <3> HIDE DEF Good
    <3> QED
      OBVIOUS
  <2>2. f[i + 1] = Higher(t, f[i])
    <3>1. f[i + 1] = Higher(t, f[(i + 1) - 1])
      BY <2>1 DEF Climbs
    <3> QED
      BY <2>1, <3>1
  <2>3. f[i] \subseteq f[i + 1] /\ f[i + 1] \subseteq DOMAIN t
    BY <2>1, <2>2 DEF Higher, Sound
  <2>4. c \in f[i + 1]
    BY <2>1, <2>3
  <2>5. CASE ClosedUp(t, f[i])
    <3>1. f[i + 1] = f[i]
      BY <2>1, <2>2, <2>5 DEF Higher, ClosedUp
    <3> QED
      BY <2>3, <2>4, <2>5, <3>1
  <2>6. CASE ~ClosedUp(t, f[i])
    <3>1. PICK x \in f[i] : t[x].parent \notin f[i] \cup {NoParent}
      BY <2>6 DEF ClosedUp
    <3>2. t[x].parent \in f[i + 1]
      BY <2>1, <2>2, <3>1 DEF Higher
    <3>3. IsFiniteSet(f[i + 1])
      BY <2>3, FS_Subset DEF Sound
    <3>4. f[i] # f[i + 1]
      BY <3>1, <3>2
    <3>5. IsFiniteSet(f[i])
      BY <2>3, <3>3, FS_Subset
    <3>6. Cardinality(f[i]) \in Nat /\ Cardinality(f[i + 1]) \in Nat
      BY <3>3, <3>5, FS_CardinalityType
    <3>7. Cardinality(f[i]) < Cardinality(f[i + 1])
      <4>1. Cardinality(f[i]) <= Cardinality(f[i + 1])
        BY <2>3, <3>3, FS_Subset
      <4>2. Cardinality(f[i]) # Cardinality(f[i + 1])
        BY <2>3, <3>3, <3>4, FS_Subset
      <4> QED
        BY <3>6, <4>1, <4>2
    <3>8. Cardinality(f[i]) >= i + 1
      BY <2>1, <2>6
    <3>9. Cardinality(f[i + 1]) >= (i + 1) + 1
      BY <2>1, <3>6, <3>7, <3>8
    <3> QED
      BY <2>3, <2>4, <3>9
  <2> QED
    BY <2>5, <2>6
<1> HIDE DEF Good
<1>3. T = Nat
  <2> HIDE DEF T
  <2>1. T \in SUBSET Nat
    BY DEF T
  <2> QED
    BY <1>1, <1>2, <2>1, Inductive
<1>4. \A i \in 0..last : Good(i)
  BY <1>3
<1> QED
  BY <1>4 DEF Good

\* The walk up finds rows only, the row itself, and of each the parent.
LEMMA UpwardsClosed ==
  ASSUME NEW t, Sound(t), NEW c \in DOMAIN t
  PROVE  c \in Upwards(t, c) /\ Upwards(t, c) \subseteq DOMAIN t /\ ClosedUp(t, Upwards(t, c))
<1> DEFINE last == Cardinality(DOMAIN t)
<1>1. last \in Nat
  BY FS_CardinalityType DEF Sound
<1>2. PICK f : Climbs(f, t, c, last) /\ Upwards(t, c) = f[last]
  BY <1>1, UpwardsIs
<1>3. last \in 0..last
  BY <1>1
<1>4. c \in f[last] /\ f[last] \subseteq DOMAIN t
  BY <1>1, <1>2, <1>3, Stages
<1>5. ClosedUp(t, f[last]) \/ Cardinality(f[last]) >= last + 1
  BY <1>1, <1>2, <1>3, Stages
<1>6. Cardinality(f[last]) \in Nat /\ Cardinality(f[last]) <= last
  BY <1>4, FS_Subset, FS_CardinalityType DEF Sound
<1>7. ClosedUp(t, f[last])
  BY <1>1, <1>5, <1>6
<1> QED
  BY <1>2, <1>4, <1>7

\* And it finds no more than any set that has the row and of each the parent.
LEMMA UpwardsLeast ==
  ASSUME NEW t, Sound(t), NEW c \in DOMAIN t, NEW S, c \in S, ClosedUp(t, S)
  PROVE  Upwards(t, c) \subseteq S
<1> DEFINE last == Cardinality(DOMAIN t)
<1>1. last \in Nat
  BY FS_CardinalityType DEF Sound
<1>2. PICK f : Climbs(f, t, c, last) /\ Upwards(t, c) = f[last]
  BY <1>1, UpwardsIs
<1> HIDE DEF last
<1> DEFINE T == {i \in Nat : i <= last => f[i] \subseteq S}
<1>3. 0 \in T
  <2>1. f[0] \subseteq {c}
    BY <1>1, <1>2 DEF Climbs
  <2> QED
    BY <2>1
<1>4. ASSUME NEW i \in T
      PROVE  i + 1 \in T
  <2> SUFFICES ASSUME i + 1 <= last
               PROVE  f[i + 1] \subseteq S
    OBVIOUS
  <2>1. i \in Nat /\ f[i] \subseteq S /\ i + 1 \in 0..last /\ i + 1 # 0 /\ (i + 1) - 1 = i
    BY <1>1
  <2>2. f[i + 1] = Higher(t, f[(i + 1) - 1])
    BY <1>2, <2>1 DEF Climbs
  <2>3. f[i + 1] = Higher(t, f[i])
    BY <2>1, <2>2
  <2> QED
    BY <2>1, <2>3 DEF Higher, ClosedUp
<1>5. T = Nat
  <2> HIDE DEF T
  <2>1. T \in SUBSET Nat
    BY DEF T
  <2> QED
    BY <1>3, <1>4, <2>1, Inductive
<1>6. f[last] \subseteq S
  BY <1>1, <1>5
<1> QED
  BY <1>2, <1>6

\* What is above a row of the way up is on the way up.
LEMMA UpwardsOn ==
  ASSUME NEW t, Sound(t), NEW c \in DOMAIN t, NEW x \in Upwards(t, c)
  PROVE  x \in DOMAIN t /\ Upwards(t, x) \subseteq Upwards(t, c)
<1>1. x \in DOMAIN t /\ ClosedUp(t, Upwards(t, c))
  BY UpwardsClosed
<1> QED
  BY <1>1, UpwardsLeast

\* The way up is the row, and the way up from its parent.
LEMMA UpwardsStep ==
  ASSUME NEW t, Sound(t), NEW c \in DOMAIN t
  PROVE  /\ t[c].parent \in DOMAIN t => Upwards(t, c) = {c} \cup Upwards(t, t[c].parent)
         /\ t[c].parent \notin DOMAIN t => Upwards(t, c) = {c}
<1>1. c \in Upwards(t, c) /\ ClosedUp(t, Upwards(t, c))
  BY UpwardsClosed
<1>2. CASE t[c].parent \in DOMAIN t
  <2> DEFINE d == t[c].parent
  <2>1. d # NoParent /\ d \in Upwards(t, c)
    BY <1>1, <1>2 DEF ClosedUp, Sound
  <2>2. Upwards(t, d) \subseteq Upwards(t, c)
    BY <2>1, UpwardsOn
  <2>3. d \in Upwards(t, d) /\ ClosedUp(t, Upwards(t, d))
    BY <1>2, UpwardsClosed
  <2>4. ClosedUp(t, {c} \cup Upwards(t, d))
    BY <2>3 DEF ClosedUp
  <2>5. Upwards(t, c) \subseteq {c} \cup Upwards(t, d)
    BY <2>4, UpwardsLeast
  <2> QED
    BY <1>1, <1>2, <2>2, <2>5
<1>3. CASE t[c].parent \notin DOMAIN t
  <2>1. ClosedUp(t, {c})
    BY <1>3 DEF ClosedUp, Sound
  <2>2. Upwards(t, c) \subseteq {c}
    BY <2>1, UpwardsLeast
  <2> QED
    BY <1>1, <1>3, <2>2
<1> QED
  BY <1>2, <1>3

\* The way up stays as it is when the rows on it keep their parents.
LEMMA UpwardsSame ==
  ASSUME NEW t, Sound(t), NEW u, Sound(u), NEW c \in DOMAIN t,
         \A x \in Upwards(t, c) : x \in DOMAIN u /\ u[x].parent = t[x].parent
  PROVE  c \in DOMAIN u /\ Upwards(u, c) = Upwards(t, c)
<1>1. c \in Upwards(t, c) /\ ClosedUp(t, Upwards(t, c))
  BY UpwardsClosed
<1>2. c \in DOMAIN u
  BY <1>1
<1>3. Upwards(u, c) \subseteq Upwards(t, c)
  <2>1. ClosedUp(u, Upwards(t, c))
    BY <1>1 DEF ClosedUp
  <2> QED
    BY <1>1, <1>2, <2>1, UpwardsLeast
<1>4. Upwards(t, c) \subseteq Upwards(u, c)
  <2>1. c \in Upwards(u, c) /\ ClosedUp(u, Upwards(u, c))
    BY <1>2, UpwardsClosed
  <2>2. ClosedUp(t, Upwards(u, c))
    BY <1>3, <2>1 DEF ClosedUp
  <2> QED
    BY <2>1, <2>2, UpwardsLeast
<1> QED
  BY <1>2, <1>3, <1>4

-----------------------------------------------------------------------------
(* What the writers make of a tree.                                        *)

Kinds == {"coll", "file"}
Nodes == [kind : Kinds, parent : Nat, name : STRING]

\* Rows, every one but the root below a row; nothing is above the root.
IsTree(t) ==
  /\ Sound(t)
  /\ \A n \in DOMAIN t : t[n] \in Nodes
  /\ Root \in DOMAIN t /\ t[Root].parent = NoParent

\* A new row changes what is above no other.
LEMMA RowAdded ==
  ASSUME NEW t, IsTree(t), NEW m \in Nat \ {NoParent}, m \notin DOMAIN t,
         NEW node \in Nodes, node.parent \in DOMAIN t,
         NEW u, u = [n \in DOMAIN t \cup {m} |-> IF n = m THEN node ELSE t[n]]
  PROVE  /\ IsTree(u)
         /\ \A n \in DOMAIN t : Upwards(u, n) = Upwards(t, n)
         /\ Upwards(u, m) = {m} \cup Upwards(t, node.parent)
<1>1. DOMAIN u = DOMAIN t \cup {m} /\ u[m] = node /\ \A n \in DOMAIN t : u[n] = t[n]
  OBVIOUS
<1>2. Sound(t) /\ IsFiniteSet(DOMAIN u)
  BY <1>1, FS_AddElement DEF IsTree, Sound
<1>3. Sound(u)
  BY <1>1, <1>2 DEF Sound
<1>4. IsTree(u)
  BY <1>1, <1>3 DEF IsTree
<1>5. ASSUME NEW n \in DOMAIN t
      PROVE  Upwards(u, n) = Upwards(t, n)
  <2>1. Upwards(t, n) \subseteq DOMAIN t
    BY <1>2, UpwardsClosed
  <2> QED
    BY <1>1, <1>2, <1>3, <2>1, UpwardsSame
<1>6. Upwards(u, m) = {m} \cup Upwards(t, node.parent)
  <2>1. m \in DOMAIN u /\ u[m].parent = node.parent /\ node.parent \in DOMAIN u
    BY <1>1
  <2>2. Upwards(u, m) = {m} \cup Upwards(u, node.parent)
    BY <1>3, <2>1, UpwardsStep
  <2> QED
    BY <1>5, <2>2
<1> QED
  BY <1>4, <1>5, <1>6

\* A row that goes takes along what is below it, and nothing that is above.
LEMMA RowsLeft ==
  ASSUME NEW t, IsTree(t), NEW x, x # Root, NEW u,
         u = [n \in DOMAIN t \ Subtree(t, x) |-> t[n]]
  PROVE  /\ IsTree(u)
         /\ \A n \in DOMAIN u : Upwards(u, n) = Upwards(t, n)
<1>1. DOMAIN u = DOMAIN t \ Subtree(t, x) /\ \A n \in DOMAIN u : n \in DOMAIN t /\ u[n] = t[n]
  OBVIOUS
<1>2. Sound(t)
  BY DEF IsTree
<1>3. ASSUME NEW n \in DOMAIN u
      PROVE  Upwards(t, n) \subseteq DOMAIN u
  <2>1. x \notin Upwards(t, n) /\ Upwards(t, n) \subseteq DOMAIN t
    BY <1>1, <1>2, UpwardsClosed DEF Subtree
  <2>2. ASSUME NEW y \in Upwards(t, n)
        PROVE  x \notin Upwards(t, y)
    BY <1>1, <1>2, <2>1, UpwardsOn
  <2> QED
    BY <1>1, <2>1, <2>2 DEF Subtree
<1>4. Root \in DOMAIN u
  <2>1. Root \in DOMAIN t /\ t[Root].parent \notin DOMAIN t
    BY <1>2 DEF IsTree, Sound
  <2>2. Upwards(t, Root) = {Root}
    BY <1>2, <2>1, UpwardsStep
  <2> QED
    BY <1>1, <2>1, <2>2 DEF Subtree
<1>5. Sound(u)
  <2>1. IsFiniteSet(DOMAIN u)
    BY <1>1, <1>2, FS_Subset DEF Sound
  <2>2. ASSUME NEW n \in DOMAIN u
        PROVE  t[n].parent \in DOMAIN u \cup {NoParent}
    <3>1. n \in Upwards(t, n) /\ ClosedUp(t, Upwards(t, n))
      BY <1>1, <1>2, UpwardsClosed
    <3> QED
      BY <1>3, <3>1 DEF ClosedUp
  <2> QED
    BY <1>1, <1>2, <2>1, <2>2 DEF Sound
<1>6. IsTree(u)
  BY <1>1, <1>4, <1>5 DEF IsTree
<1>7. ASSUME NEW n \in DOMAIN u
      PROVE  Upwards(u, n) = Upwards(t, n)
  BY <1>1, <1>2, <1>3, <1>5, UpwardsSame
<1> QED
  BY <1>6, <1>7

\* A row that moves changes what is above it and above what is below it, and
\* nothing is above those but rows of them and what is above the new parent.
LEMMA RowMoved ==
  ASSUME NEW t, IsTree(t), NEW m, m # Root,
         NEW node \in Nodes, node.parent \in DOMAIN t,
         NEW u, u = [n \in DOMAIN t |-> IF n = m THEN node ELSE t[n]]
  PROVE  /\ IsTree(u) /\ DOMAIN u = DOMAIN t
         /\ \A n \in DOMAIN t :
              \/ n \notin Subtree(t, m) /\ Upwards(u, n) = Upwards(t, n)
              \/ /\ n \in Subtree(t, m)
                 /\ Upwards(u, n) \subseteq Subtree(t, m) \cup Upwards(t, node.parent)
<1>1. DOMAIN u = DOMAIN t /\ \A n \in DOMAIN t : n # m => u[n] = t[n]
  OBVIOUS
<1>2. m \in DOMAIN t => u[m] = node
  OBVIOUS
<1>3. Sound(t)
  BY DEF IsTree
<1>4. Sound(u)
  BY <1>1, <1>2, <1>3 DEF Sound
<1>5. IsTree(u)
  BY <1>1, <1>2, <1>4 DEF IsTree
<1>6. ASSUME NEW n \in DOMAIN t, n \notin Subtree(t, m)
      PROVE  Upwards(u, n) = Upwards(t, n)
  <2>1. m \notin Upwards(t, n) /\ Upwards(t, n) \subseteq DOMAIN t
    BY <1>3, <1>6, UpwardsClosed DEF Subtree
  <2> QED
    BY <1>1, <1>3, <1>4, <2>1, UpwardsSame
<1>7. ASSUME NEW n \in Subtree(t, m)
      PROVE  Upwards(u, n) \subseteq Subtree(t, m) \cup Upwards(t, node.parent)
  <2> DEFINE S == Subtree(t, m) \cup Upwards(t, node.parent)
  <2>1. node.parent \in Upwards(t, node.parent) /\ ClosedUp(t, Upwards(t, node.parent))
    BY <1>3, UpwardsClosed
  <2>2. ASSUME NEW x \in S
        PROVE  u[x].parent \in S \cup {NoParent}
    <3>1. CASE x = m
      <4>1. x \in DOMAIN t
        BY <1>3, UpwardsClosed DEF Subtree
      <4> QED
        BY <1>2, <2>1, <3>1, <4>1
    <3>2. CASE x # m /\ x \in Upwards(t, node.parent)
      <4>1. x \in DOMAIN t
        BY <1>3, <3>2, UpwardsClosed
      <4> QED
        BY <1>1, <2>1, <3>2, <4>1 DEF ClosedUp
    <3>3. CASE x # m /\ x \in Subtree(t, m)
      <4>1. x \in DOMAIN t /\ m \in Upwards(t, x)
        BY <3>3 DEF Subtree
      <4>2. t[x].parent \in DOMAIN t /\ m \in Upwards(t, t[x].parent)
        BY <1>3, <3>3, <4>1, UpwardsStep
      <4>3. t[x].parent \in Subtree(t, m)
        BY <4>2 DEF Subtree
      <4> QED
        BY <1>1, <3>3, <4>1, <4>3
    <3> QED
      BY <3>1, <3>2, <3>3
  <2>3. ClosedUp(u, S)
    BY <2>2 DEF ClosedUp
  <2>4. n \in DOMAIN u /\ n \in S
    BY <1>1 DEF Subtree
  <2> HIDE DEF S
  <2>5. Upwards(u, n) \subseteq S
    BY <1>4, <2>3, <2>4, UpwardsLeast
  <2> QED
    BY <2>5 DEF S
<1> QED
  BY <1>1, <1>5, <1>6, <1>7

-----------------------------------------------------------------------------
(* What the resolution of a path finds.                                    *)

\* One segment on.
OneDown(t, path, i, S) ==
  UNION {IF x.kind = "coll" THEN ChildrenAt(t, x.id, path[i]) ELSE {None} : x \in S}

Walks(f, t, path) ==
  f = [i \in 0..Len(path) |->
         IF i = 0 THEN {Row(t, Root)} ELSE OneDown(t, path, i, f[i - 1])]

\* Nothing, or a row of the tree.
Findable(t) == {None} \cup {Row(t, n) : n \in DOMAIN t}

LEMMA OneDownFinds ==
  ASSUME NEW t, IsTree(t), NEW path, NEW i, NEW S \in SUBSET Findable(t)
  PROVE  \A y \in OneDown(t, path, i, S) :
           y = None \/ \E n \in DOMAIN t \ {Root} : y = Row(t, n)
<1>1. SUFFICES ASSUME NEW x \in S,
                      NEW y \in IF x.kind = "coll" THEN ChildrenAt(t, x.id, path[i]) ELSE {None},
                      y # None
               PROVE  \E n \in DOMAIN t \ {Root} : y = Row(t, n)
  BY DEF OneDown
<1>2. x.kind = "coll" /\ y \in ChildrenAt(t, x.id, path[i])
  BY <1>1
<1>3. None.kind = "none"
  BY DEF None
<1>4. PICK c \in DOMAIN t : x = Row(t, c)
  BY <1>2, <1>3 DEF Findable
<1>5. x.id = c /\ c # NoParent
  BY <1>4 DEF Row, IsTree, Sound
<1>6. PICK n \in DOMAIN t : t[n].parent = c /\ y = Row(t, n)
  BY <1>1, <1>2, <1>5 DEF ChildrenAt
<1>7. n # Root
  BY <1>5, <1>6 DEF IsTree
<1> QED
  BY <1>6, <1>7

LEMMA ResolveIs ==
  ASSUME NEW t, IsTree(t), NEW path \in Seq(STRING)
  PROVE  \E f \in [0..Len(path) -> SUBSET Findable(t)] :
           Walks(f, t, path) /\ Resolve(t, path) = f[Len(path)]
<1> DEFINE X == SUBSET Findable(t)
           step == [k \in Nat \X X |-> OneDown(t, path, k[1], k[2])]
           F == CHOOSE G : Walks(G, t, path)
<1>1. {Row(t, Root)} \in X
  BY DEF IsTree, Findable
<1>2. \A i : \A S \in X : OneDown(t, path, i, S) \in X
  BY OneDownFinds DEF Findable
<1>3. step \in [(Nat \X X) -> X]
  BY <1>2
<1>4. \A i \in Nat : \A S \in X : step[<<i, S>>] = OneDown(t, path, i, S)
  OBVIOUS
<1>5. Len(path) \in Nat
  OBVIOUS
<1> HIDE DEF X, step
<1>6. PICK f \in [0..Len(path) -> X] : GoesBy(f, {Row(t, Root)}, step, Len(path))
  BY <1>1, <1>3, <1>5, Recursion
<1>7. ASSUME NEW i \in 0..Len(path)
      PROVE  f[i] = IF i = 0 THEN {Row(t, Root)} ELSE OneDown(t, path, i, f[i - 1])
  <2>1. CASE i = 0
    BY <1>6, <2>1 DEF GoesBy
  <2>2. CASE i # 0
    <3>1. i \in 1..Len(path) /\ i \in Nat /\ i - 1 \in 0..Len(path)
      BY <1>5, <2>2
    <3>2. f[i - 1] \in X
      BY <1>6, <3>1
    <3> QED
      BY <1>4, <1>6, <2>2, <3>1, <3>2 DEF GoesBy
  <2> QED
    BY <2>1, <2>2
<1>8. Walks(f, t, path)
  BY <1>6, <1>7 DEF Walks
<1>9. Walks(F, t, path)
  BY <1>8
<1>10. Resolve(t, path) = F[Len(path)]
  BY Zenon DEF Resolve, Walks, OneDown
<1> HIDE DEF F
<1>11. F = f
  <2> DEFINE T == {i \in Nat : i <= Len(path) => F[i] = f[i]}
  <2>1. 0 \in T
    BY <1>5, <1>8, <1>9 DEF Walks
  <2>2. ASSUME NEW i \in T
        PROVE  i + 1 \in T
    <3> SUFFICES ASSUME i + 1 <= Len(path)
                 PROVE  F[i + 1] = f[i + 1]
      OBVIOUS
    <3>1. i \in Nat /\ (i <= Len(path) => F[i] = f[i])
      OBVIOUS
    <3>2. F[i] = f[i] /\ i + 1 \in 0..Len(path) /\ i + 1 # 0 /\ (i + 1) - 1 = i
      <4> HIDE DEF T
      <4> QED
        BY <1>5, <3>1
    <3>3. f[i + 1] = OneDown(t, path, i + 1, f[(i + 1) - 1])
      BY <1>8, <3>2 DEF Walks
    <3>4. F[i + 1] = OneDown(t, path, i + 1, F[(i + 1) - 1])
      BY <1>9, <3>2 DEF Walks
    <3> QED
      BY <3>2, <3>3, <3>4
  <2>3. T = Nat
    <3> HIDE DEF T
    <3>1. T \in SUBSET Nat
      BY DEF T
    <3> QED
      BY <2>1, <2>2, <3>1, Inductive
  <2>4. \A i \in 0..Len(path) : F[i] = f[i]
    BY <1>5, <2>3
  <2>5. DOMAIN F = 0..Len(path) /\ F = [i \in 0..Len(path) |-> F[i]]
    BY <1>9 DEF Walks
  <2> QED
    BY <1>6, <2>4, <2>5
<1> QED
  BY <1>6, <1>8, <1>10, <1>11 DEF X

LEMMA ResolveRoot ==
  ASSUME NEW t, IsTree(t), NEW path \in Seq(STRING), path = <<>>
  PROVE  Resolve(t, path) = {Row(t, Root)}
<1>1. PICK f \in [0..Len(path) -> SUBSET Findable(t)] :
        Walks(f, t, path) /\ Resolve(t, path) = f[Len(path)]
  BY ResolveIs
<1>2. Len(path) = 0
  OBVIOUS
<1> QED
  BY <1>1, <1>2 DEF Walks

LEMMA FrontOf ==
  ASSUME NEW path \in Seq(STRING), path # <<>>
  PROVE  /\ Front(path) \in Seq(STRING) /\ Last(path) \in STRING
         /\ Len(Front(path)) = Len(path) - 1 /\ Len(path) \in Nat \ {0}
         /\ Last(path) = path[Len(path)]
         /\ \A i \in 1..(Len(path) - 1) : Front(path)[i] = path[i]
<1> DEFINE n == Len(path)
<1>1. n \in Nat \ {0} /\ n \in 1..n /\ n - 1 \in 0..n
  OBVIOUS
<1>2. path[n] \in STRING
  BY <1>1
<1>3. Front(path) = SubSeq(path, 1, n - 1)
  BY DEF Front
<1>4. Front(path) \in Seq(STRING) /\ Len(Front(path)) = n - 1
  <2>1. \A i \in 1..(n - 1) : path[i] \in STRING
    OBVIOUS
  <2>2. Front(path) = [i \in 1..(n - 1) |-> path[i]]
    BY <1>1, <1>3
  <2> HIDE DEF n
  <2>3. n - 1 \in Nat
    BY <1>1
  <2>4. Front(path) \in Seq(STRING)
    BY <2>1, <2>2, <2>3
  <2> QED
    BY <2>2, <2>3, <2>4
<1>5. \A i \in 1..(n - 1) : Front(path)[i] = path[i]
  BY <1>1, <1>3
<1> QED
  BY <1>1, <1>2, <1>4, <1>5 DEF Last

\* The last segment is looked for in what the others resolve to.
LEMMA ResolveStep ==
  ASSUME NEW t, IsTree(t), NEW path \in Seq(STRING), path # <<>>
  PROVE  Resolve(t, path) = OneDown(t, path, Len(path), Resolve(t, Front(path)))
<1> DEFINE n == Len(path)
           front == Front(path)
<1>1. /\ front \in Seq(STRING) /\ Len(front) = n - 1 /\ n \in Nat \ {0}
      /\ \A i \in 1..(n - 1) : front[i] = path[i]
  BY FrontOf
<1> HIDE DEF n, front
<1>2. PICK f : Walks(f, t, path) /\ Resolve(t, path) = f[n]
  BY ResolveIs DEF n
<1>3. PICK g : Walks(g, t, front) /\ Resolve(t, front) = g[n - 1]
  BY <1>1, ResolveIs
<1> DEFINE T == {i \in Nat : i <= n - 1 => g[i] = f[i]}
<1>4. 0 \in T
  BY <1>1, <1>2, <1>3 DEF Walks, n
<1>5. ASSUME NEW i \in T
      PROVE  i + 1 \in T
  <2> SUFFICES ASSUME i + 1 <= n - 1
               PROVE  g[i + 1] = f[i + 1]
    OBVIOUS
  <2> HIDE DEF T
  <2>1. /\ i \in Nat /\ g[i] = f[i] /\ i + 1 \in 0..(n - 1) /\ i + 1 \in 0..n
        /\ i + 1 # 0 /\ (i + 1) - 1 = i /\ front[i + 1] = path[i + 1]
    <3>1. i \in Nat /\ (i <= n - 1 => g[i] = f[i])
      BY DEF T
    <3>2. n \in Nat
      BY <1>1
    <3>3. i <= n - 1 /\ i + 1 \in 1..(n - 1)
      BY <3>1, <3>2
    <3> QED
      BY <1>1, <3>1, <3>2, <3>3
  <2>2. f[i + 1] = OneDown(t, path, i + 1, f[(i + 1) - 1])
    BY <1>2, <2>1 DEF Walks, n
  <2>3. g[i + 1] = OneDown(t, front, i + 1, g[(i + 1) - 1])
    BY <1>1, <1>3, <2>1 DEF Walks
  <2>4. \A S : OneDown(t, front, i + 1, S) = OneDown(t, path, i + 1, S)
    BY <2>1 DEF OneDown
  <2> QED
    BY <2>1, <2>2, <2>3, <2>4
<1>6. T = Nat
  <2> HIDE DEF T
  <2>1. T \in SUBSET Nat
    BY DEF T
  <2> QED
    BY <1>4, <1>5, <2>1, Inductive
<1>7. g[n - 1] = f[n - 1]
  BY <1>1, <1>6
<1>8. n \in 0..n /\ n # 0
  BY <1>1
<1>9. f[n] = OneDown(t, path, n, f[n - 1])
  BY <1>2, <1>8 DEF Walks, n
<1> QED
  BY <1>2, <1>3, <1>7, <1>9 DEF n, front

LEMMA ResolveFinds ==
  ASSUME NEW t, IsTree(t), NEW path \in Seq(STRING)
  PROVE  /\ \A y \in Resolve(t, path) :
              \/ y = None
              \/ \E n \in DOMAIN t : y = Row(t, n) /\ (path # <<>> => n # Root)
         /\ path = <<>> => None \notin Resolve(t, path)
<1>1. CASE path = <<>>
  <2>1. Resolve(t, path) = {Row(t, Root)}
    BY <1>1, ResolveRoot
  <2>2. None.kind = "none" /\ Row(t, Root).kind \in Kinds /\ Root \in DOMAIN t
    BY DEF IsTree, None, Row, Nodes
  <2>3. None # Row(t, Root)
    BY <2>2 DEF Kinds
  <2> QED
    BY <1>1, <2>1, <2>2, <2>3
<1>2. CASE path # <<>>
  <2>1. Front(path) \in Seq(STRING)
    BY <1>2, FrontOf
  <2>2. Resolve(t, Front(path)) \in SUBSET Findable(t)
    <3>1. PICK f \in [0..Len(Front(path)) -> SUBSET Findable(t)] :
            Resolve(t, Front(path)) = f[Len(Front(path))]
      BY <2>1, ResolveIs
    <3>2. Len(Front(path)) \in 0..Len(Front(path))
      BY <2>1
    <3> QED
      BY <3>1, <3>2
  <2>3. \A y \in Resolve(t, path) : y = None \/ \E n \in DOMAIN t \ {Root} : y = Row(t, n)
    BY <1>2, <2>2, ResolveStep, OneDownFinds
  <2> QED
    BY <1>2, <2>3
<1> QED
  BY <1>1, <1>2

-----------------------------------------------------------------------------
(* The invariant: tables of their types, and requests that hold rows and   *)
(* tokens of the kinds that their next step relies on.                     *)

Rows == [id : Nat, kind : Kinds, row : Nodes]
LockRows ==
  [token : Nat, target : Nat, holder : Clients, scope : Scopes, depth : Depths, expires : Nat]
Steps == {"found", "reserve", "subtree", "free", "matched", "enforced"}
Works ==
  [pc : Steps, req : Requests, tokens : SUBSET Nat, target : Rows \cup {None},
   parent : Rows \cup {None}, existing : Rows \cup {None}, lock : LockRows \cup {None},
   createdEmptyResource : BOOLEAN]

\* What a request has at hand, when given[t] is the client that was sent t.
HasWhatItNeeds(w, given) ==
  /\ w.pc = "reserve" => w.parent \in Rows /\ w.req.path # <<>>
  /\ w.pc \in {"found", "subtree", "free"} => w.target \in Rows
  /\ w.pc = "matched" => w.lock \in LockRows
  /\ w.pc = "enforced" /\ w.req.op \in {"COPY", "MOVE"} =>
       /\ w.target \in Rows /\ w.parent \in Rows /\ w.req.dest # <<>>
       /\ w.existing # None => w.existing.id # Root
       /\ w.req.op = "MOVE" => w.target.id # Root
       /\ w.tokens \subseteq {t \in DOMAIN given : given[t] = w.req.client}

WorkOK(w, given) == w = Idle \/ (w \in Works /\ HasWhatItNeeds(w, given))

LockOK(l, t, given) ==
  /\ l \in LockRows /\ l.target \in DOMAIN t
  /\ l.token \in DOMAIN given /\ l.holder = given[l.token]
  /\ l.expires <= MaxNow + MaxTimeout

TreeInv == IsTree(tree) /\ nextNode \in Nat /\ DOMAIN tree \subseteq 1..(nextNode - 1)
LocksInv ==
  /\ granted \in Seq(Clients)
  /\ \A l \in locks : LockOK(l, tree, granted)
  /\ \A l, k \in locks : l.token = k.token => l = k
CountsInv ==
  /\ now \in 0..MaxNow /\ sent \in 0..MaxRequests
  /\ raced \in BOOLEAN /\ carried \in BOOLEAN
RequestsInv ==
  /\ proc = [p \in Procs |-> proc[p]]
  /\ \A p \in Procs : WorkOK(proc[p], granted)

IInv == TreeInv /\ LocksInv /\ CountsInv /\ RequestsInv

LEMMA TypesFollow == IInv => TypeOK
<1> SUFFICES ASSUME IInv
             PROVE  TypeOK
  OBVIOUS
<1> USE DEF IInv
<1>1. Root \in DOMAIN tree /\ DOMAIN tree \subseteq 1..(nextNode - 1)
  BY DEF TreeInv, IsTree
<1>2. \A n \in DOMAIN tree : tree[n].kind \in {"coll", "file"}
  BY DEF TreeInv, IsTree, Nodes, Kinds
<1>3. ASSUME NEW l \in locks
      PROVE  /\ l.target \in DOMAIN tree
             /\ l.token \in Tokens /\ l.holder = granted[l.token]
             /\ l.scope \in Scopes /\ l.depth \in Depths
             /\ l.expires \in 0..(MaxNow + MaxTimeout)
  <2>1. LockOK(l, tree, granted)
    BY DEF LocksInv
  <2>2. l.expires \in Nat /\ l.expires <= MaxNow + MaxTimeout
    BY <2>1 DEF LockOK, LockRows
  <2>3. MaxNow + MaxTimeout \in Nat
    BY BoundsAssumption, TimeoutAssumption
  <2> QED
    BY <2>1, <2>2, <2>3 DEF LockOK, LockRows, Tokens
<1> QED
  BY <1>1, <1>2, <1>3 DEF TypeOK, LocksInv, CountsInv

-----------------------------------------------------------------------------
(* Requests.                                                               *)

LEMMA FreshWork ==
  ASSUME NEW pc \in Steps, NEW r \in Requests, NEW tokens \in SUBSET Nat
  PROVE  Work(pc, r, tokens) \in Works
BY DEF Work, Works, None

\* A request goes on, the others stay as they are.
LEMMA GoesOn ==
  ASSUME RequestsInv, NEW p \in Procs, NEW w, WorkOK(w, granted'),
         proc' = [proc EXCEPT ![p] = w],
         granted' = granted \/ \E c \in Clients : granted' = Append(granted, c),
         granted \in Seq(Clients)
  PROVE  RequestsInv'
<1>1. \A t \in DOMAIN granted : t \in DOMAIN granted' /\ granted'[t] = granted[t]
  OBVIOUS
<1>2. ASSUME NEW q \in Procs
      PROVE  WorkOK(proc'[q], granted')
  <2>1. CASE q = p
    BY <2>1 DEF RequestsInv
  <2>2. CASE q # p
    <3>1. proc'[q] = proc[q] /\ WorkOK(proc[q], granted)
      BY <2>2 DEF RequestsInv
    <3> QED
      BY <1>1, <3>1 DEF WorkOK, HasWhatItNeeds
  <2> QED
    BY <2>1, <2>2
<1>3. proc' = [q \in Procs |-> proc'[q]]
  BY DEF RequestsInv
<1> QED
  BY <1>2, <1>3 DEF RequestsInv

LEMMA Finishes ==
  ASSUME IInv, NEW p \in Procs, NEW stale \in BOOLEAN, Finish(p, stale),
         granted' = granted \/ \E c \in Clients : granted' = Append(granted, c)
  PROVE  /\ RequestsInv' /\ now' = now /\ sent' = sent
         /\ raced' = (raced \/ stale) /\ raced' \in BOOLEAN
<1>1. RequestsInv'
  <2>1. WorkOK(Idle, granted')
    BY DEF WorkOK
  <2> QED
    BY <2>1, GoesOn DEF IInv, LocksInv, Finish
<1> QED
  BY <1>1 DEF IInv, CountsInv, Finish

LEMMA Continues ==
  ASSUME IInv, NEW p \in Procs, NEW w, WorkOK(w, granted), Continue(p, w)
  PROVE  IInv'
<1>1. UNCHANGED <<tree, nextNode, locks, granted, now, sent, raced, carried>>
  BY DEF Continue, tables, history
<1>2. RequestsInv'
  BY <1>1, GoesOn DEF IInv, LocksInv, Continue
<1> QED
  BY <1>1, <1>2 DEF IInv, TreeInv, LocksInv, CountsInv

LEMMA Begins ==
  ASSUME IInv, NEW p \in Procs, NEW w, WorkOK(w, granted), Begin(p, w), sent < MaxRequests
  PROVE  IInv'
<1>1. UNCHANGED <<tree, nextNode, locks, granted, now, raced, carried>> /\ sent' = sent + 1
  BY DEF Begin, tables, history
<1>2. RequestsInv'
  BY <1>1, GoesOn DEF IInv, LocksInv, Begin
<1>3. CountsInv'
  BY <1>1, BoundsAssumption DEF IInv, CountsInv
<1> QED
  BY <1>1, <1>2, <1>3 DEF IInv, TreeInv, LocksInv

-----------------------------------------------------------------------------
(* Conflicts.                                                              *)

\* What lock l covers of the rows t.
Reaches(l, t, n) ==
  l.target = n \/ (l.depth = "infinity" /\ n \in DOMAIN t /\ l.target \in Upwards(t, n))

\* At that time no two of the locks conflict on a row of t.
Free(L, time, t) ==
  \A l, k \in L :
    /\ IsActive(l, time) /\ IsActive(k, time)
    /\ l.scope = "exclusive" /\ l.holder # k.holder
    => \A n \in DOMAIN t : ~(Reaches(l, t, n) /\ Reaches(k, t, n))

LEMMA NoConflictIs ==
  /\ NoConflict <=> Free(locks, now, tree)
  /\ NoConflict' <=> Free(locks', now', tree')
BY Zenon DEF NoConflict, Free, InScope, Reaches, Subtree, Active

\* Fewer locks, fewer rows, and of each the same above it: nothing new in scope.
LEMMA StaysFree ==
  ASSUME NEW L, NEW time, NEW t, Free(L, time, t),
         NEW K, K \subseteq L, NEW u, DOMAIN u \subseteq DOMAIN t,
         \A n \in DOMAIN u : Upwards(u, n) = Upwards(t, n)
  PROVE  Free(K, time, u)
<1>1. SUFFICES ASSUME NEW l \in K, NEW k \in K,
                      IsActive(l, time), IsActive(k, time),
                      l.scope = "exclusive", l.holder # k.holder,
                      NEW n \in DOMAIN u, Reaches(l, u, n), Reaches(k, u, n)
               PROVE  FALSE
  BY DEF Free
<1>2. n \in DOMAIN t /\ Reaches(l, t, n) /\ Reaches(k, t, n)
  BY <1>1 DEF Reaches
<1> QED
  BY <1>1, <1>2 DEF Free

\* A new row is in the scope of locks on rows above it only, as its parent is.
LEMMA NewRowIsFree ==
  ASSUME NEW L, NEW time, NEW t, Free(L, time, t), \A l \in L : l.target \in DOMAIN t,
         NEW m, m \notin DOMAIN t, NEW d \in DOMAIN t,
         NEW u, DOMAIN u = DOMAIN t \cup {m},
         \A n \in DOMAIN t : Upwards(u, n) = Upwards(t, n),
         Upwards(u, m) = {m} \cup Upwards(t, d)
  PROVE  Free(L, time, u)
<1>1. SUFFICES ASSUME NEW l \in L, NEW k \in L,
                      IsActive(l, time), IsActive(k, time),
                      l.scope = "exclusive", l.holder # k.holder,
                      NEW n \in DOMAIN u, Reaches(l, u, n), Reaches(k, u, n)
               PROVE  FALSE
  BY DEF Free
<1>2. CASE n = m
  <2>1. Reaches(l, t, d) /\ Reaches(k, t, d)
    BY <1>1, <1>2 DEF Reaches
  <2> QED
    BY <1>1, <2>1 DEF Free
<1>3. CASE n # m
  <2>1. n \in DOMAIN t /\ Reaches(l, t, n) /\ Reaches(k, t, n)
    BY <1>1, <1>3 DEF Reaches
  <2> QED
    BY <1>1, <2>1 DEF Free
<1> QED
  BY <1>2, <1>3

-----------------------------------------------------------------------------
(* What requests find.                                                     *)

LEMMA FoundRows ==
  ASSUME TreeInv, NEW path \in Seq(STRING),
         NEW x, x \in Existing(tree, path) \/ x \in ResolveColl(tree, path)
  PROVE  /\ x \in Rows /\ x # None
         /\ x.id \in DOMAIN tree /\ x = Row(tree, x.id)
         /\ path # <<>> => x.id # Root
<1>1. None.kind = "none"
  BY DEF None
<1>2. x \in Resolve(tree, path) /\ x # None
  BY <1>1 DEF Existing, ResolveColl
<1>3. PICK n \in DOMAIN tree : x = Row(tree, n) /\ (path # <<>> => n # Root)
  BY <1>2, ResolveFinds DEF TreeInv
<1>4. x.id = n
  BY <1>3 DEF Row
<1>5. n \in Nat /\ tree[n] \in Nodes
  BY <1>3 DEF TreeInv, IsTree, Sound
<1>6. Row(tree, n) \in Rows
  BY <1>5 DEF Row, Rows, Nodes
<1> QED
  BY <1>2, <1>3, <1>4, <1>6

LEMMA Submitted ==
  ASSUME granted \in Seq(Clients), NEW r \in Requests, NEW tokens \in Submissions(r)
  PROVE  /\ tokens \in SUBSET Nat
         /\ r.op \notin {"REFRESH", "UNLOCK"} =>
              tokens \subseteq {t \in DOMAIN granted : granted[t] = r.client}
BY DEF Submissions, OwnTokens, Tokens

LEMMA StaysExplained ==
  ASSUME ConflictsExplained, UNCHANGED <<tree, locks, now, raced, carried>>
  PROVE  ConflictsExplained'
BY NoConflictIs DEF ConflictsExplained

\* The steps that write no more than what the request has at hand.
LEMMA NothingWritten ==
  ASSUME NEW p, NEW w, Continue(p, w) \/ Begin(p, w), ConflictsExplained
  PROVE  ConflictsExplained'
BY StaysExplained DEF Continue, Begin, tables, history

LEMMA LookupIsRight ==
  ASSUME IInv, NEW p \in Procs, Lookup(p)
  PROVE  IInv' /\ (ConflictsExplained => ConflictsExplained')
<1>1. PICK r \in Requests : \E tokens \in Submissions(r) :
        \/ \E x \in Existing(tree, r.path) :
             Begin(p, [Work("found", r, tokens) EXCEPT !.target = x])
        \/ r.op = "LOCK" /\ \E w \in Reservations(r, tokens) : Begin(p, w)
  BY DEF Lookup
<1>2. PICK tokens \in Submissions(r) :
        \/ \E x \in Existing(tree, r.path) :
             Begin(p, [Work("found", r, tokens) EXCEPT !.target = x])
        \/ r.op = "LOCK" /\ \E w \in Reservations(r, tokens) : Begin(p, w)
  BY <1>1
<1>3. tokens \in SUBSET Nat /\ r.path \in Seq(STRING) /\ sent < MaxRequests
  BY Submitted, RequestAssumption DEF IInv, LocksInv, Lookup
<1>4. CASE \E x \in Existing(tree, r.path) :
             Begin(p, [Work("found", r, tokens) EXCEPT !.target = x])
  <2>1. PICK x \in Existing(tree, r.path) :
          Begin(p, [Work("found", r, tokens) EXCEPT !.target = x])
    BY <1>4
  <2>2. x \in Rows
    BY <1>3, FoundRows DEF IInv
  <2> DEFINE base == Work("found", r, tokens)
             w == [base EXCEPT !.target = x]
  <2>3. base \in Works /\ base.pc = "found"
    BY <1>3, FreshWork DEF Steps, Work
  <2> HIDE DEF base
  <2>4. w \in Works /\ w.pc = "found" /\ w.target = x
    BY <2>2, <2>3 DEF Works
  <2> HIDE DEF w
  <2>5. WorkOK(w, granted)
    BY <2>2, <2>4 DEF WorkOK, HasWhatItNeeds
  <2>6. Begin(p, w)
    BY <2>1 DEF w, base
  <2> QED
    BY <1>3, <2>5, <2>6, Begins, NothingWritten
<1>5. CASE \E w \in Reservations(r, tokens) : Begin(p, w)
  <2>1. PICK w \in Reservations(r, tokens) : Begin(p, w)
    BY <1>5
  <2>2. r.path # <<>> /\ \E c \in ResolveColl(tree, Front(r.path)) :
          w = [Work("reserve", r, tokens) EXCEPT !.parent = c]
    BY DEF Reservations
  <2>3. PICK c \in ResolveColl(tree, Front(r.path)) :
          w = [Work("reserve", r, tokens) EXCEPT !.parent = c]
    BY <2>2
  <2>4. Front(r.path) \in Seq(STRING)
    BY <1>3, <2>2 DEF Front
  <2>5. c \in Rows
    BY <2>4, FoundRows DEF IInv
  <2> DEFINE base == Work("reserve", r, tokens)
  <2>6. base \in Works /\ base.pc = "reserve" /\ base.req = r
    BY <1>3, FreshWork DEF Steps, Work
  <2>7. w = [base EXCEPT !.parent = c]
    BY <2>3
  <2> HIDE DEF base
  <2>8. w \in Works /\ w.pc = "reserve" /\ w.parent = c /\ w.req = r
    BY <2>5, <2>6, <2>7 DEF Works
  <2>9. WorkOK(w, granted)
    BY <2>2, <2>5, <2>8 DEF WorkOK, HasWhatItNeeds
  <2> QED
    BY <1>3, <2>1, <2>9, Begins, NothingWritten
<1> QED
  BY <1>2, <1>4, <1>5

\* The request at work, with its types.
LEMMA AtWork ==
  ASSUME IInv, NEW p \in Procs, proc[p].pc # "idle"
  PROVE  /\ proc[p] \in Works /\ HasWhatItNeeds(proc[p], granted)
         /\ proc[p].req \in Requests
         /\ proc[p].req.client \in Clients
         /\ proc[p].req.path \in Seq(STRING) /\ proc[p].req.dest \in Seq(STRING)
         /\ proc[p].req.scope \in Scopes /\ proc[p].req.depth \in Depths
         /\ GrantLockTimeout(proc[p].req.timeout) \in 0..MaxTimeout
<1>1. WorkOK(proc[p], granted)
  BY DEF IInv, RequestsInv
<1>2. proc[p] \in Works /\ HasWhatItNeeds(proc[p], granted)
  BY <1>1 DEF WorkOK, Idle
<1>3. proc[p].req \in Requests
  BY <1>2 DEF Works
<1>4. GrantLockTimeout(proc[p].req.timeout) \in 0..MaxTimeout
  BY <1>3, RequestAssumption, TimeoutAssumption DEF GrantLockTimeout, NoTimeout
<1> QED
  BY <1>2, <1>3, <1>4, RequestAssumption

LEMMA ChecksAreRight ==
  ASSUME IInv, NEW p \in Procs, CheckOwnLocks(p) \/ CheckSubtree(p)
  PROVE  IInv' /\ (ConflictsExplained => ConflictsExplained')
<1> DEFINE w == proc[p]
<1>1. PICK pc \in {"subtree", "free"} : Continue(p, [w EXCEPT !.pc = pc])
  BY DEF CheckOwnLocks, CheckSubtree
<1>2. w.pc \in {"found", "subtree"}
  BY DEF CheckOwnLocks, CheckSubtree
<1>3. w \in Works /\ HasWhatItNeeds(w, granted)
  BY <1>2, AtWork
<1> HIDE DEF w
<1> DEFINE v == [w EXCEPT !.pc = pc]
<1>4. v \in Works /\ v.pc \in {"subtree", "free"} /\ v.target = w.target
  BY <1>3 DEF Works, Steps
<1>5. WorkOK(v, granted)
  <2> HIDE DEF v
  <2> QED
    BY <1>2, <1>3, <1>4 DEF WorkOK, HasWhatItNeeds
<1>6. Continue(p, v)
  BY <1>1
<1> HIDE DEF v
<1> QED
  BY <1>5, <1>6, Continues, NothingWritten

LEMMA MatchLockIsRight ==
  ASSUME IInv, NEW p \in Procs, MatchLock(p)
  PROVE  IInv' /\ (ConflictsExplained => ConflictsExplained')
<1> DEFINE w == proc[p]
<1>1. PICK l \in EffectiveLocks(w.target) : Continue(p, [w EXCEPT !.pc = "matched", !.lock = l])
  BY DEF MatchLock
<1>2. w.pc = "found"
  BY DEF MatchLock
<1>3. w \in Works
  BY <1>2, AtWork
<1>4. l \in LockRows
  BY DEF EffectiveLocks, IInv, LocksInv, LockOK
<1> HIDE DEF w
<1> DEFINE v == [w EXCEPT !.pc = "matched", !.lock = l]
<1>5. v \in Works /\ v.pc = "matched" /\ v.lock = l
  BY <1>3, <1>4 DEF Works, Steps
<1>6. Continue(p, v)
  BY <1>1
<1> HIDE DEF v
<1>7. WorkOK(v, granted)
  BY <1>4, <1>5 DEF WorkOK, HasWhatItNeeds
<1> QED
  BY <1>6, <1>7, Continues, NothingWritten

LEMMA GiveUpIsRight ==
  ASSUME IInv, NEW p \in Procs, GiveUp(p)
  PROVE  IInv' /\ (ConflictsExplained => ConflictsExplained')
<1>1. Continue(p, Idle) /\ WorkOK(Idle, granted)
  BY DEF GiveUp, WorkOK
<1> QED
  BY <1>1, Continues, NothingWritten

LEMMA TickIsRight ==
  ASSUME IInv, Tick
  PROVE  IInv' /\ (ConflictsExplained => ConflictsExplained')
<1>1. UNCHANGED <<tree, nextNode, locks, granted, proc, sent, raced, carried>>
  BY DEF Tick, tables, history
<1>2. now' = now + 1 /\ now < MaxNow /\ now \in Nat
  BY DEF Tick, IInv, CountsInv
<1>3. IInv'
  <2>1. CountsInv'
    BY <1>1, <1>2, BoundsAssumption DEF IInv, CountsInv
  <2> QED
    BY <1>1, <2>1 DEF IInv, TreeInv, LocksInv, RequestsInv
<1>4. ASSUME Free(locks, now, tree)
      PROVE  Free(locks, now + 1, tree)
  <2>1. \A l \in locks : l.expires \in Nat
    BY DEF IInv, LocksInv, LockOK, LockRows
  <2>2. \A l \in locks : IsActive(l, now + 1) => IsActive(l, now)
    BY <1>2, <2>1 DEF IsActive
  <2> QED
    BY <1>4, <2>2 DEF Free
<1>5. ConflictsExplained => ConflictsExplained'
  BY <1>1, <1>2, <1>4, NoConflictIs DEF ConflictsExplained
<1> QED
  BY <1>3, <1>5

-----------------------------------------------------------------------------
(* LOCK, refresh and UNLOCK write.                                         *)

\* The row goes in, and brings no conflict with it.
LEMMA Inserted ==
  ASSUME IInv, NEW node \in Nodes, Insert(node)
  PROVE  /\ TreeInv' /\ DOMAIN tree \subseteq DOMAIN tree' /\ nextNode \in Nat
         /\ Free(locks, now, tree) => Free(locks, now, tree')
<1>1. nextNode \in Nat \ {NoParent} /\ nextNode \notin DOMAIN tree /\ IsTree(tree)
  BY DEF IInv, TreeInv, IsTree, NoParent, Root
<1>2. tree' = [n \in DOMAIN tree \cup {nextNode} |-> IF n = nextNode THEN node ELSE tree[n]]
  BY DEF Insert
<1>3. node.parent \in DOMAIN tree /\ nextNode' = nextNode + 1
  BY DEF Insert
<1>4. /\ IsTree(tree')
      /\ \A n \in DOMAIN tree : Upwards(tree', n) = Upwards(tree, n)
      /\ Upwards(tree', nextNode) = {nextNode} \cup Upwards(tree, node.parent)
  BY <1>1, <1>2, <1>3, RowAdded
<1>5. DOMAIN tree' = DOMAIN tree \cup {nextNode}
  BY <1>2
<1>6. DOMAIN tree' \subseteq 1..(nextNode' - 1)
  BY <1>1, <1>3, <1>5 DEF IInv, TreeInv, NoParent
<1>7. \A l \in locks : l.target \in DOMAIN tree
  BY DEF IInv, LocksInv, LockOK
<1>8. Free(locks, now, tree) => Free(locks, now, tree')
  BY <1>1, <1>3, <1>4, <1>5, <1>7, NewRowIsFree
<1> QED
  BY <1>1, <1>3, <1>4, <1>5, <1>6, <1>8 DEF TreeInv

LEMMA LocksStay ==
  ASSUME LocksInv, UNCHANGED <<locks, granted>>, DOMAIN tree \subseteq DOMAIN tree'
  PROVE  LocksInv'
<1>1. \A l \in locks : LockOK(l, tree, granted) => LockOK(l, tree', granted)
  BY DEF LockOK
<1> QED
  BY <1>1 DEF LocksInv

LEMMA ReserveIsRight ==
  ASSUME IInv, NEW p \in Procs, Reserve(p)
  PROVE  IInv' /\ (ConflictsExplained => ConflictsExplained')
<1> DEFINE w == proc[p]
           node == Node("file", w.parent.id, Last(w.req.path))
<1>1. w.pc = "reserve" /\ Insert(node)
  BY DEF Reserve
<1>2. /\ proc' = [proc EXCEPT ![p] =
                   [w EXCEPT !.pc = "found", !.parent = None, !.createdEmptyResource = TRUE,
                             !.target = [id |-> nextNode, kind |-> "file", row |-> node]]]
      /\ raced' = (raced \/ w \notin Reservations(w.req, w.tokens))
      /\ UNCHANGED <<locks, granted, now, sent, carried>>
  BY DEF Reserve
<1>3. /\ w \in Works /\ w.parent \in Rows
      /\ w.req.path \in Seq(STRING) /\ w.req.path # <<>>
  BY <1>1, AtWork DEF HasWhatItNeeds
<1>4. node \in Nodes
  BY <1>3 DEF Node, Nodes, Rows, Kinds, Last
<1> HIDE DEF node
<1>5. /\ TreeInv' /\ DOMAIN tree \subseteq DOMAIN tree' /\ nextNode \in Nat
      /\ Free(locks, now, tree) => Free(locks, now, tree')
  BY <1>1, <1>4, Inserted
<1> DEFINE row == [id |-> nextNode, kind |-> "file", row |-> node]
           v == [w EXCEPT !.pc = "found", !.parent = None, !.createdEmptyResource = TRUE,
                          !.target = row]
<1>6. row \in Rows
  BY <1>4, <1>5 DEF Rows, Kinds
<1>7. proc' = [proc EXCEPT ![p] = v]
  BY <1>2
<1> HIDE DEF w, row
<1>8. v \in Works /\ v.pc = "found" /\ v.target = row
  BY <1>3, <1>6 DEF Works, Steps
<1> HIDE DEF v
<1>9. WorkOK(v, granted)
  BY <1>6, <1>8 DEF WorkOK, HasWhatItNeeds
<1>10. RequestsInv'
  BY <1>2, <1>7, <1>9, GoesOn DEF IInv, LocksInv
<1>11. LocksInv'
  BY <1>2, <1>5, LocksStay DEF IInv
<1>12. CountsInv'
  BY <1>2 DEF IInv, CountsInv
<1>13. ConflictsExplained => ConflictsExplained'
  BY <1>2, <1>5, NoConflictIs DEF ConflictsExplained
<1> QED
  BY <1>5, <1>10, <1>11, <1>12, <1>13 DEF IInv

\* A lock that passes both checks as it is inserted conflicts with none.
LEMMA GrantConflicts ==
  ASSUME IInv, NEW w, w.target.id \in DOMAIN tree,
         tree[w.target.id] = w.target.row, OwnLocksAllow(w), SubtreeAllows(w),
         NEW lock, lock.target = w.target.id, lock.scope = w.req.scope,
         lock.depth = IF w.target.kind = "coll" THEN w.req.depth ELSE "zero",
         Free(locks, now, tree)
  PROVE  Free(locks \cup {lock}, now, tree)
<1> DEFINE m == w.target.id
<1>1. Sound(tree)
  BY DEF IInv, TreeInv, IsTree
<1>2. ASSUME NEW k \in locks, IsActive(k, now),
             k.scope = "exclusive" \/ lock.scope = "exclusive",
             NEW n \in DOMAIN tree, Reaches(lock, tree, n), Reaches(k, tree, n)
      PROVE  FALSE
  <2>1. k.target = n \/ (k.depth = "infinity" /\ k.target \in Upwards(tree, tree[n].parent))
    <3>1. k.target = n \/ (k.depth = "infinity" /\ k.target \in Upwards(tree, n))
      BY <1>2 DEF Reaches
    <3>2. Upwards(tree, n) = {n} \/ Upwards(tree, n) = {n} \cup Upwards(tree, tree[n].parent)
      BY <1>1, UpwardsStep
    <3> QED
      BY <3>1, <3>2
  <2>2. "exclusive" \in {k.scope, w.req.scope}
    BY <1>2
  <2>3. CASE n = m
    <3>1. k \in EffectiveLocks(w.target)
      BY <1>2, <2>1, <2>3 DEF EffectiveLocks, Active
    <3> QED
      BY <2>2, <3>1 DEF OwnLocksAllow, WouldConflict
  <2>4. CASE n # m
    <3>1. lock.depth = "infinity" /\ m \in Upwards(tree, n)
      BY <1>2, <2>4 DEF Reaches
    <3>2. LocksSubtree(w)
      BY <3>1 DEF LocksSubtree
    <3>3. n \in Subtree(tree, m) \ {m}
      BY <2>4, <3>1 DEF Subtree
    <3>4. k \in EffectiveLocks(Row(tree, n))
      BY <1>2, <2>1 DEF EffectiveLocks, Active, Row
    <3>5. WouldConflict(EffectiveLocks(Row(tree, n)), w.req.scope)
      BY <2>2, <3>4 DEF WouldConflict
    <3> QED
      BY <3>2, <3>3, <3>5 DEF SubtreeAllows, SubtreeHasConflict
  <2> QED
    BY <2>3, <2>4
<1> QED
  BY <1>2 DEF Free

LEMMA GrantIsRight ==
  ASSUME IInv, NEW p \in Procs, Grant(p)
  PROVE  IInv' /\ (ConflictsExplained => ConflictsExplained')
<1> DEFINE w == proc[p]
           depth == IF w.target.kind = "coll" THEN w.req.depth ELSE "zero"
           time == GrantLockTimeout(w.req.timeout)
           lock == Lock(Len(granted) + 1, w.target.id, w.req.client, w.req.scope, depth, now + time)
           stale == ~(tree[w.target.id] = w.target.row /\ OwnLocksAllow(w) /\ SubtreeAllows(w))
<1>1. /\ w.pc = "free" /\ w.target.id \in DOMAIN tree
      /\ locks' = locks \cup {lock} /\ granted' = Append(granted, w.req.client)
      /\ Finish(p, stale) /\ UNCHANGED <<tree, nextNode, carried>>
  BY DEF Grant
<1>2. /\ w.req.client \in Clients /\ w.req.scope \in Scopes /\ w.req.depth \in Depths
      /\ time \in 0..MaxTimeout
  BY <1>1, AtWork
<1>3. stale \in BOOLEAN
  OBVIOUS
<1> HIDE DEF stale
<1>4. /\ RequestsInv' /\ now' = now /\ sent' = sent
      /\ raced' = (raced \/ stale) /\ raced' \in BOOLEAN
  BY <1>1, <1>2, <1>3, Finishes
<1>5. granted \in Seq(Clients) /\ now \in 0..MaxNow /\ MaxNow \in Nat /\ MaxTimeout \in Nat
  BY BoundsAssumption, TimeoutAssumption DEF IInv, LocksInv, CountsInv
<1>6. /\ lock.token = Len(granted) + 1 /\ lock.target = w.target.id
      /\ lock.holder = w.req.client /\ lock.scope = w.req.scope
      /\ lock.depth = depth /\ lock.expires = now + time
  BY DEF Lock
<1>7. lock \in LockRows
  <2>1. w.target.id \in Nat
    BY <1>1 DEF IInv, TreeInv, IsTree, Sound
  <2>2. depth \in Depths
    BY <1>2 DEF Depths
  <2>3. now + time \in Nat /\ Len(granted) + 1 \in Nat
    BY <1>2, <1>5
  <2> HIDE DEF depth, time, w
  <2> QED
    BY <1>2, <2>1, <2>2, <2>3 DEF Lock, LockRows
<1> HIDE DEF lock, w, time, depth
<1>8. /\ Len(granted) + 1 \in DOMAIN granted' /\ granted'[Len(granted) + 1] = w.req.client
      /\ \A t \in DOMAIN granted : t \in DOMAIN granted' /\ granted'[t] = granted[t]
      /\ Len(granted) + 1 \notin DOMAIN granted /\ granted' \in Seq(Clients)
  BY <1>1, <1>2, <1>5
<1>9. LocksInv'
  <2>1. LockOK(lock, tree, granted')
    <3>1. now + time <= MaxNow + MaxTimeout
      BY <1>2, <1>5
    <3> QED
      BY <1>1, <1>6, <1>7, <1>8, <3>1 DEF LockOK
  <2>2. \A l \in locks : LockOK(l, tree, granted') /\ l.token # lock.token
    BY <1>6, <1>8 DEF IInv, LocksInv, LockOK
  <2> QED
    BY <1>1, <1>8, <2>1, <2>2 DEF IInv, LocksInv
<1>10. ConflictsExplained => ConflictsExplained'
  <2>1. ~stale /\ Free(locks, now, tree) => Free(locks', now', tree')
    <3> SUFFICES ASSUME ~stale, Free(locks, now, tree)
                 PROVE  Free(locks \cup {lock}, now, tree)
      BY <1>1, <1>4
    <3>1. tree[w.target.id] = w.target.row /\ OwnLocksAllow(w) /\ SubtreeAllows(w)
      BY DEF stale, w
    <3> QED
      BY <1>1, <1>6, <3>1, GrantConflicts DEF depth
  <2> QED
    BY <1>1, <1>4, <2>1, NoConflictIs DEF ConflictsExplained
<1> QED
  BY <1>1, <1>4, <1>9, <1>10 DEF IInv, TreeInv, CountsInv

LEMMA RefreshIsRight ==
  ASSUME IInv, NEW p \in Procs, Refresh(p)
  PROVE  IInv' /\ (ConflictsExplained => ConflictsExplained')
<1> DEFINE w == proc[p]
           time == GrantLockTimeout(w.req.timeout)
           stale == \E k \in locks : k.token = w.lock.token /\ ~Active(k)
           At(k) == IF k.token = w.lock.token THEN [k EXCEPT !.expires = now + time] ELSE k
<1>1. /\ w.pc = "matched" /\ locks' = {At(k) : k \in locks}
      /\ Finish(p, stale) /\ UNCHANGED <<tree, nextNode, granted, carried>>
  BY DEF Refresh, PersistRefreshedTimeout
<1>2. time \in 0..MaxTimeout
  BY <1>1, AtWork
<1>3. stale \in BOOLEAN
  OBVIOUS
<1>4. /\ RequestsInv' /\ now' = now /\ sent' = sent
      /\ raced' = (raced \/ stale) /\ raced' \in BOOLEAN
  BY <1>1, <1>3, Finishes
<1>5. now \in 0..MaxNow /\ MaxNow \in Nat /\ MaxTimeout \in Nat
  BY BoundsAssumption, TimeoutAssumption DEF IInv, CountsInv
<1>6. now + time \in Nat /\ now + time <= MaxNow + MaxTimeout
  BY <1>2, <1>5
<1> HIDE DEF w, time
<1>7. ASSUME NEW k \in locks
      PROVE  /\ LockOK(At(k), tree, granted)
             /\ At(k).token = k.token /\ At(k).target = k.target /\ At(k).holder = k.holder
             /\ At(k).scope = k.scope /\ At(k).depth = k.depth
             /\ k.token # w.lock.token => At(k) = k
  <2>1. LockOK(k, tree, granted)
    BY DEF IInv, LocksInv
  <2> QED
    BY <1>6, <2>1 DEF LockOK, LockRows
<1> HIDE DEF At
<1>8. LocksInv'
  <2>1. ASSUME NEW l \in locks', NEW k \in locks', l.token = k.token
        PROVE  l = k
    <3>1. PICK l0 \in locks : l = At(l0)
      BY <1>1
    <3>2. PICK k0 \in locks : k = At(k0)
      BY <1>1
    <3> QED
      BY <1>7, <2>1, <3>1, <3>2 DEF IInv, LocksInv
  <2> QED
    BY <1>1, <1>7, <2>1 DEF IInv, LocksInv
<1>9. ConflictsExplained => ConflictsExplained'
  <2>1. ~stale /\ Free(locks, now, tree) => Free(locks', now', tree')
    <3> SUFFICES ASSUME ~stale, Free(locks, now, tree),
                        NEW l0 \in locks, NEW k0 \in locks,
                        IsActive(At(l0), now), IsActive(At(k0), now),
                        At(l0).scope = "exclusive", At(l0).holder # At(k0).holder,
                        NEW n \in DOMAIN tree,
                        Reaches(At(l0), tree, n), Reaches(At(k0), tree, n)
                 PROVE  FALSE
      BY <1>1, <1>4 DEF Free
    <3>1. IsActive(l0, now) /\ IsActive(k0, now)
      BY <1>7 DEF stale, Active
    <3>2. Reaches(l0, tree, n) /\ Reaches(k0, tree, n)
      BY <1>7 DEF Reaches
    <3> QED
      BY <1>7, <3>1, <3>2 DEF Free
  <2> QED
    BY <1>1, <1>4, <2>1, NoConflictIs DEF ConflictsExplained
<1> QED
  BY <1>1, <1>4, <1>8, <1>9 DEF IInv, TreeInv, CountsInv

\* Some of the locks go, and nothing else.
LEMMA FewerLocks ==
  ASSUME LocksInv, locks' \subseteq locks, granted' = granted,
         \A l \in locks' : l.target \in DOMAIN tree'
  PROVE  LocksInv'
<1>1. \A l \in locks' : LockOK(l, tree', granted)
  BY DEF LocksInv, LockOK
<1> QED
  BY <1>1 DEF LocksInv

LEMMA UnlockIsRight ==
  ASSUME IInv, NEW p \in Procs, Unlock(p)
  PROVE  IInv' /\ (ConflictsExplained => ConflictsExplained')
<1>1. /\ locks' \subseteq locks /\ Finish(p, FALSE)
      /\ UNCHANGED <<tree, nextNode, granted, carried>>
  BY DEF Unlock
<1>2. /\ RequestsInv' /\ now' = now /\ sent' = sent
      /\ raced' = raced /\ raced' \in BOOLEAN
  BY <1>1, Finishes DEF IInv, CountsInv
<1>3. LocksInv'
  BY <1>1, FewerLocks DEF IInv, LocksInv, LockOK
<1>4. Free(locks, now, tree) => Free(locks', now', tree')
  BY <1>1, <1>2, StaysFree
<1>5. ConflictsExplained => ConflictsExplained'
  BY <1>1, <1>2, <1>4, NoConflictIs DEF ConflictsExplained
<1> QED
  BY <1>1, <1>2, <1>3, <1>5 DEF IInv, TreeInv, CountsInv

-----------------------------------------------------------------------------
(* The writers write.                                                      *)

\* What COPY and MOVE go on with when their checks let them.
GoesThere(w, r, tokens) ==
  /\ w \in Works /\ w.pc = "enforced" /\ w.req = r /\ w.tokens = tokens
  /\ w.target \in Rows /\ w.parent \in Rows /\ r.dest # <<>>
  /\ w.parent.id \in DOMAIN tree /\ w.parent = Row(tree, w.parent.id)
  /\ Covered({w.parent}, tokens)
  /\ w.existing # None => w.existing.id # Root
  /\ r.op = "MOVE" => w.target.id # Root

LEMMA DestinationsAre ==
  ASSUME TreeInv, NEW r \in Requests, NEW tokens, tokens \subseteq Nat,
         NEW w \in DestinationChecks(r, tokens)
  PROVE  GoesThere(w, r, tokens)
<1>1. r.path \in Seq(STRING) /\ r.dest \in Seq(STRING)
  BY RequestAssumption
<1>2. r.dest # <<>>
  BY DEF DestinationChecks
<1>3. PICK x \in Sources(r, tokens), c \in Parents(r, tokens), e \in Destinations(r, tokens) :
        w = Holding(Work("enforced", r, tokens), x, c, e)
  BY DEF DestinationChecks
<1>4. Front(r.dest) \in Seq(STRING)
  BY <1>1, <1>2 DEF Front
<1>5. x \in Rows /\ (r.op = "MOVE" => x.id # Root)
  BY <1>1, FoundRows DEF Sources
<1>6. c \in Rows /\ c.id \in DOMAIN tree /\ c = Row(tree, c.id) /\ Covered({c}, tokens)
  BY <1>4, FoundRows DEF Parents
<1>7. e = None \/ (e \in Rows /\ e.id # Root)
  BY <1>1, <1>2, FoundRows DEF Destinations, Existing
<1> DEFINE base == Work("enforced", r, tokens)
<1>8. base \in Works /\ base.pc = "enforced" /\ base.req = r /\ base.tokens = tokens
  BY FreshWork DEF Steps, Work
<1>9. w = [base EXCEPT !.target = x, !.parent = c, !.existing = e]
  BY <1>3 DEF Holding
<1> HIDE DEF base
<1>10. /\ w \in Works /\ w.pc = "enforced" /\ w.req = r /\ w.tokens = tokens
       /\ w.target = x /\ w.parent = c /\ w.existing = e
  BY <1>5, <1>6, <1>7, <1>8, <1>9 DEF Works
<1> QED
  BY <1>2, <1>3, <1>5, <1>6, <1>7, <1>10 DEF GoesThere

LEMMA EnforcedIs ==
  ASSUME NEW r, NEW tokens, NEW w \in Enforced(r, tokens)
  PROVE  \/ w \in DestinationChecks(r, tokens)
         \/ r.op \notin {"COPY", "MOVE"} /\ w = Work("enforced", r, tokens)
BY DEF Enforced, CheckedByMiddleware

LEMMA EnforceIsRight ==
  ASSUME IInv, NEW p \in Procs, Enforce(p)
  PROVE  IInv' /\ (ConflictsExplained => ConflictsExplained')
<1>1. PICK r \in Requests : \E tokens \in Submissions(r) :
        /\ r.op \in {"PUT", "MKCOL", "DELETE", "COPY", "MOVE"}
        /\ \E w \in Enforced(r, tokens) : Begin(p, w)
  BY DEF Enforce
<1>2. PICK tokens \in Submissions(r) :
        /\ r.op \in {"PUT", "MKCOL", "DELETE", "COPY", "MOVE"}
        /\ \E w \in Enforced(r, tokens) : Begin(p, w)
  BY <1>1
<1>3. PICK w \in Enforced(r, tokens) : Begin(p, w)
  BY <1>2
<1>4. sent < MaxRequests /\ r.op \notin {"REFRESH", "UNLOCK"}
  BY <1>2 DEF Enforce
<1>5. /\ tokens \in SUBSET Nat
      /\ tokens \subseteq {t \in DOMAIN granted : granted[t] = r.client}
  BY <1>4, Submitted DEF IInv, LocksInv
<1>6. CASE w \in DestinationChecks(r, tokens)
  <2>1. /\ w \in Works /\ w.pc = "enforced" /\ w.req = r /\ w.tokens = tokens
        /\ w.target \in Rows /\ w.parent \in Rows /\ r.dest # <<>>
        /\ w.existing # None => w.existing.id # Root
        /\ r.op = "MOVE" => w.target.id # Root
    <3>1. TreeInv /\ tokens \subseteq Nat
      BY <1>5 DEF IInv
    <3>2. GoesThere(w, r, tokens)
      BY <1>6, <3>1, DestinationsAre
    <3> QED
      BY <3>2 DEF GoesThere
  <2>2. WorkOK(w, granted)
    BY <1>5, <2>1 DEF WorkOK, HasWhatItNeeds
  <2> QED
    BY <1>3, <1>4, <2>2, Begins, NothingWritten
<1>7. CASE r.op \notin {"COPY", "MOVE"} /\ w = Work("enforced", r, tokens)
  <2>1. w \in Works /\ w.pc = "enforced" /\ w.req = r
    BY <1>5, <1>7, FreshWork DEF Steps, Work
  <2>2. WorkOK(w, granted)
    BY <1>7, <2>1 DEF WorkOK, HasWhatItNeeds
  <2> QED
    BY <1>3, <1>4, <2>2, Begins, NothingWritten
<1> QED
  BY <1>6, <1>7, EnforcedIs

LEMMA StaleIsBoolean == \A p \in Procs : Stale(p) \in BOOLEAN
BY DEF Stale

LEMMA PutOverwriteIsRight ==
  ASSUME IInv, NEW p \in Procs, PutOverwrite(p)
  PROVE  IInv' /\ (ConflictsExplained => ConflictsExplained')
<1>1. Finish(p, Stale(p)) /\ UNCHANGED <<tree, nextNode, locks, granted, carried>>
  BY DEF PutOverwrite, tables
<1>2. /\ RequestsInv' /\ now' = now /\ sent' = sent
      /\ raced' = (raced \/ Stale(p)) /\ raced' \in BOOLEAN
  BY <1>1, StaleIsBoolean, Finishes
<1>3. ConflictsExplained => ConflictsExplained'
  BY <1>1, <1>2, NoConflictIs DEF ConflictsExplained
<1> QED
  BY <1>1, <1>2, <1>3 DEF IInv, TreeInv, LocksInv, CountsInv

LEMMA CreateIsRight ==
  ASSUME IInv, NEW p \in Procs, PutCreate(p) \/ Mkcol(p)
  PROVE  IInv' /\ (ConflictsExplained => ConflictsExplained')
<1> DEFINE path == proc[p].req.path
<1>1. PICK op \in {"PUT", "MKCOL"}, kind \in Kinds : Create(p, op, kind)
  BY DEF PutCreate, Mkcol, Kinds
<1>2. PICK c \in ResolveColl(tree, Front(path)) : Insert(Node(kind, c.id, Last(path)))
  BY <1>1 DEF Create
<1>3. /\ proc[p].pc = "enforced" /\ None \in Resolve(tree, path)
      /\ Finish(p, Stale(p)) /\ UNCHANGED <<locks, granted, carried>>
  BY <1>1 DEF Create, Enforcing
<1>4. path \in Seq(STRING)
  BY <1>3, AtWork
<1>5. path # <<>>
  BY <1>3, <1>4, ResolveFinds DEF IInv, TreeInv
<1>6. Front(path) \in Seq(STRING) /\ Last(path) \in STRING
  BY <1>4, <1>5 DEF Front, Last
<1>7. c \in Rows
  BY <1>6, FoundRows DEF IInv
<1>8. Node(kind, c.id, Last(path)) \in Nodes
  BY <1>6, <1>7 DEF Node, Nodes, Rows
<1>9. /\ TreeInv' /\ DOMAIN tree \subseteq DOMAIN tree'
      /\ Free(locks, now, tree) => Free(locks, now, tree')
  BY <1>2, <1>8, Inserted
<1>10. /\ RequestsInv' /\ now' = now /\ sent' = sent
       /\ raced' = (raced \/ Stale(p)) /\ raced' \in BOOLEAN
  BY <1>3, StaleIsBoolean, Finishes
<1>11. LocksInv'
  BY <1>3, <1>9, LocksStay DEF IInv
<1>12. ConflictsExplained => ConflictsExplained'
  BY <1>3, <1>9, <1>10, NoConflictIs DEF ConflictsExplained
<1> QED
  BY <1>3, <1>9, <1>10, <1>11, <1>12 DEF IInv, CountsInv

\* A row goes with all below it and the locks on them, or nothing goes.
LEMMA Cleaned ==
  ASSUME IInv, NEW x, x # Root, NEW u, u = [n \in DOMAIN tree \ Subtree(tree, x) |-> tree[n]]
  PROVE  /\ IsTree(u) /\ DOMAIN u \subseteq DOMAIN tree
         /\ \A n \in DOMAIN u : Upwards(u, n) = Upwards(tree, n)
         /\ \A l \in LocksWithout(Subtree(tree, x)) : l \in locks /\ l.target \in DOMAIN u
         /\ Free(locks, now, tree) => Free(LocksWithout(Subtree(tree, x)), now, u)
<1>1. /\ IsTree(u) /\ DOMAIN u = DOMAIN tree \ Subtree(tree, x)
      /\ \A n \in DOMAIN u : Upwards(u, n) = Upwards(tree, n)
  BY RowsLeft DEF IInv, TreeInv
<1>2. \A l \in LocksWithout(Subtree(tree, x)) : l \in locks /\ l.target \in DOMAIN u
  BY <1>1 DEF LocksWithout, IInv, LocksInv, LockOK
<1>3. Free(locks, now, tree) => Free(LocksWithout(Subtree(tree, x)), now, u)
  BY <1>1, <1>2, StaysFree
<1> QED
  BY <1>1, <1>2, <1>3

LEMMA DeleteIsRight ==
  ASSUME IInv, NEW p \in Procs, Delete(p)
  PROVE  IInv' /\ (ConflictsExplained => ConflictsExplained')
<1>1. PICK x \in Existing(tree, proc[p].req.path) :
        /\ x.id # Root
        /\ tree' = Restrict(tree, DOMAIN tree \ Subtree(tree, x.id))
        /\ locks' = LocksWithout(Subtree(tree, x.id))
  BY DEF Delete
<1>2. Finish(p, Stale(p)) /\ UNCHANGED <<nextNode, granted, carried>>
  BY DEF Delete
<1>3. tree' = [n \in DOMAIN tree \ Subtree(tree, x.id) |-> tree[n]]
  BY <1>1 DEF Restrict
<1>4. /\ IsTree(tree') /\ DOMAIN tree' \subseteq DOMAIN tree
      /\ \A l \in locks' : l \in locks /\ l.target \in DOMAIN tree'
      /\ Free(locks, now, tree) => Free(locks', now, tree')
  BY <1>1, <1>3, Cleaned
<1>5. /\ RequestsInv' /\ now' = now /\ sent' = sent
      /\ raced' = (raced \/ Stale(p)) /\ raced' \in BOOLEAN
  BY <1>2, StaleIsBoolean, Finishes
<1>6. LocksInv'
  BY <1>2, <1>4, FewerLocks DEF IInv
<1>7. TreeInv'
  BY <1>2, <1>4 DEF IInv, TreeInv
<1>8. ConflictsExplained => ConflictsExplained'
  BY <1>2, <1>4, <1>5, NoConflictIs DEF ConflictsExplained
<1> QED
  BY <1>2, <1>5, <1>6, <1>7, <1>8 DEF IInv, CountsInv

\* What is left of the tree once an overwritten destination is gone.
LEMMA ClearedLeaves ==
  ASSUME IInv, NEW w, w.existing # None => w.existing.id # Root,
         NEW v, v = [n \in DOMAIN tree \ Cleared(w) |-> tree[n]]
  PROVE  /\ IsTree(v) /\ DOMAIN v \subseteq DOMAIN tree
         /\ \A n \in DOMAIN v : Upwards(v, n) = Upwards(tree, n)
         /\ \A l \in LocksWithout(Cleared(w)) : l \in locks /\ l.target \in DOMAIN v
         /\ Free(locks, now, tree) => Free(LocksWithout(Cleared(w)), now, v)
<1>1. CASE w.existing = None
  <2>1. Cleared(w) = {} /\ DOMAIN v = DOMAIN tree /\ \A n \in DOMAIN v : v[n] = tree[n]
    BY <1>1 DEF Cleared
  <2>2. Sound(tree) /\ Sound(v) /\ IsTree(v)
    BY <2>1 DEF IInv, TreeInv, IsTree, Sound
  <2>3. ASSUME NEW n \in DOMAIN v
        PROVE  Upwards(v, n) = Upwards(tree, n)
    <3>1. Upwards(tree, n) \subseteq DOMAIN tree
      BY <2>1, <2>2, UpwardsClosed
    <3> QED
      BY <2>1, <2>2, <3>1, UpwardsSame
  <2>4. LocksWithout(Cleared(w)) = locks
    BY <2>1 DEF LocksWithout
  <2>5. \A l \in locks : l.target \in DOMAIN v
    BY <2>1 DEF IInv, LocksInv, LockOK
  <2>6. Free(locks, now, tree) => Free(locks, now, v)
    BY <2>1, <2>3, StaysFree
  <2> QED
    BY <2>1, <2>2, <2>3, <2>4, <2>5, <2>6
<1>2. CASE w.existing # None
  BY <1>2, Cleaned DEF Cleared
<1> QED
  BY <1>1, <1>2

LEMMA CopyIsRight ==
  ASSUME IInv, NEW p \in Procs, Copy(p)
  PROVE  IInv' /\ (ConflictsExplained => ConflictsExplained')
<1> DEFINE w == proc[p]
           copy == Node(w.target.kind, w.parent.id, Last(w.req.dest))
           v == [n \in DOMAIN tree \ Cleared(w) |-> tree[n]]
<1>1. /\ w.pc = "enforced" /\ w.req.op = "COPY"
      /\ w.parent.id \in DOMAIN tree \ Cleared(w)
      /\ tree' = [n \in (DOMAIN tree \ Cleared(w)) \cup {nextNode} |->
                    IF n = nextNode THEN copy ELSE tree[n]]
      /\ nextNode' = nextNode + 1
      /\ locks' = LocksWithout(Cleared(w))
      /\ Finish(p, Stale(p)) /\ UNCHANGED <<granted, carried>>
  BY DEF Copy, Enforcing
<1>2. /\ w \in Works /\ w.target \in Rows /\ w.parent \in Rows
      /\ w.req.dest \in Seq(STRING) /\ w.req.dest # <<>>
      /\ w.existing # None => w.existing.id # Root
  BY <1>1, AtWork DEF HasWhatItNeeds
<1>3. copy \in Nodes /\ copy.parent = w.parent.id
  BY <1>2 DEF Node, Nodes, Rows, Last
<1> HIDE DEF copy, w
<1>4. /\ IsTree(v) /\ DOMAIN v \subseteq DOMAIN tree
      /\ \A l \in locks' : l \in locks /\ l.target \in DOMAIN v
      /\ Free(locks, now, tree) => Free(locks', now, v)
  BY <1>1, <1>2, ClearedLeaves
<1>5. /\ nextNode \in Nat \ {NoParent} /\ nextNode \notin DOMAIN v
      /\ DOMAIN tree \subseteq 1..(nextNode - 1)
  BY <1>4 DEF IInv, TreeInv, IsTree, NoParent, Root
<1>6. tree' = [n \in DOMAIN v \cup {nextNode} |-> IF n = nextNode THEN copy ELSE v[n]]
  BY <1>1
<1>7. copy.parent \in DOMAIN v
  BY <1>1, <1>3
<1> HIDE DEF v
<1>8. /\ IsTree(tree') /\ DOMAIN tree' = DOMAIN v \cup {nextNode}
      /\ \A n \in DOMAIN v : Upwards(tree', n) = Upwards(v, n)
      /\ Upwards(tree', nextNode) = {nextNode} \cup Upwards(v, copy.parent)
  <2>1. DOMAIN tree' = DOMAIN v \cup {nextNode}
    BY <1>6
  <2> QED
    BY <1>3, <1>4, <1>5, <1>6, <1>7, <2>1, RowAdded
<1>9. Free(locks', now, v) => Free(locks', now, tree')
  BY <1>4, <1>5, <1>7, <1>8, NewRowIsFree
<1>10. TreeInv'
  <2>1. DOMAIN tree' \subseteq 1..(nextNode' - 1)
    BY <1>1, <1>4, <1>5, <1>8 DEF NoParent
  <2> QED
    BY <1>1, <1>5, <1>8, <2>1 DEF TreeInv
<1>11. /\ RequestsInv' /\ now' = now /\ sent' = sent
       /\ raced' = (raced \/ Stale(p)) /\ raced' \in BOOLEAN
  BY <1>1, StaleIsBoolean, Finishes
<1>12. LocksInv'
  BY <1>1, <1>4, <1>8, FewerLocks DEF IInv
<1>13. ConflictsExplained => ConflictsExplained'
  BY <1>1, <1>4, <1>9, <1>11, NoConflictIs DEF ConflictsExplained
<1> QED
  BY <1>1, <1>10, <1>11, <1>12, <1>13 DEF IInv, CountsInv

\* The locks that a MOVE takes along, and those above the place it moves them
\* to, are all its client's, if they are all covered: they do not conflict.
LEMMA MovedIsFree ==
  ASSUME NEW t, NEW L, NEW time, Free(L, time, t),
         NEW K, K \subseteq L, NEW m, NEW d, NEW c,
         NEW u, DOMAIN u \subseteq DOMAIN t,
         \A n \in DOMAIN u :
           \/ Upwards(u, n) = Upwards(t, n)
           \/ n \in Subtree(t, m) /\ Upwards(u, n) \subseteq Subtree(t, m) \cup Upwards(t, d),
         \A l \in K :
           /\ IsActive(l, time)
           /\ l.target \in Subtree(t, m) \/ (l.depth = "infinity" /\ l.target \in Upwards(t, d))
           => l.holder = c
  PROVE  Free(K, time, u)
<1>1. SUFFICES ASSUME NEW l \in K, NEW k \in K,
                      IsActive(l, time), IsActive(k, time),
                      l.scope = "exclusive", l.holder # k.holder,
                      NEW n \in DOMAIN u, Reaches(l, u, n), Reaches(k, u, n)
               PROVE  FALSE
  BY DEF Free
<1>2. CASE Upwards(u, n) = Upwards(t, n)
  <2>1. Reaches(l, t, n) /\ Reaches(k, t, n) /\ n \in DOMAIN t
    BY <1>1, <1>2 DEF Reaches
  <2> QED
    BY <1>1, <2>1 DEF Free
<1>3. CASE n \in Subtree(t, m) /\ Upwards(u, n) \subseteq Subtree(t, m) \cup Upwards(t, d)
  <2>1. ASSUME NEW j \in K, IsActive(j, time), Reaches(j, u, n)
        PROVE  j.holder = c
    <3>1. \/ j.target \in Subtree(t, m)
          \/ j.depth = "infinity" /\ j.target \in Upwards(t, d)
      BY <1>3, <2>1 DEF Reaches
    <3> QED
      BY <2>1, <3>1
  <2> QED
    BY <1>1, <2>1
<1> QED
  BY <1>2, <1>3

LEMMA MoveIsRight ==
  ASSUME IInv, NEW p \in Procs, Move(p)
  PROVE  IInv' /\ (ConflictsExplained => ConflictsExplained')
<1> DEFINE w == proc[p]
           kept == DOMAIN tree \ Cleared(w)
           moved == Node(w.target.kind, w.parent.id, Last(w.req.dest))
           v == [n \in kept |-> tree[n]]
           m == w.target.id
           d == w.parent.id
           took == \E l \in locks' :
                     Active(l) /\ l.token \notin w.tokens /\ l.target \in Subtree(tree, m)
<1>1. /\ w.pc = "enforced" /\ w.req.op = "MOVE" /\ d \in kept
      /\ tree' = [n \in kept |-> IF n = m THEN moved ELSE tree[n]]
      /\ locks' = LocksWithout(Cleared(w))
      /\ carried' = (carried \/ took)
      /\ Finish(p, Stale(p)) /\ UNCHANGED <<nextNode, granted>>
  BY DEF Move, Enforcing
<1>2. /\ w \in Works /\ w.target \in Rows /\ w.parent \in Rows
      /\ w.req.dest \in Seq(STRING) /\ w.req.dest # <<>>
      /\ w.existing # None => w.existing.id # Root
      /\ m # Root /\ w.req \in Requests /\ w.tokens \in SUBSET Nat
      /\ w.tokens \subseteq {t \in DOMAIN granted : granted[t] = w.req.client}
  BY <1>1, AtWork DEF HasWhatItNeeds, Works
<1>3. moved \in Nodes /\ moved.parent = d
  BY <1>2 DEF Node, Nodes, Rows, Last
<1> HIDE DEF moved, took
<1>4. /\ IsTree(v) /\ DOMAIN v = kept /\ kept \subseteq DOMAIN tree
      /\ \A n \in kept : Upwards(v, n) = Upwards(tree, n)
      /\ \A l \in locks' : l \in locks /\ l.target \in kept
  <2>1. v = [n \in DOMAIN tree \ Cleared(w) |-> tree[n]] /\ DOMAIN v = kept
    OBVIOUS
  <2>2. kept \subseteq DOMAIN tree
    OBVIOUS
  <2> HIDE DEF v, kept, w, m, d
  <2> QED
    BY <1>1, <1>2, <2>1, <2>2, ClearedLeaves
<1>5. tree' = [n \in DOMAIN v |-> IF n = m THEN moved ELSE v[n]]
  BY <1>1
<1> HIDE DEF kept, v
<1>6. /\ IsTree(tree') /\ DOMAIN tree' = kept
      /\ \A n \in kept :
           \/ n \notin Subtree(v, m) /\ Upwards(tree', n) = Upwards(v, n)
           \/ n \in Subtree(v, m) /\ Upwards(tree', n) \subseteq Subtree(v, m) \cup Upwards(v, d)
  <2>1. moved.parent \in DOMAIN v
    BY <1>1, <1>3, <1>4
  <2> HIDE DEF m, d
  <2>2. /\ IsTree(tree') /\ DOMAIN tree' = DOMAIN v
        /\ \A n \in DOMAIN v :
             \/ n \notin Subtree(v, m) /\ Upwards(tree', n) = Upwards(v, n)
             \/ /\ n \in Subtree(v, m)
                /\ Upwards(tree', n) \subseteq Subtree(v, m) \cup Upwards(v, moved.parent)
    BY <1>2, <1>3, <1>4, <1>5, <2>1, RowMoved
  <2> QED
    BY <1>3, <1>4, <2>2
<1>7. \A n \in DOMAIN tree' :
        \/ Upwards(tree', n) = Upwards(tree, n)
        \/ /\ n \in Subtree(tree, m)
           /\ Upwards(tree', n) \subseteq Subtree(tree, m) \cup Upwards(tree, d)
  <2>1. Subtree(v, m) \subseteq Subtree(tree, m)
    BY <1>4 DEF Subtree
  <2> QED
    BY <1>1, <1>4, <1>6, <2>1
<1>8. /\ RequestsInv' /\ now' = now /\ sent' = sent
      /\ raced' = (raced \/ Stale(p)) /\ raced' \in BOOLEAN
  BY <1>1, StaleIsBoolean, Finishes
<1>9. LocksInv'
  BY <1>1, <1>4, <1>6, FewerLocks DEF IInv
<1>10. TreeInv'
  BY <1>1, <1>4, <1>6 DEF IInv, TreeInv
<1>11. CountsInv'
  BY <1>1, <1>8 DEF IInv, CountsInv, took
<1>12. ASSUME ~Stale(p), ~took, Free(locks, now, tree)
       PROVE  Free(locks', now, tree')
  <2>1. w \in DestinationChecks(w.req, w.tokens)
    BY <1>1, <1>12, EnforcedIs DEF Stale
  <2>2. w.parent = Row(tree, d) /\ Covered({w.parent}, w.tokens)
    <3>1. TreeInv /\ w.req \in Requests /\ w.tokens \subseteq Nat
      BY <1>2 DEF IInv
    <3>2. GoesThere(w, w.req, w.tokens)
      BY <2>1, <3>1, DestinationsAre
    <3> QED
      BY <3>2 DEF GoesThere
  <2>3. ASSUME NEW l \in locks', IsActive(l, now),
               \/ l.target \in Subtree(tree, m)
               \/ l.depth = "infinity" /\ l.target \in Upwards(tree, d)
        PROVE  l.holder = w.req.client
    <3>1. l.token \in w.tokens => l.holder = w.req.client
      BY <1>2, <1>4 DEF IInv, LocksInv, LockOK
    <3>2. l.token \in w.tokens
      <4>1. CASE l.target \in Subtree(tree, m)
        BY <1>12, <2>3, <4>1 DEF took, Active
      <4>2. CASE l.depth = "infinity" /\ l.target \in Upwards(tree, d)
        <5>1. d \in DOMAIN tree /\ Sound(tree)
          BY <1>1, <1>4 DEF IInv, TreeInv, IsTree
        <5>2. l.target = d \/ l.target \in Upwards(tree, tree[d].parent)
          BY <4>2, <5>1, UpwardsStep
        <5>3. w.parent.id = d /\ w.parent.row = tree[d]
          BY <2>2 DEF Row
        <5>4. l \in EffectiveLocks(w.parent)
          BY <1>4, <2>3, <4>2, <5>2, <5>3 DEF EffectiveLocks, Active
        <5> QED
          BY <2>2, <5>4 DEF Covered, HasValidLockToken
      <4> QED
        BY <2>3, <4>1, <4>2
    <3> QED
      BY <3>1, <3>2
  <2>4. locks' \subseteq locks /\ DOMAIN tree' \subseteq DOMAIN tree
    BY <1>4, <1>6
  <2>5. ASSUME NEW c, c = w.req.client
        PROVE  Free(locks', now, tree')
    <3>1. \A l \in locks' :
            /\ IsActive(l, now)
            /\ \/ l.target \in Subtree(tree, m)
               \/ l.depth = "infinity" /\ l.target \in Upwards(tree, d)
            => l.holder = c
      BY <2>3, <2>5
    <3> HIDE DEF m, d
    <3> QED
      BY <1>7, <1>12, <2>4, <3>1, MovedIsFree
  <2> QED
    BY <2>5
<1>13. ConflictsExplained => ConflictsExplained'
  BY <1>1, <1>8, <1>12, NoConflictIs DEF ConflictsExplained
<1> QED
  BY <1>8, <1>9, <1>10, <1>11, <1>13 DEF IInv

-----------------------------------------------------------------------------
(* The theorems.                                                           *)

LEMMA Starts == Init => IInv /\ ConflictsExplained
<1> SUFFICES ASSUME Init
             PROVE  IInv /\ ConflictsExplained
  OBVIOUS
<1> DEFINE last == Cardinality(DOMAIN InitialTree)
<1>1. /\ last \in Nat /\ DOMAIN InitialTree = 1..last /\ Root \in 1..last
      /\ InitialTree[Root].parent = NoParent
      /\ \A n \in 1..last :
           /\ InitialTree[n] \in Nodes
           /\ n # Root => InitialTree[n].parent \in 1..last
  BY TreeAssumption DEF Nodes, Kinds
<1>2. IsFiniteSet(1..last)
  BY <1>1, FS_Interval
<1> HIDE DEF last
<1>3. IsTree(InitialTree)
  BY <1>1, <1>2 DEF IsTree, Sound, NoParent
<1>4. TreeInv
  <2>1. tree = InitialTree /\ nextNode = last + 1
    BY DEF Init, last
  <2> QED
    BY <1>1, <1>3, <2>1 DEF TreeInv
<1>5. LocksInv
  BY DEF Init, LocksInv
<1>6. CountsInv
  <2>1. 0 \in 0..MaxNow /\ 0 \in 0..MaxRequests
    BY BoundsAssumption
  <2> QED
    BY <2>1 DEF Init, CountsInv
<1>7. RequestsInv
  BY DEF Init, RequestsInv, WorkOK
<1>8. ConflictsExplained
  BY DEF Init, ConflictsExplained, NoConflict
<1> QED
  BY <1>4, <1>5, <1>6, <1>7, <1>8 DEF IInv

LEMMA StepIsRight ==
  ASSUME IInv, [Next]_vars
  PROVE  IInv' /\ (ConflictsExplained => ConflictsExplained')
<1>1. CASE Tick
  BY <1>1, TickIsRight
<1>2. ASSUME NEW p \in Procs, Locking(p)
      PROVE  IInv' /\ (ConflictsExplained => ConflictsExplained')
  BY <1>2, LookupIsRight, ReserveIsRight, ChecksAreRight, GrantIsRight, MatchLockIsRight,
     RefreshIsRight, UnlockIsRight DEF Locking
<1>3. ASSUME NEW p \in Procs, Writing(p)
      PROVE  IInv' /\ (ConflictsExplained => ConflictsExplained')
  BY <1>3, EnforceIsRight, PutOverwriteIsRight, CreateIsRight, DeleteIsRight, CopyIsRight,
     MoveIsRight DEF Writing
<1>4. ASSUME NEW p \in Procs, GiveUp(p)
      PROVE  IInv' /\ (ConflictsExplained => ConflictsExplained')
  BY <1>4, GiveUpIsRight
<1>5. CASE UNCHANGED vars
  <2>1. UNCHANGED <<tree, nextNode, locks, granted, now, proc, sent, raced, carried>>
    BY <1>5 DEF vars, tables, history
  <2>2. IInv'
    BY <2>1 DEF IInv, TreeInv, LocksInv, CountsInv, RequestsInv
  <2> QED
    BY <2>1, <2>2, StaysExplained
<1> QED
  BY <1>1, <1>2, <1>3, <1>4, <1>5 DEF Next

\* Tables, locks and counters keep their types; a lock is on a resource that
\* is there (ON DELETE CASCADE), its token is one that its holder was sent, and
\* no two locks have the same.
THEOREM TypesAreRight == Spec => []TypeOK
<1>1. Init => IInv
  BY Starts
<1>2. IInv /\ [Next]_vars => IInv'
  BY StepIsRight
<1> QED
  BY <1>1, <1>2, TypesFollow, PTL DEF Spec

\* Whatever requests race, two clients hold locks that conflict on a resource
\* only after a step relied on a check that no longer held, or after a MOVE
\* took along a lock it had no token for (moveFile and moveCollection keep the
\* locks of the row; the handler checks the source and the places, never what
\* is below the source).
THEOREM ConflictsAreExplained == Spec => []ConflictsExplained
<1>1. Init => IInv /\ ConflictsExplained
  BY Starts
<1>2. IInv /\ ConflictsExplained /\ [Next]_vars => IInv' /\ ConflictsExplained'
  BY StepIsRight
<1> QED
  BY <1>1, <1>2, PTL DEF Spec

LEMMA SameButItsEnd ==
  ASSUME NEW l \in LockRows
  PROVE  l = [l EXCEPT !.expires = l.expires]
BY DEF LockRows

LEMMA NoneReturns ==
  ASSUME IInv, [Next]_vars
  PROVE  \A l \in locks' :
           l.token \notin Tokens \/ \E k \in locks : l = [k EXCEPT !.expires = l.expires]
<1>1. \A l \in locks : l \in LockRows
  BY DEF IInv, LocksInv, LockOK
<1>2. CASE locks' \subseteq locks
  BY <1>1, <1>2, SameButItsEnd
<1>3. ASSUME NEW p \in Procs, Grant(p)
      PROVE  \A l \in locks' : l \in locks \/ l.token \notin Tokens
  <2> DEFINE w == proc[p]
             depth == IF w.target.kind = "coll" THEN w.req.depth ELSE "zero"
             lock == Lock(Len(granted) + 1, w.target.id, w.req.client, w.req.scope, depth,
                          now + GrantLockTimeout(w.req.timeout))
  <2>1. locks' = locks \cup {lock} /\ lock.token = Len(granted) + 1
    BY <1>3 DEF Grant, Lock
  <2> HIDE DEF lock
  <2>2. Len(granted) + 1 \notin DOMAIN granted
    BY DEF IInv, LocksInv
  <2> QED
    BY <2>1, <2>2 DEF Tokens
<1>4. ASSUME NEW p \in Procs, Refresh(p)
      PROVE  \A l \in locks' : \E k \in locks : l = [k EXCEPT !.expires = l.expires]
  <2>1. PICK time : locks' = {IF k.token = proc[p].lock.token
                              THEN [k EXCEPT !.expires = time] ELSE k : k \in locks}
    BY <1>4 DEF Refresh, PersistRefreshedTimeout
  <2>2. \A k \in locks : [k EXCEPT !.expires = time]
          = [k EXCEPT !.expires = [k EXCEPT !.expires = time].expires]
    BY <1>1 DEF LockRows
  <2> QED
    BY <1>1, <2>1, <2>2, SameButItsEnd
<1>5. ASSUME NEW p \in Procs, Unlock(p) \/ Delete(p) \/ Copy(p) \/ Move(p)
      PROVE  locks' \subseteq locks
  BY <1>5 DEF Unlock, Delete, Copy, Move, LocksWithout
<1>6. ASSUME NEW p \in Procs,
             \/ Lookup(p) \/ Reserve(p) \/ CheckOwnLocks(p) \/ CheckSubtree(p) \/ MatchLock(p)
             \/ Enforce(p) \/ PutOverwrite(p) \/ PutCreate(p) \/ Mkcol(p) \/ GiveUp(p)
      PROVE  locks' = locks
  BY <1>6 DEF Lookup, Reserve, CheckOwnLocks, CheckSubtree, MatchLock, Enforce, PutOverwrite,
     PutCreate, Mkcol, Create, GiveUp, Begin, Continue, tables
<1>7. CASE Tick \/ UNCHANGED vars
  BY <1>2, <1>7 DEF Tick, vars, tables
<1> QED
  <2>1. CASE \E p \in Procs : Locking(p) \/ Writing(p) \/ GiveUp(p)
    <3>1. PICK p \in Procs : Locking(p) \/ Writing(p) \/ GiveUp(p)
      BY <2>1
    <3>2. CASE Grant(p)
      BY <1>1, <1>3, <3>2, SameButItsEnd
    <3>3. CASE Refresh(p)
      BY <1>4, <3>3
    <3>4. CASE ~Grant(p) /\ ~Refresh(p)
      BY <1>2, <1>5, <1>6, <3>1, <3>4 DEF Locking, Writing
    <3> QED
      BY <3>2, <3>3, <3>4
  <2> QED
    BY <1>7, <2>1 DEF Next

\* A lock that was removed, or went with its resource, never comes back, and of
\* a lock nothing changes but its end: what persistRefreshedTimeout writes is two
\* columns of the row with that id, and nothing when the row is gone by then.
THEOREM LocksStayGone == Spec => LocksNeverReturn
<1>1. Init => IInv
  BY Starts
<1>2. IInv /\ [Next]_vars => IInv'
  BY StepIsRight
<1>3. IInv /\ [Next]_vars =>
        [\A l \in locks' :
           \/ l.token \notin Tokens
           \/ \E k \in locks : l = [k EXCEPT !.expires = l.expires]]_vars
  BY NoneReturns
<1> QED
  BY <1>1, <1>2, <1>3, PTL DEF Spec, LocksNeverReturn

-----------------------------------------------------------------------------
(* What a writer has checked is what it changes: while no two rows of one  *)
(* parent share a name, a path has one meaning.                            *)

Named(t) ==
  \A n, m \in DOMAIN t : t[n].parent = t[m].parent /\ t[n].name = t[m].name => n = m
Vacant(t, c, name) == \A n \in DOMAIN t : ~(t[n].parent = c /\ t[n].name = name)

LEMMA ChildrenAre ==
  ASSUME NEW t, NEW c, NEW name, NEW y \in ChildrenAt(t, c, name)
  PROVE  IF y = None THEN Vacant(t, c, name)
         ELSE \E n \in DOMAIN t : y = Row(t, n) /\ t[n].parent = c /\ t[n].name = name
<1> DEFINE named == {n \in DOMAIN t : t[n].parent = c /\ t[n].name = name}
           colls == {n \in named : t[n].kind = "coll"}
<1>1. y \in IF named = {} THEN {None}
            ELSE {Row(t, n) : n \in IF colls # {} THEN colls ELSE named}
  BY DEF ChildrenAt
<1>2. \A n \in named : Row(t, n) # None
  BY DEF Row, None
<1>3. CASE named = {}
  BY <1>1, <1>3 DEF Vacant
<1>4. CASE named # {}
  <2>1. PICK n \in named : y = Row(t, n)
    BY <1>1, <1>4
  <2> QED
    BY <1>2, <2>1
<1> QED
  BY <1>3, <1>4

LEMMA ChildrenOne ==
  ASSUME NEW t, Named(t), NEW c, NEW name,
         NEW y \in ChildrenAt(t, c, name), NEW z \in ChildrenAt(t, c, name)
  PROVE  y = z
<1>1. /\ IF y = None THEN Vacant(t, c, name)
         ELSE \E n \in DOMAIN t : y = Row(t, n) /\ t[n].parent = c /\ t[n].name = name
      /\ IF z = None THEN Vacant(t, c, name)
         ELSE \E n \in DOMAIN t : z = Row(t, n) /\ t[n].parent = c /\ t[n].name = name
  BY ChildrenAre
<1> QED
  BY <1>1 DEF Vacant, Named

LEMMA ResolveOne ==
  ASSUME NEW t, IsTree(t), Named(t)
  PROVE  \A q \in Seq(STRING) : \A y, z \in Resolve(t, q) : y = z
<1> DEFINE T == {n \in Nat : \A q \in Seq(STRING) :
                               Len(q) = n => \A y, z \in Resolve(t, q) : y = z}
<1>1. 0 \in T
  <2>1. \A q \in Seq(STRING) : Len(q) = 0 => q = <<>>
    OBVIOUS
  <2> QED
    BY <2>1, ResolveRoot
<1>2. ASSUME NEW n \in T
      PROVE  n + 1 \in T
  <2> SUFFICES ASSUME NEW q \in Seq(STRING), Len(q) = n + 1,
                      NEW y \in Resolve(t, q), NEW z \in Resolve(t, q)
               PROVE  y = z
    OBVIOUS
  <2>1. q # <<>> /\ n \in Nat
    OBVIOUS
  <2>2. Front(q) \in Seq(STRING) /\ Len(Front(q)) = n
    BY <2>1, FrontOf
  <2>3. Resolve(t, q) = OneDown(t, q, Len(q), Resolve(t, Front(q)))
    BY <2>1, ResolveStep
  <2>4. \A s, r \in Resolve(t, Front(q)) : s = r
    BY <2>2
  <2> HIDE DEF T
  <2>5. PICK x \in Resolve(t, Front(q)) :
          /\ y \in IF x.kind = "coll" THEN ChildrenAt(t, x.id, q[Len(q)]) ELSE {None}
          /\ z \in IF x.kind = "coll" THEN ChildrenAt(t, x.id, q[Len(q)]) ELSE {None}
    BY <2>3, <2>4 DEF OneDown
  <2> QED
    BY <2>5, ChildrenOne
<1>3. T = Nat
  <2> HIDE DEF T
  <2>1. T \in SUBSET Nat
    BY DEF T
  <2> QED
    BY <1>1, <1>2, <2>1, Inductive
<1>4. \A q \in Seq(STRING) : Len(q) \in T
  BY <1>3
<1> QED
  BY <1>4

\* What a path resolves to is a child, or none, of what is above it.
LEMMA Up ==
  ASSUME NEW t, IsTree(t), Named(t), NEW path \in Seq(STRING), path # <<>>,
         NEW c \in ResolveColl(t, Front(path)), NEW y \in Resolve(t, path)
  PROVE  y \in ChildrenAt(t, c.id, Last(path))
<1>1. /\ Resolve(t, path) = OneDown(t, path, Len(path), Resolve(t, Front(path)))
      /\ Front(path) \in Seq(STRING) /\ Last(path) = path[Len(path)]
  BY ResolveStep, FrontOf
<1>2. c \in Resolve(t, Front(path)) /\ c.kind = "coll"
  BY DEF ResolveColl
<1>3. \A x \in Resolve(t, Front(path)) : x = c
  BY <1>1, <1>2, ResolveOne
<1> QED
  BY <1>1, <1>2, <1>3 DEF OneDown

\* What is in scope of a row is in effect there by the walk of the code.
Guarded(tokens, c) == \A l \in locks : Active(l) /\ InScope(l, c) => l.token \in tokens

LEMMA CoveredIsGuarded ==
  ASSUME TreeInv, NEW c \in DOMAIN tree, NEW S, Row(tree, c) \in S, NEW tokens, Covered(S, tokens)
  PROVE  Guarded(tokens, c)
<1> SUFFICES ASSUME NEW l \in locks, Active(l), InScope(l, c)
             PROVE  l.token \in tokens
  BY DEF Guarded
<1>1. Row(tree, c).id = c /\ Row(tree, c).row = tree[c]
  BY DEF Row
<1>2. HasValidLockToken(EffectiveLocks(Row(tree, c)), tokens)
  BY DEF Covered
<1>3. l.target = c \/ (l.depth = "infinity" /\ l.target \in Upwards(tree, c))
  BY DEF InScope, Subtree
<1>4. l.target = c \/ (l.depth = "infinity" /\ l.target \in Upwards(tree, tree[c].parent))
  BY <1>3, UpwardsStep DEF TreeInv, IsTree
<1>5. l \in EffectiveLocks(Row(tree, c))
  BY <1>1, <1>4 DEF EffectiveLocks
<1> QED
  BY <1>2, <1>5 DEF HasValidLockToken

\* The members of a row that goes are no others' but for the row at the top.
LEMMA Boundary ==
  ASSUME NEW t, IsTree(t), NEW x, NEW n \in Subtree(t, x),
         t[n].parent \in DOMAIN t \ Subtree(t, x)
  PROVE  n = x
<1>1. n \in DOMAIN t /\ x \in Upwards(t, n)
  BY DEF Subtree
<1>2. x \notin Upwards(t, t[n].parent)
  BY DEF Subtree
<1> QED
  BY <1>1, <1>2, UpwardsStep DEF IsTree

\* A step keeps names apart and has checked whose members it changes.
Changes(t, u, tokens) ==
  /\ Named(u)
  /\ \A c \in DOMAIN t \cap DOMAIN u : Members(t, c) # Members(u, c) => Guarded(tokens, c)

LEMMA NothingChanges ==
  ASSUME NEW t, Named(t), NEW tokens
  PROVE  Changes(t, t, tokens)
BY DEF Changes

LEMMA OneAdded ==
  ASSUME NEW t, Named(t), NEW m, m \notin DOMAIN t, NEW node,
         Vacant(t, node.parent, node.name), NEW tokens, Guarded(tokens, node.parent),
         NEW u, u = [n \in DOMAIN t \cup {m} |-> IF n = m THEN node ELSE t[n]]
  PROVE  Changes(t, u, tokens)
<1>1. DOMAIN u = DOMAIN t \cup {m} /\ u[m] = node /\ \A n \in DOMAIN t : u[n] = t[n]
  OBVIOUS
<1>2. Named(u)
  BY <1>1 DEF Named, Vacant
<1>3. \A c : c # node.parent => Members(t, c) = Members(u, c)
  BY <1>1 DEF Members
<1> QED
  BY <1>2, <1>3 DEF Changes

LEMMA CreateIsGuarded ==
  ASSUME IInv, Named(tree), NEW p \in Procs, PutCreate(p) \/ Mkcol(p), ~raced'
  PROVE  Changes(tree, tree', proc[p].tokens)
<1> DEFINE path == proc[p].req.path
           tokens == proc[p].tokens
<1>1. PICK op \in {"PUT", "MKCOL"}, kind \in Kinds : Create(p, op, kind)
  BY DEF PutCreate, Mkcol, Kinds
<1>2. PICK c \in ResolveColl(tree, Front(path)) : Insert(Node(kind, c.id, Last(path)))
  BY <1>1 DEF Create
<1>3. /\ proc[p].pc = "enforced" /\ proc[p].req.op = op /\ None \in Resolve(tree, path)
      /\ Finish(p, Stale(p))
  BY <1>1 DEF Create, Enforcing
<1>4. path \in Seq(STRING)
  BY <1>3, AtWork
<1>5. path # <<>>
  BY <1>3, <1>4, ResolveFinds DEF IInv, TreeInv
<1>6. Front(path) \in Seq(STRING)
  BY <1>4, <1>5, FrontOf
<1>7. c.id \in DOMAIN tree /\ c = Row(tree, c.id) /\ c # None
  BY <1>6, FoundRows DEF IInv
<1>8. proc[p] \in Enforced(proc[p].req, tokens)
  BY <1>3 DEF Finish, Stale
<1>9. \E checked \in CheckedByMiddleware(proc[p].req) : Covered(checked, tokens)
  BY <1>3, <1>8 DEF Enforced, DestinationChecks
<1>10. \A y \in Resolve(tree, path) : y = None
  BY <1>3, <1>4, ResolveOne DEF IInv, TreeInv
<1>11. \A y \in Resolve(tree, Front(path)) : y = c
  BY <1>6, ResolveOne DEF IInv, TreeInv, ResolveColl
<1>12. \A checked \in CheckedByMiddleware(proc[p].req) : checked = {c}
  <2>1. CheckedForCreation(proc[p].req) \subseteq {{c}}
    BY <1>7, <1>11 DEF CheckedForCreation
  <2>2. Existing(tree, path) = {}
    BY <1>10 DEF Existing
  <2> QED
    BY <1>1, <1>3, <2>1, <2>2 DEF CheckedByMiddleware
<1>13. Covered({c}, tokens)
  BY <1>9, <1>12
<1> DEFINE node == Node(kind, c.id, Last(path))
<1>14. Guarded(tokens, node.parent) /\ node.parent = c.id /\ node.name = Last(path)
  BY <1>7, <1>13, CoveredIsGuarded DEF IInv, Node
<1>15. None \in ChildrenAt(tree, c.id, Last(path))
  BY <1>3, <1>4, <1>5, Up DEF IInv, TreeInv
<1>16. Vacant(tree, c.id, Last(path))
  BY <1>15, ChildrenAre
<1>17. tree' = [n \in DOMAIN tree \cup {nextNode} |-> IF n = nextNode THEN node ELSE tree[n]]
  BY <1>2 DEF Insert
<1>18. nextNode \notin DOMAIN tree
  BY DEF IInv, TreeInv
<1> QED
  BY <1>14, <1>16, <1>17, <1>18, OneAdded

LEMMA ReserveIsGuarded ==
  ASSUME IInv, Named(tree), NEW p \in Procs, Reserve(p), ~raced'
  PROVE  Changes(tree, tree', proc[p].tokens)
<1> DEFINE w == proc[p]
           path == w.req.path
           node == Node("file", w.parent.id, Last(path))
<1>1. /\ w.pc = "reserve" /\ Insert(node)
      /\ w \in Reservations(w.req, w.tokens)
  BY DEF Reserve
<1>2. /\ path \in Seq(STRING) /\ path # <<>>
  BY <1>1, AtWork DEF HasWhatItNeeds
<1>3. PICK c \in ResolveColl(tree, Front(path)) :
        /\ None \in Resolve(tree, path) /\ Covered({c}, w.tokens)
        /\ w = [Work("reserve", w.req, w.tokens) EXCEPT !.parent = c]
  BY <1>1 DEF Reservations
<1>4. w.parent = c
  BY <1>3 DEF Work
<1>5. Front(path) \in Seq(STRING)
  BY <1>2, FrontOf
<1>6. c.id \in DOMAIN tree /\ c = Row(tree, c.id)
  BY <1>5, FoundRows DEF IInv
<1>7. Guarded(w.tokens, node.parent) /\ node.parent = c.id /\ node.name = Last(path)
  BY <1>3, <1>4, <1>6, CoveredIsGuarded DEF IInv, Node
<1>8. None \in ChildrenAt(tree, c.id, Last(path))
  BY <1>2, <1>3, Up DEF IInv, TreeInv
<1>9. Vacant(tree, c.id, Last(path))
  BY <1>8, ChildrenAre
<1>10. tree' = [n \in DOMAIN tree \cup {nextNode} |-> IF n = nextNode THEN node ELSE tree[n]]
  BY <1>1 DEF Insert
<1>11. nextNode \notin DOMAIN tree
  BY DEF IInv, TreeInv
<1> QED
  BY <1>7, <1>9, <1>10, <1>11, OneAdded

LEMMA DeleteIsGuarded ==
  ASSUME IInv, Named(tree), NEW p \in Procs, Delete(p), ~raced'
  PROVE  Changes(tree, tree', proc[p].tokens)
<1> DEFINE path == proc[p].req.path
           tokens == proc[p].tokens
<1>1. PICK x \in Existing(tree, path) :
        x.id # Root /\ tree' = Restrict(tree, DOMAIN tree \ Subtree(tree, x.id))
  BY DEF Delete
<1>2. proc[p].pc = "enforced" /\ proc[p].req.op = "DELETE" /\ Finish(p, Stale(p))
  BY DEF Delete, Enforcing
<1>3. path \in Seq(STRING)
  BY <1>2, AtWork
<1>4. x.id \in DOMAIN tree /\ x = Row(tree, x.id) /\ x # None
  BY <1>3, FoundRows DEF IInv
<1>5. proc[p] \in Enforced(proc[p].req, tokens)
  BY <1>2 DEF Finish, Stale
<1>6. \E checked \in CheckedByMiddleware(proc[p].req) : Covered(checked, tokens)
  BY <1>2, <1>5 DEF Enforced, DestinationChecks
<1>7. \A y \in Resolve(tree, path) : y = x
  BY <1>3, ResolveOne DEF IInv, TreeInv, Existing
<1>8. \A checked \in CheckedByMiddleware(proc[p].req) : checked = CheckedForDelete(x)
  BY <1>1, <1>2, <1>4, <1>7 DEF CheckedByMiddleware
<1>9. Covered(CheckedForDelete(x), tokens)
  BY <1>6, <1>8
<1>10. tree' = [n \in DOMAIN tree \ Subtree(tree, x.id) |-> tree[n]]
  BY <1>1 DEF Restrict
<1>11. DOMAIN tree' = DOMAIN tree \ Subtree(tree, x.id) /\ \A n \in DOMAIN tree' : tree'[n] = tree[n]
  BY <1>10
<1>12. Named(tree')
  BY <1>11 DEF Named
<1>13. ASSUME NEW c \in DOMAIN tree \cap DOMAIN tree', Members(tree, c) # Members(tree', c)
       PROVE  Guarded(tokens, c)
  <2>1. PICK n \in DOMAIN tree \ DOMAIN tree' : tree[n].parent = c
    BY <1>11, <1>13 DEF Members
  <2>2. n \in Subtree(tree, x.id) /\ c \in DOMAIN tree \ Subtree(tree, x.id)
    BY <1>11, <1>13, <2>1
  <2>3. n = x.id
    BY <2>1, <2>2, Boundary DEF IInv, TreeInv
  <2>4. x.row.parent = c
    BY <1>4, <2>1, <2>3 DEF Row
  <2>5. Row(tree, c) \in CheckedForDelete(x)
    BY <1>13, <2>4 DEF CheckedForDelete, ParentsOf
  <2> QED
    BY <1>9, <2>5, CoveredIsGuarded DEF IInv
<1> QED
  BY <1>12, <1>13 DEF Changes

\* What COPY and MOVE hold, unless stale.
Placed(w) ==
  /\ w.parent.id \in DOMAIN tree
  /\ Guarded(w.tokens, w.parent.id)
  /\ w.existing = None => Vacant(tree, w.parent.id, Last(w.req.dest))
  /\ w.existing # None =>
       /\ w.existing.id \in DOMAIN tree
       /\ tree[w.existing.id].parent = w.parent.id
       /\ tree[w.existing.id].name = Last(w.req.dest)
  /\ w.req.op = "MOVE" =>
       /\ w.target.id \in DOMAIN tree /\ w.target.row = tree[w.target.id]
       /\ tree[w.target.id].parent \in DOMAIN tree =>
            Guarded(w.tokens, tree[w.target.id].parent)

LEMMA DestinationFits ==
  ASSUME IInv, Named(tree), NEW w, w.req \in Requests, w.req.op \in {"COPY", "MOVE"},
         w \in Enforced(w.req, w.tokens)
  PROVE  Placed(w)
<1> DEFINE r == w.req
           tokens == w.tokens
<1>1. w \in DestinationChecks(r, tokens)
  BY EnforcedIs
<1>2. r.path \in Seq(STRING) /\ r.dest \in Seq(STRING) /\ r.dest # <<>>
  BY <1>1, RequestAssumption DEF DestinationChecks
<1>3. PICK x \in Sources(r, tokens), c \in Parents(r, tokens), e \in Destinations(r, tokens) :
        w = Holding(Work("enforced", r, tokens), x, c, e)
  BY <1>1 DEF DestinationChecks
<1>4. w.target = x /\ w.parent = c /\ w.existing = e
  BY <1>3 DEF Holding, Work
<1>5. Front(r.dest) \in Seq(STRING)
  BY <1>2, FrontOf
<1>6. c \in ResolveColl(tree, Front(r.dest)) /\ Covered({c}, tokens)
  BY DEF Parents
<1>7. c.id \in DOMAIN tree /\ c = Row(tree, c.id)
  BY <1>5, <1>6, FoundRows DEF IInv
<1>8. Guarded(tokens, c.id)
  BY <1>6, <1>7, CoveredIsGuarded DEF IInv
<1>9. e \in Resolve(tree, r.dest)
  BY DEF Destinations
<1>10. e \in ChildrenAt(tree, c.id, Last(r.dest))
  BY <1>2, <1>6, <1>9, Up DEF IInv, TreeInv
<1>11. IF e = None THEN Vacant(tree, c.id, Last(r.dest))
       ELSE \E n \in DOMAIN tree : /\ e = Row(tree, n)
                                   /\ tree[n].parent = c.id /\ tree[n].name = Last(r.dest)
  BY <1>10, ChildrenAre
<1>12. e # None => /\ e.id \in DOMAIN tree
                   /\ tree[e.id].parent = c.id /\ tree[e.id].name = Last(r.dest)
  BY <1>11 DEF Row
<1>13. ASSUME r.op = "MOVE"
       PROVE  /\ x.id \in DOMAIN tree /\ x.row = tree[x.id]
              /\ tree[x.id].parent \in DOMAIN tree => Guarded(tokens, tree[x.id].parent)
  <2>1. x \in Existing(tree, r.path) /\ Covered({x} \cup ParentsOf(tree, x), tokens)
    BY <1>13 DEF Sources
  <2>2. x.id \in DOMAIN tree /\ x = Row(tree, x.id)
    BY <1>2, <2>1, FoundRows DEF IInv
  <2>3. x.row = tree[x.id]
    BY <2>2 DEF Row
  <2>4. tree[x.id].parent \in DOMAIN tree =>
          Row(tree, tree[x.id].parent) \in {x} \cup ParentsOf(tree, x)
    BY <2>3 DEF ParentsOf
  <2> QED
    BY <2>1, <2>2, <2>3, <2>4, CoveredIsGuarded DEF IInv
<1> QED
  BY <1>4, <1>7, <1>8, <1>11, <1>12, <1>13 DEF Placed

\* The destination is free once what it held is cleared, and of the rows that
\* stay only the destination's collection loses a member by that.
LEMMA ClearedIs ==
  ASSUME IInv, Named(tree), NEW w, Placed(w)
  PROVE  /\ \A n \in DOMAIN tree \ Cleared(w) :
              ~(tree[n].parent = w.parent.id /\ tree[n].name = Last(w.req.dest))
         /\ \A c \in DOMAIN tree \ Cleared(w) : \A n \in Members(tree, c) :
              n \in Cleared(w) => c = w.parent.id
<1>1. CASE w.existing = None
  BY <1>1 DEF Placed, Cleared, Vacant
<1>2. CASE w.existing # None
  <2>1. Cleared(w) = Subtree(tree, w.existing.id)
    BY <1>2 DEF Cleared
  <2>2. /\ w.existing.id \in DOMAIN tree
        /\ tree[w.existing.id].parent = w.parent.id
        /\ tree[w.existing.id].name = Last(w.req.dest)
    BY <1>2 DEF Placed
  <2>3. w.existing.id \in Cleared(w)
    BY <2>1, <2>2, UpwardsClosed DEF Subtree, IInv, TreeInv, IsTree
  <2>4. ASSUME NEW n \in DOMAIN tree \ Cleared(w), tree[n].parent = w.parent.id,
               tree[n].name = Last(w.req.dest)
        PROVE  FALSE
    BY <2>2, <2>3, <2>4 DEF Named
  <2>5. ASSUME NEW c \in DOMAIN tree \ Cleared(w), NEW n \in Members(tree, c), n \in Cleared(w)
        PROVE  c = w.parent.id
    <3>1. tree[n].parent = c
      BY DEF Members
    <3>2. n = w.existing.id
      BY <2>1, <2>5, <3>1, Boundary DEF IInv, TreeInv
    <3> QED
      BY <2>2, <3>1, <3>2
  <2> QED
    BY <2>4, <2>5
<1> QED
  BY <1>1, <1>2

LEMMA CopyIsGuarded ==
  ASSUME IInv, Named(tree), NEW p \in Procs, Copy(p), ~raced'
  PROVE  Changes(tree, tree', proc[p].tokens)
<1> DEFINE w == proc[p]
           copy == Node(w.target.kind, w.parent.id, Last(w.req.dest))
           kept == DOMAIN tree \ Cleared(w)
<1>1. /\ w.pc = "enforced" /\ w.req.op = "COPY" /\ Finish(p, Stale(p))
      /\ tree' = [n \in kept \cup {nextNode} |-> IF n = nextNode THEN copy ELSE tree[n]]
  BY DEF Copy, Enforcing
<1>2. w.req \in Requests
  BY <1>1, AtWork
<1>3. w \in Enforced(w.req, w.tokens)
  BY <1>1 DEF Finish, Stale
<1>4. Placed(w)
  BY <1>1, <1>2, <1>3, DestinationFits
<1>5. copy.parent = w.parent.id /\ copy.name = Last(w.req.dest)
  BY DEF Node
<1>6. /\ \A n \in kept : ~(tree[n].parent = copy.parent /\ tree[n].name = copy.name)
      /\ \A c \in kept : \A n \in Members(tree, c) : n \in Cleared(w) => c = w.parent.id
  BY <1>4, <1>5, ClearedIs
<1>7. nextNode \notin DOMAIN tree
  BY DEF IInv, TreeInv
<1> HIDE DEF copy
<1>8. /\ DOMAIN tree' = kept \cup {nextNode} /\ tree'[nextNode] = copy
      /\ \A n \in kept : tree'[n] = tree[n]
  BY <1>1, <1>7
<1>9. Named(tree')
  BY <1>6, <1>8 DEF Named
<1>10. ASSUME NEW c \in DOMAIN tree \cap DOMAIN tree', c # w.parent.id
       PROVE  Members(tree, c) = Members(tree', c)
  BY <1>5, <1>6, <1>7, <1>8, <1>10 DEF Members
<1> QED
  BY <1>4, <1>9, <1>10 DEF Changes, Placed

LEMMA MoveIsGuarded ==
  ASSUME IInv, Named(tree), NEW p \in Procs, Move(p), ~raced'
  PROVE  Changes(tree, tree', proc[p].tokens)
<1> DEFINE w == proc[p]
           moved == Node(w.target.kind, w.parent.id, Last(w.req.dest))
           kept == DOMAIN tree \ Cleared(w)
           m == w.target.id
<1>1. /\ w.pc = "enforced" /\ w.req.op = "MOVE" /\ Finish(p, Stale(p))
      /\ tree' = [n \in kept |-> IF n = m THEN moved ELSE tree[n]]
  BY DEF Move, Enforcing
<1>2. w.req \in Requests
  BY <1>1, AtWork
<1>3. w \in Enforced(w.req, w.tokens)
  BY <1>1 DEF Finish, Stale
<1>4. Placed(w)
  BY <1>1, <1>2, <1>3, DestinationFits
<1>5. moved.parent = w.parent.id /\ moved.name = Last(w.req.dest)
  BY DEF Node
<1>6. /\ \A n \in kept : ~(tree[n].parent = moved.parent /\ tree[n].name = moved.name)
      /\ \A c \in kept : \A n \in Members(tree, c) : n \in Cleared(w) => c = w.parent.id
  BY <1>4, <1>5, ClearedIs
<1> HIDE DEF moved
<1>7. /\ DOMAIN tree' = kept
      /\ \A n \in kept : tree'[n] = IF n = m THEN moved ELSE tree[n]
  BY <1>1
<1>8. Named(tree')
  <2>1. ASSUME NEW n \in kept, NEW k \in kept, n # k,
               tree'[n].parent = tree'[k].parent, tree'[n].name = tree'[k].name
        PROVE  FALSE
    <3>1. CASE n = m
      BY <1>6, <1>7, <2>1, <3>1
    <3>2. CASE k = m
      BY <1>6, <1>7, <2>1, <3>2
    <3>3. CASE n # m /\ k # m
      BY <1>7, <2>1, <3>3 DEF Named
    <3> QED
      BY <3>1, <3>2, <3>3
  <2> QED
    BY <1>7, <2>1 DEF Named
<1>9. ASSUME NEW c \in DOMAIN tree \cap DOMAIN tree', c # w.parent.id, c # tree[m].parent
      PROVE  Members(tree, c) = Members(tree', c)
  BY <1>5, <1>6, <1>7, <1>9 DEF Members
<1> QED
  BY <1>1, <1>4, <1>8, <1>9 DEF Changes, Placed

MembersGuarded ==
  raced' \/ \A c \in DOMAIN tree \cap DOMAIN tree' :
    Members(tree, c) # Members(tree', c) =>
      \E p \in Procs :
        /\ proc'[p] # proc[p]
        /\ \A l \in locks : Active(l) /\ InScope(l, c) => l.token \in proc[p].tokens

LEMMA StepIsGuarded ==
  ASSUME IInv, raced \/ Named(tree), [Next]_vars
  PROVE  (raced' \/ Named(tree')) /\ MembersGuarded
<1>1. CASE UNCHANGED <<tree, raced>>
  BY <1>1 DEF MembersGuarded
<1>2. ASSUME NEW p \in Procs,
             \/ Lookup(p) \/ CheckOwnLocks(p) \/ CheckSubtree(p) \/ MatchLock(p)
             \/ Enforce(p) \/ GiveUp(p)
      PROVE  UNCHANGED <<tree, raced>>
  BY <1>2 DEF Lookup, CheckOwnLocks, CheckSubtree, MatchLock, Enforce, GiveUp, Begin, Continue,
     tables, history
<1>3. CASE Tick \/ UNCHANGED vars
  BY <1>1, <1>3 DEF Tick, vars, tables, history
<1>4. ASSUME NEW p \in Procs, Grant(p) \/ Refresh(p) \/ Unlock(p) \/ PutOverwrite(p)
      PROVE  tree' = tree /\ (raced => raced')
  BY <1>4 DEF Grant, Refresh, Unlock, PutOverwrite, Finish, tables
<1>5. CASE tree' = tree /\ (raced => raced')
  BY <1>5 DEF MembersGuarded
<1>6. ASSUME NEW p \in Procs,
             Reserve(p) \/ PutCreate(p) \/ Mkcol(p) \/ Delete(p) \/ Copy(p) \/ Move(p)
      PROVE  (raced' \/ Named(tree')) /\ MembersGuarded
  <2>1. raced => raced'
    BY <1>6 DEF Reserve, PutCreate, Mkcol, Create, Delete, Copy, Move, Finish
  <2>2. proc[p].pc \in {"reserve", "enforced"}
    BY <1>6 DEF Reserve, PutCreate, Mkcol, Create, Delete, Copy, Move, Enforcing
  <2>3. proc'[p] # proc[p]
    <3>1. proc = [q \in Procs |-> proc[q]]
      BY DEF IInv, RequestsInv
    <3>2. proc'[p].pc \in {"idle", "found"}
      <4>1. CASE Reserve(p)
        <5>1. PICK v : proc' = [proc EXCEPT ![p] = v] /\ v.pc = "found"
          <6> DEFINE v == [proc[p] EXCEPT !.pc = "found", !.parent = None,
                             !.createdEmptyResource = TRUE,
                             !.target = [id |-> nextNode, kind |-> "file",
                                         row |-> Node("file", proc[p].parent.id,
                                                      Last(proc[p].req.path))]]
          <6>1. proc' = [proc EXCEPT ![p] = v]
            BY <4>1 DEF Reserve
          <6>2. proc[p] \in Works
            BY <2>2, AtWork
          <6>3. v.pc = "found"
            BY <6>2 DEF Works
          <6> QED
            BY <6>1, <6>3
        <5> QED
          BY <3>1, <5>1
      <4>2. CASE ~Reserve(p)
        <5>1. proc' = [proc EXCEPT ![p] = Idle]
          BY <1>6, <4>2 DEF PutCreate, Mkcol, Create, Delete, Copy, Move, Finish
        <5> QED
          BY <3>1, <5>1 DEF Idle
      <4> QED
        BY <4>1, <4>2
    <3> QED
      BY <2>2, <3>2
  <2>4. ~raced' => Changes(tree, tree', proc[p].tokens)
    BY <1>6, <2>1, ReserveIsGuarded, CreateIsGuarded, DeleteIsGuarded, CopyIsGuarded, MoveIsGuarded
  <2> QED
    BY <2>3, <2>4 DEF Changes, Guarded, MembersGuarded
<1> QED
  <2>1. CASE \E p \in Procs : Locking(p) \/ Writing(p) \/ GiveUp(p)
    BY <1>1, <1>2, <1>4, <1>5, <1>6, <2>1 DEF Locking, Writing
  <2> QED
    BY <1>3, <2>1 DEF Next

\* Unless two requests race, a member of a collection is added, removed or
\* replaced only by a request that has tokens for every lock in effect on the
\* collection, its own or from above: what COPY, MOVE and the middleware check
\* of the paths they are given is about the rows that they change.  The schema
\* lets two collections share a name, and a path to both then resolves to either
\* each time; MKCOL makes no such two unless two of them race.
THEOREM MembersAreGuarded ==
  ASSUME Named(InitialTree)
  PROVE  Spec => MembershipGuarded
<1> DEFINE Inv == IInv /\ (raced \/ Named(tree))
<1>1. Init => Inv
  BY Starts DEF Init
<1>2. Inv /\ [Next]_vars => Inv'
  BY StepIsRight, StepIsGuarded
<1>3. Inv /\ [Next]_vars => [MembersGuarded]_vars
  BY StepIsGuarded
<1> HIDE DEF Inv
<1>4. Spec => [][MembersGuarded]_vars
  BY <1>1, <1>2, <1>3, PTL DEF Spec
<1> QED
  BY <1>4 DEF MembershipGuarded, MembersGuarded

=============================================================================
