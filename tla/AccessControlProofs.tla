------------------------ MODULE AccessControlProofs ------------------------
(***************************************************************************)
(* That no membership closes a cycle, that an owner keeps every privilege  *)
(* and that every answer is explained by what stood while it was found,    *)
(* for all users, groups, resources and lists.                             *)
(*                                                                         *)
(* The inductive invariant says how far each walk has come: of the walk    *)
(* down from a new member that the members of every group visited are      *)
(* found, and of the walk up from a user that every row that stood all the *)
(* time leads from a principal visited to a group found.  Both say nothing *)
(* of the rows still to be read, so a row that is removed, or a group that *)
(* is deleted, cannot make them wrong.                                     *)
(***************************************************************************)
EXTENDS AccessControl, FunctionTheorems, FiniteSetTheorems,
        WellFoundedInduction, TLAPS

-----------------------------------------------------------------------------
(* Lists *)

\* What holds of 0, and of n + 1 if of n, holds of every natural.
LEMMA Inductive ==
  ASSUME NEW S \in SUBSET Nat, 0 \in S, \A n \in S : n + 1 \in S
  PROVE  S = Nat
<1>1. SUFFICES ASSUME Nat \ S # {}
               PROVE  FALSE
  OBVIOUS
<1>2. PICK m \in Nat \ S : \A n \in Nat \ S : ~(<<n, m>> \in OpToRel(<, Nat))
  BY <1>1, NatLessThanWellFounded, WFMin
<1>3. \A n \in Nat \ S : ~(n < m)
  BY <1>2 DEF OpToRel
<1>4. m - 1 \in Nat \ S /\ m - 1 < m
  <2>1. m \in Nat /\ m \notin S /\ m # 0
    BY <1>2
  <2>2. m - 1 \in Nat /\ m - 1 < m /\ (m - 1) + 1 = m
    BY <2>1
  <2> QED
    BY <2>1, <2>2
<1> QED
  BY <1>3, <1>4

\* The recursion of Kept.
Grows(f, list, S, n) ==
  f = [k \in 0..n |->
         IF k = 0 THEN <<>>
         ELSE IF list[k] \in S THEN Append(f[k - 1], list[k]) ELSE f[k - 1]]

LEMMA GrowsExists ==
  ASSUME NEW list, NEW S
  PROVE  \A n \in Nat : \E f : Grows(f, list, S, n)
<1> DEFINE T == {n \in Nat : \E f : Grows(f, list, S, n)}
<1>1. 0 \in T
  <2>1. Grows([k \in 0..0 |-> <<>>], list, S, 0)
    <3>1. \A k \in 0..0 : k = 0
      OBVIOUS
    <3> QED
      BY <3>1 DEF Grows
  <2> QED
    BY <2>1
<1>2. ASSUME NEW n \in T
      PROVE  n + 1 \in T
  <2>1. PICK f : Grows(f, list, S, n)
    BY <1>2
  <2> DEFINE h == [k \in 0..(n + 1) |->
                     IF k = n + 1
                     THEN IF list[k] \in S THEN Append(f[k - 1], list[k]) ELSE f[k - 1]
                     ELSE f[k]]
  <2>2. \A k \in 0..(n + 1) :
          h[k] = IF k = 0 THEN <<>>
                 ELSE IF list[k] \in S THEN Append(h[k - 1], list[k]) ELSE h[k - 1]
    <3>1. SUFFICES ASSUME NEW k \in 0..(n + 1)
                   PROVE  h[k] = IF k = 0 THEN <<>>
                                 ELSE IF list[k] \in S THEN Append(h[k - 1], list[k])
                                 ELSE h[k - 1]
      OBVIOUS
    <3>2. n \in Nat
      OBVIOUS
    <3>3. CASE k = n + 1
      <4>1. k # 0 /\ k - 1 \in 0..(n + 1) /\ k - 1 # n + 1
        BY <3>2, <3>3
      <4> QED
        BY <3>3, <4>1
    <3>4. CASE k # n + 1 /\ k # 0
      <4>1. k \in 0..n /\ k - 1 \in 0..(n + 1) /\ k - 1 # n + 1
        BY <3>2, <3>4
      <4>2. f[k] = IF list[k] \in S THEN Append(f[k - 1], list[k]) ELSE f[k - 1]
        BY <2>1, <3>4, <4>1 DEF Grows
      <4> QED
        BY <3>4, <4>1, <4>2
    <3>5. CASE k = 0
      <4>1. 0 \in 0..n /\ 0 # n + 1
        BY <3>2
      <4>2. f[0] = <<>>
        BY <2>1, <4>1 DEF Grows
      <4> QED
        BY <3>5, <4>1, <4>2
    <3> QED
      BY <3>3, <3>4, <3>5
  <2>3. Grows(h, list, S, n + 1)
    <3>1. h = [k \in 0..(n + 1) |-> h[k]]
      OBVIOUS
    <3> HIDE DEF h
    <3> QED
      BY <2>2, <3>1 DEF Grows
  <2> QED
    BY <2>3
<1> HIDE DEF T
<1>3. T = Nat
  BY <1>1, <1>2, Inductive DEF T
<1> QED
  BY <1>3 DEF T

LEMMA KeptIs ==
  ASSUME NEW list, Len(list) \in Nat, NEW S
  PROVE  \E f : Grows(f, list, S, Len(list)) /\ Kept(list, S) = f[Len(list)]
<1>1. PICK f : Grows(f, list, S, Len(list))
  BY GrowsExists
<1> DEFINE F == CHOOSE G : Grows(G, list, S, Len(list))
<1>2. Grows(F, list, S, Len(list))
  BY <1>1
<1>3. Kept(list, S) = F[Len(list)]
  BY Zenon DEF Kept, Grows
<1> QED
  BY <1>2, <1>3

\* What is kept of a list is of the list and in S, and its first element stays
\* the first if it is in S.
LEMMA KeptElements ==
  ASSUME NEW A, NEW list \in Seq(A), NEW S
  PROVE  /\ Kept(list, S) \in Seq(A)
         /\ Range(Kept(list, S)) \subseteq S \cap Range(list)
         /\ list # <<>> /\ list[1] \in S =>
              Kept(list, S) # <<>> /\ Kept(list, S)[1] = list[1]
<1>1. Len(list) \in Nat /\ \A k \in 1..Len(list) : list[k] \in A /\ list[k] \in Range(list)
  BY DEF Range
<1>2. PICK f : Grows(f, list, S, Len(list)) /\ Kept(list, S) = f[Len(list)]
  BY <1>1, KeptIs
<1> DEFINE Good(n) ==
      /\ f[n] \in Seq(A) /\ Range(f[n]) \subseteq S \cap Range(list)
      /\ n > 0 /\ list[1] \in S => f[n] # <<>> /\ f[n][1] = list[1]
    T == {n \in Nat : n <= Len(list) => Good(n)}
<1>3. 0 \in T
  <2>1. f[0] = <<>>
    <3>1. 0 \in 0..Len(list)
      BY <1>1
    <3> QED
      BY <1>2, <3>1 DEF Grows
  <2>2. <<>> \in Seq(A) /\ Range(<<>>) = {}
    BY DEF Range
  <2>3. Good(0)
    BY <2>1, <2>2
  <2> QED
    BY <2>3
<1>4. ASSUME NEW n \in T
      PROVE  n + 1 \in T
  <2>1. SUFFICES ASSUME n + 1 <= Len(list)
                 PROVE  Good(n + 1)
    OBVIOUS
  <2>2. n \in Nat /\ Good(n)
    BY <1>1, <2>1
  <2>3. n + 1 \in 0..Len(list) /\ n + 1 # 0 /\ n + 1 \in 1..Len(list) /\ (n + 1) - 1 = n
    BY <1>1, <2>1, <2>2
  <2>4. f[n + 1] = IF list[n + 1] \in S THEN Append(f[n], list[n + 1]) ELSE f[n]
    BY <1>2, <2>3 DEF Grows
  <2>5. list[n + 1] \in A /\ list[n + 1] \in Range(list)
    BY <1>1, <2>3
  <2>6. CASE list[n + 1] \notin S
    <3>1. f[n + 1] = f[n]
      BY <2>4, <2>6
    <3>2. list[1] \in S => n > 0
      BY <2>2, <2>6
    <3> QED
      BY <2>2, <3>1, <3>2
  <2>7. CASE list[n + 1] \in S
    <3> DEFINE s == f[n]
               e == list[n + 1]
    <3>1. f[n + 1] = Append(s, e) /\ s \in Seq(A) /\ e \in A /\ e \in S \cap Range(list)
          /\ Range(s) \subseteq S \cap Range(list)
      BY <2>2, <2>4, <2>5, <2>7
    <3>2. n > 0 /\ list[1] \in S => s # <<>> /\ s[1] = list[1]
      BY <2>2
    <3>3. n = 0 => s = <<>>
      BY <1>2, <2>2, <1>1 DEF Grows
    <3> HIDE DEF s, e
    <3>4. /\ Append(s, e) \in Seq(A) /\ Append(s, e) # <<>>
          /\ Range(Append(s, e)) \subseteq Range(s) \cup {e}
          /\ s # <<>> => Append(s, e)[1] = s[1]
          /\ s = <<>> => Append(s, e)[1] = e
      BY <3>1 DEF Range
    <3> QED
      BY <2>2, <3>1, <3>2, <3>3, <3>4 DEF e
  <2> QED
    BY <2>6, <2>7
<1>5. T = Nat
  <2> HIDE DEF T
  <2>1. T \in SUBSET Nat
    BY DEF T
  <2> QED
    BY <1>3, <1>4, <2>1, Inductive
<1>6. Good(Len(list))
  BY <1>1, <1>5
<1>7. list # <<>> => Len(list) > 0
  BY <1>1
<1> QED
  BY <1>2, <1>6, <1>7

\* What is in a sequence is its head and what is in its tail, ...
LEMMA HeadAndTail ==
  ASSUME NEW S, NEW q \in Seq(S), q # <<>>
  PROVE  /\ Head(q) \in S /\ Tail(q) \in Seq(S)
         /\ Range(q) = {Head(q)} \cup Range(Tail(q))
<1>1. /\ Head(q) = q[1] /\ Head(q) \in S /\ Len(q) \in Nat /\ Len(q) > 0
      /\ Tail(q) \in Seq(S) /\ Len(Tail(q)) = Len(q) - 1
      /\ DOMAIN q = 1..Len(q) /\ DOMAIN Tail(q) = 1..(Len(q) - 1)
      /\ \A i \in 1..(Len(q) - 1) : Tail(q)[i] = q[i + 1]
  OBVIOUS
<1>2. \A i \in 2..Len(q) : i - 1 \in 1..(Len(q) - 1) /\ Tail(q)[i - 1] = q[i]
  BY <1>1
<1>3. Range(q) \subseteq {Head(q)} \cup Range(Tail(q))
  <2>1. SUFFICES ASSUME NEW i \in 1..Len(q), i # 1
                 PROVE  q[i] \in Range(Tail(q))
    BY <1>1 DEF Range
  <2>2. i \in 2..Len(q)
    <3>1. Len(q) \in Nat /\ i \in 1..Len(q) /\ i # 1
      BY <1>1, <2>1
    <3> QED
      BY <3>1
  <2> QED
    BY <1>1, <1>2, <2>2 DEF Range
<1>4. {Head(q)} \cup Range(Tail(q)) \subseteq Range(q)
  BY <1>1 DEF Range
<1> QED
  BY <1>1, <1>3, <1>4

\* ... and what is in a longer one is in a part of it.
LEMMA Appended ==
  ASSUME NEW S, NEW q \in Seq(S), NEW e \in S
  PROVE  Append(q, e) \in Seq(S) /\ Range(Append(q, e)) = Range(q) \cup {e}
<1>1. /\ Len(q) \in Nat /\ DOMAIN q = 1..Len(q) /\ Append(q, e) \in Seq(S)
      /\ DOMAIN Append(q, e) = 1..(Len(q) + 1)
      /\ \A i \in 1..Len(q) : Append(q, e)[i] = q[i]
      /\ Append(q, e)[Len(q) + 1] = e
  OBVIOUS
<1>2. \A i : i \in 1..(Len(q) + 1) <=> i \in 1..Len(q) \/ i = Len(q) + 1
  BY <1>1
<1>3. Range(Append(q, e)) \subseteq Range(q) \cup {e}
  BY <1>1, <1>2 DEF Range
<1>4. Range(q) \cup {e} \subseteq Range(Append(q, e))
  BY <1>1, <1>2 DEF Range
<1> QED
  BY <1>1, <1>3, <1>4

-----------------------------------------------------------------------------
(* Memberships *)

\* What is below a group is in every set the rows do not lead out of, ...
LEMMA BelowLeast ==
  ASSUME NEW rows, NEW g, NEW S, Closed(rows, g, S)
  PROVE  Below(rows, g) \subseteq S
<1> DEFINE all == {row[2] : row \in rows}
<1>1. Closed(rows, g, S \cap all)
  BY DEF Closed
<1> QED
  BY <1>1 DEF Below

\* ... and is such a set.
LEMMA BelowClosed ==
  ASSUME NEW rows, NEW g
  PROVE  Closed(rows, g, Below(rows, g))
  BY DEF Below, Closed

LEMMA BelowFewer ==
  ASSUME NEW rows, NEW g, NEW fewer \in SUBSET rows
  PROVE  Below(fewer, g) \subseteq Below(rows, g)
<1>1. Closed(fewer, g, Below(rows, g))
  BY BelowClosed DEF Closed
<1> QED
  BY <1>1, BelowLeast

LEMMA BelowTransitive ==
  ASSUME NEW rows, NEW g, NEW h \in Below(rows, g)
  PROVE  Below(rows, h) \subseteq Below(rows, g)
<1>1. Closed(rows, h, Below(rows, g))
  BY BelowClosed DEF Closed
<1> QED
  BY <1>1, BelowLeast

\* A row closes no cycle if its group is not below its member.
LEMMA AcyclicAdd ==
  ASSUME NEW rows, Acyclic(rows), NEW g \in Groups, NEW p, g # p,
         g \notin Below(rows, p)
  PROVE  Acyclic(rows \cup {<<g, p>>})
<1> DEFINE B(h) == Below(rows, h)
           more == rows \cup {<<g, p>>}
<1>1. SUFFICES ASSUME NEW h \in Groups
               PROVE  h \notin Below(more, h)
  BY DEF Acyclic
<1>2. h \notin B(h)
  BY DEF Acyclic
<1>3. CASE g # h /\ g \notin B(h)
  <2>1. Closed(more, h, B(h))
    BY <1>3, BelowClosed DEF Closed
  <2> QED
    BY <1>2, <2>1, BelowLeast
<1>4. CASE g = h \/ g \in B(h)
  <2> DEFINE S == B(h) \cup {p} \cup B(p)
  <2>1. Closed(more, h, S)
    <3>1. Closed(rows, h, B(h)) /\ Closed(rows, p, B(p))
      BY BelowClosed
    <3> HIDE DEF B
    <3> QED
      BY <3>1 DEF Closed
  <2>2. h # p
    BY <1>4
  <2>3. h \notin B(p)
    <3>1. h \in B(p) => B(h) \subseteq B(p)
      BY BelowTransitive
    <3> QED
      BY <1>4, <3>1
  <2>4. h \notin S
    BY <1>2, <2>2, <2>3
  <2> QED
    BY <2>1, <2>4, BelowLeast
<1> QED
  BY <1>3, <1>4

-----------------------------------------------------------------------------
(* The invariant of groups *)

\* A request to add a member, of which the walk has done a part.
Adding(q) ==
  /\ q \in [pc : {"checking"}, group : Groups, member : Principals, late : BOOLEAN,
            found : SUBSET Principals, queue : Seq(Groups), visited : SUBSET Groups]
  /\ q.group # q.member

Met(q) == q.visited \cup Range(q.queue)

\* What it has found holds the members of every group visited; whatever group it
\* has found or begun with has been visited or will be.
WalkSound(q) ==
  ~q.late =>
    /\ q.member \in Groups => q.member \in Met(q)
    /\ \A v \in q.visited : DirectMembers(v) \subseteq q.found
    /\ q.found \cap live \subseteq Met(q)
    /\ q.found \cap unused = {}

AddsOK ==
  /\ adds = [a \in Admins |-> adds[a]]
  /\ \A a \in Admins : adds[a] # Idle => Adding(adds[a]) /\ WalkSound(adds[a])

RowsOK ==
  /\ live \subseteq Groups /\ unused \subseteq Groups /\ live \cap unused = {}
  /\ members \subseteq Groups \X Principals
  /\ \A row \in members : row[1] \in live /\ Exists(row[2]) /\ row[1] # row[2]

\* Every insert still to come has its place among the writes.
Pending == {a \in Admins : Checking(a)}
WritesFit == writes \in Nat /\ writes + Cardinality(Pending) <= MaxWrites

GroupsInv ==
  RowsOK /\ AddsOK /\ WritesFit /\ raced \in BOOLEAN /\ MembershipsAcyclic

LEMMA AddingFields ==
  ASSUME NEW q, Adding(q)
  PROVE  /\ q.pc = "checking" /\ q # Idle
         /\ q.group \in Groups /\ q.member \in Principals /\ q.late \in BOOLEAN
         /\ q.found \in SUBSET Principals /\ q.queue \in Seq(Groups)
         /\ q.visited \in SUBSET Groups /\ q.group # q.member
<1>1. q.pc = "checking"
  BY DEF Adding
<1> QED
  BY <1>1 DEF Adding, Idle

LEMMA CheckingAdds ==
  ASSUME GroupsInv, NEW a \in Admins, Checking(a)
  PROVE  adds[a] # Idle /\ Adding(adds[a]) /\ WalkSound(adds[a])
  BY DEF GroupsInv, AddsOK, Checking, Idle

LEMMA PendingFinite ==
  /\ IsFiniteSet(Pending) /\ Cardinality(Pending) \in Nat
  /\ IsFiniteSet(Pending)' /\ Cardinality(Pending') \in Nat
<1>1. Pending \subseteq Admins /\ Pending' \subseteq Admins
  BY DEF Pending
<1> QED
  BY <1>1, PrincipalsAssumption, FS_Subset, FS_CardinalityType

\* A walk stays sound while rows are removed and groups come and go.
LEMMA WalkKept ==
  ASSUME NEW q, WalkSound(q), members' \subseteq members,
         live' \subseteq live \cup unused, unused' \subseteq unused
  PROVE  WalkSound(q)'
  BY DEF WalkSound, DirectMembers, Met

\* A step of one request that inserts no row.
LEMMA StepOfOneAdd ==
  ASSUME GroupsInv, NEW a \in Admins, NEW q, adds' = [adds EXCEPT ![a] = q],
         q = Idle \/ (Adding(q) /\ WalkSound(q)),
         q # Idle => Checking(a) \/ MayWrite,
         UNCHANGED <<live, unused, members, writes, raced>>
  PROVE  GroupsInv'
<1>1. \A b \in Admins : adds'[b] = IF b = a THEN q ELSE adds[b]
  BY DEF GroupsInv, AddsOK
<1>2. AddsOK'
  <2>1. \A n : WalkSound(n) => WalkSound(n)'
    BY DEF WalkSound, DirectMembers, Met
  <2>2. \A b \in Admins : \A n : n = adds'[b] => n = Idle \/ (Adding(n) /\ WalkSound(n)')
    BY <1>1, <2>1 DEF GroupsInv, AddsOK
  <2>3. adds' = [b \in Admins |-> adds'[b]]
    BY DEF GroupsInv, AddsOK
  <2> QED
    BY <2>2, <2>3 DEF AddsOK, Adding
<1>3. WritesFit'
  <2>1. CASE q = Idle \/ Checking(a)
    <3>1. Pending' \subseteq Pending
      BY <1>1, <2>1 DEF Pending, Checking, Idle
    <3>2. Cardinality(Pending') <= Cardinality(Pending)
      BY <3>1, PendingFinite, FS_Subset
    <3> QED
      BY <3>2, PendingFinite, MaxWritesAssumption DEF GroupsInv, WritesFit
  <2>2. CASE MayWrite
    <3>1. Pending' \subseteq Pending \cup {a}
      BY <1>1 DEF Pending, Checking
    <3>2. /\ IsFiniteSet(Pending \cup {a})
          /\ Cardinality(Pending \cup {a}) \in Nat
          /\ Cardinality(Pending \cup {a}) <= Cardinality(Pending) + 1
      <4> DEFINE P == Pending
      <4>1. IsFiniteSet(P) /\ Cardinality(P) \in Nat
        BY PendingFinite
      <4> HIDE DEF P
      <4>2. /\ IsFiniteSet(P \cup {a})
            /\ Cardinality(P \cup {a}) = IF a \in P THEN Cardinality(P) ELSE Cardinality(P) + 1
        BY <4>1, FS_AddElement
      <4>3. /\ IsFiniteSet(P \cup {a}) /\ Cardinality(P \cup {a}) \in Nat
            /\ Cardinality(P \cup {a}) <= Cardinality(P) + 1
        BY <4>1, <4>2
      <4> QED
        BY <4>3 DEF P
    <3>3. Cardinality(Pending') <= Cardinality(Pending \cup {a})
      BY <3>1, <3>2, FS_Subset
    <3>4. writes + Cardinality(Pending) < MaxWrites
      BY <2>2 DEF MayWrite, Pending
    <3> QED
      BY <3>2, <3>3, <3>4, PendingFinite, MaxWritesAssumption DEF GroupsInv, WritesFit
  <2> QED
    BY <2>1, <2>2
<1> QED
  BY <1>2, <1>3 DEF GroupsInv, RowsOK, Exists, MembershipsAcyclic

LEMMA BeginAddInv ==
  ASSUME GroupsInv, NEW a \in Admins, NEW row \in NewRows, BeginAdd(a, row[1], row[2])
  PROVE  GroupsInv'
<1> DEFINE q == [pc |-> "checking", group |-> row[1], member |-> row[2], late |-> FALSE,
                 found |-> {}, queue |-> IF row[2] \in Groups THEN <<row[2]>> ELSE <<>>,
                 visited |-> {}]
<1>1. Adding(q)
  BY RowsAssumption DEF BeginAdd, Adding
<1>2. WalkSound(q)
  BY DEF WalkSound, Met, Range
<1>3. adds' = [adds EXCEPT ![a] = q] /\ MayWrite
      /\ UNCHANGED <<live, unused, members, writes, raced>>
  BY DEF BeginAdd
<1> HIDE DEF q
<1> QED
  BY <1>1, <1>2, <1>3, StepOfOneAdd

\* A set in some order leaves nothing out.
LEMMA OrdersCover ==
  ASSUME NEW S, IsFiniteSet(S), NEW s \in SetToSeqs(S)
  PROVE  s \in Seq(S) /\ Range(s) = S
<1> DEFINE n == Cardinality(S)
<1>1. n \in Nat /\ IsFiniteSet(1..n) /\ Cardinality(1..n) = n
  BY FS_CardinalityType, FS_Interval
<1>2. s \in Injection(1..n, S)
  BY DEF SetToSeqs, Injection, IsInjective
<1> HIDE DEF n
<1>3. s \in Surjection(1..n, S)
  BY <1>1, <1>2, FS_Injection DEF n
<1> QED
  BY <1>1, <1>3 DEF Surjection, Range

LEMMA WalkInv ==
  ASSUME GroupsInv, NEW a \in Admins, Walk(a)
  PROVE  GroupsInv'
<1> DEFINE r == adds[a]
           g == Head(r.queue)
           direct == DirectMembers(g)
<1>1. /\ Adding(r) /\ WalkSound(r) /\ r.queue # <<>>
      /\ UNCHANGED <<live, unused, members, writes, raced>>
  BY CheckingAdds DEF Walk
<1>2. /\ r.queue \in Seq(Groups) /\ r.visited \in SUBSET Groups
      /\ r.found \in SUBSET Principals
  BY <1>1, AddingFields
<1>3. /\ g \in Groups /\ Tail(r.queue) \in Seq(Groups)
      /\ Range(r.queue) = {g} \cup Range(Tail(r.queue))
  BY <1>1, <1>2, HeadAndTail
<1>4. CASE g \in r.visited
  <2> DEFINE n == [r EXCEPT !.queue = Tail(r.queue)]
  <2>1. adds' = [adds EXCEPT ![a] = n]
    BY <1>4 DEF Walk
  <2>2. /\ Adding(n) /\ n.queue = Tail(r.queue) /\ n.visited = r.visited /\ n.found = r.found
        /\ n.member = r.member /\ n.late = r.late
    BY <1>1, <1>3 DEF Adding
  <2>3. Met(n) = Met(r)
    <3> HIDE DEF n, r
    <3> QED
      BY <1>3, <1>4, <2>2 DEF Met
  <2>4. WalkSound(n)
    <3> HIDE DEF n
    <3> QED
      BY <1>1, <2>2, <2>3 DEF WalkSound
  <2> QED
    <3> HIDE DEF n
    <3> QED
      BY <1>1, <2>1, <2>2, <2>4, StepOfOneAdd DEF Walk
<1>5. CASE g \notin r.visited
  <2> DEFINE new == (direct \cap live) \ (r.visited \cup {g})
  <2>1. PICK nested \in SetToSeqs(new) :
          adds' = [adds EXCEPT ![a] = [r EXCEPT !.queue = Tail(r.queue) \o nested,
                                                !.visited = r.visited \cup {g},
                                                !.found = r.found \cup direct]]
    BY <1>5 DEF Walk
  <2> DEFINE n == [r EXCEPT !.queue = Tail(r.queue) \o nested,
                            !.visited = r.visited \cup {g},
                            !.found = r.found \cup direct]
  <2>2. IsFiniteSet(new) /\ new \subseteq Groups
    BY PrincipalsAssumption, FS_Subset DEF GroupsInv, RowsOK
  <2>3. nested \in Seq(Groups) /\ Range(nested) = new
    <3> HIDE DEF new
    <3>1. nested \in Seq(new) /\ Range(nested) = new
      BY <2>2, OrdersCover
    <3> QED
      BY <2>2, <3>1
  <2>4. /\ Tail(r.queue) \o nested \in Seq(Groups)
        /\ Range(Tail(r.queue) \o nested) = Range(Tail(r.queue)) \cup new
    <3> DEFINE t == Tail(r.queue)
    <3>1. t \in Seq(Groups)
      BY <1>3
    <3> HIDE DEF t, new
    <3>2. /\ t \o nested \in Seq(Groups)
          /\ Len(t) \in Nat /\ Len(nested) \in Nat
          /\ DOMAIN t = 1..Len(t) /\ DOMAIN nested = 1..Len(nested)
          /\ DOMAIN (t \o nested) = 1..(Len(t) + Len(nested))
          /\ \A i \in 1..(Len(t) + Len(nested)) :
               (t \o nested)[i] = IF i <= Len(t) THEN t[i] ELSE nested[i - Len(t)]
      BY <2>3, <3>1
    <3>3. Range(t \o nested) \subseteq Range(t) \cup Range(nested)
      <4>1. SUFFICES ASSUME NEW i \in 1..(Len(t) + Len(nested))
                     PROVE  (t \o nested)[i] \in Range(t) \cup Range(nested)
        BY <3>2 DEF Range
      <4>2. CASE i <= Len(t)
        BY <3>2, <4>2 DEF Range
      <4>3. CASE ~(i <= Len(t))
        <5>1. i - Len(t) \in 1..Len(nested)
          BY <3>2, <4>3
        <5> QED
          BY <3>2, <4>3, <5>1 DEF Range
      <4> QED
        BY <4>2, <4>3
    <3>4. Range(t) \cup Range(nested) \subseteq Range(t \o nested)
      <4>1. \A i \in 1..Len(t) : i \in 1..(Len(t) + Len(nested)) /\ (t \o nested)[i] = t[i]
        BY <3>2
      <4>2. \A i \in 1..Len(nested) :
              /\ i + Len(t) \in 1..(Len(t) + Len(nested))
              /\ (t \o nested)[i + Len(t)] = nested[i]
        BY <3>2
      <4>3. Range(t) \subseteq Range(t \o nested)
        BY <3>2, <4>1 DEF Range
      <4>4. Range(nested) \subseteq Range(t \o nested)
        BY <3>2, <4>2 DEF Range
      <4> QED
        BY <4>3, <4>4
    <3> QED
      BY <2>3, <3>2, <3>3, <3>4 DEF t
  <2>5. /\ n.queue = Tail(r.queue) \o nested /\ n.visited = r.visited \cup {g}
        /\ n.found = r.found \cup direct /\ n.member = r.member /\ n.late = r.late
        /\ Adding(n)
    BY <1>1, <1>2, <1>3, <2>4 DEF Adding, DirectMembers
  <2>6. Met(n) = Met(r) \cup new
    <3> HIDE DEF n, r, new
    <3> QED
      BY <1>3, <2>4, <2>5 DEF Met
  <2>7. WalkSound(n)
    <3>1. direct \subseteq Users \cup live
      BY DEF DirectMembers, GroupsInv, RowsOK, Exists
    <3>2. direct \cap unused = {}
      BY <3>1, PrincipalsAssumption DEF GroupsInv, RowsOK
    <3>3. direct \cap live \subseteq Met(n)
      <4>1. r.visited \cup {g} \subseteq Met(n)
        BY <2>5 DEF Met
      <4> QED
        BY <2>6, <4>1
    <3> HIDE DEF n, r
    <3> QED
      BY <1>1, <2>5, <2>6, <3>2, <3>3 DEF WalkSound
  <2> QED
    <3> HIDE DEF n
    <3> QED
      BY <1>1, <2>1, <2>5, <2>7, StepOfOneAdd DEF Walk, n
<1> QED
  BY <1>4, <1>5

LEMMA RefuseAddInv ==
  ASSUME GroupsInv, NEW a \in Admins, RefuseAdd(a)
  PROVE  GroupsInv'
<1>1. PICK q : q = Idle
  OBVIOUS
<1>2. /\ adds' = [adds EXCEPT ![a] = q]
      /\ UNCHANGED <<live, unused, members, writes, raced>>
  BY <1>1 DEF RefuseAdd
<1> QED
  BY <1>1, <1>2, StepOfOneAdd

\* A walk that is at its end and met no insert has found all that is below the
\* new member.
LEMMA WalkComplete ==
  ASSUME GroupsInv, NEW a \in Admins, Checked(a), ~adds[a].late
  PROVE  Below(members, adds[a].member) \subseteq adds[a].found
<1> DEFINE q == adds[a]
<1>1. Adding(q) /\ WalkSound(q) /\ q.queue = <<>> /\ ~q.late
  BY CheckingAdds DEF Checked
<1>2. Met(q) = q.visited
  BY <1>1 DEF Met, Range
<1> HIDE DEF q
<1>3. Closed(members, q.member, q.found)
  <2>1. SUFFICES ASSUME NEW row \in members, row[1] \in q.found \cup {q.member}
                 PROVE  row[2] \in q.found
    BY DEF Closed
  <2>2. row[1] \in live /\ row[1] \in Groups /\ row[2] \in Principals
        /\ row = <<row[1], row[2]>>
    BY DEF GroupsInv, RowsOK
  <2>3. row[1] \in q.visited
    BY <1>1, <1>2, <2>1, <2>2 DEF WalkSound
  <2>4. row[2] \in DirectMembers(row[1])
    BY <2>2 DEF DirectMembers
  <2> QED
    BY <1>1, <2>3, <2>4 DEF WalkSound
<1> QED
  BY <1>3, BelowLeast DEF q

LEMMA InsertInv ==
  ASSUME GroupsInv, NEW a \in Admins, Insert(a)
  PROVE  GroupsInv'
<1> DEFINE g == adds[a].group
           p == adds[a].member
<1>1. /\ g \in Groups /\ p \in Principals /\ g # p /\ Exists(g) /\ Exists(p)
      /\ adds[a].late \in BOOLEAN /\ a \in Pending
  BY CheckingAdds, AddingFields DEF Insert, CannotInsert, Checked, Pending
<1>2. /\ members' = members \cup {<<g, p>>} /\ raced' = (raced \/ adds[a].late)
      /\ writes' = writes + 1 /\ UNCHANGED <<live, unused>>
  BY DEF Insert
<1>3. RowsOK'
  BY <1>1, <1>2, PrincipalsAssumption DEF GroupsInv, RowsOK, Exists
<1>4. AddsOK' /\ \A b \in Admins : Checking(b)' <=> b # a /\ Checking(b)
  <2>1. adds' = [b \in Admins |->
          IF b = a THEN Idle
          ELSE IF Checking(b) THEN [adds[b] EXCEPT !.late = TRUE] ELSE adds[b]]
    BY DEF Insert
  <2>2. ASSUME NEW b \in Admins, b # a, Checking(b), NEW n, n = adds'[b]
        PROVE  Adding(n) /\ n.late
    <3>1. Adding(adds[b]) /\ n = [adds[b] EXCEPT !.late = TRUE]
      BY <2>1, <2>2, CheckingAdds
    <3> QED
      BY <3>1 DEF Adding
  <2>3. ASSUME NEW b \in Admins, ~(b # a /\ Checking(b)), NEW n, n = adds'[b]
        PROVE  n = Idle
    BY <2>1, <2>3, AddingFields DEF GroupsInv, AddsOK, Checking
  <2>4. \A n : n.late => WalkSound(n)'
    BY DEF WalkSound
  <2>5. adds' = [b \in Admins |-> adds'[b]]
    BY <2>1
  <2>6. \A b \in Admins : \A n : n = adds'[b] => n = Idle \/ (Adding(n) /\ WalkSound(n)')
    BY <2>2, <2>3, <2>4
  <2>7. AddsOK'
    BY <2>5, <2>6 DEF AddsOK, Adding
  <2>8. \A b \in Admins : \A n : n = adds'[b] => (n.pc = "checking" <=> b # a /\ Checking(b))
    BY <2>2, <2>3, AddingFields DEF Idle
  <2> QED
    BY <2>7, <2>8 DEF Checking
<1>5. WritesFit'
  <2>1. Pending' = Pending \ {a}
    BY <1>4 DEF Pending
  <2>2. Cardinality(Pending') = Cardinality(Pending) - 1
    BY <1>1, <2>1, PendingFinite, FS_RemoveElement
  <2> QED
    BY <1>2, <2>2, PendingFinite, MaxWritesAssumption DEF GroupsInv, WritesFit
<1>6. MembershipsAcyclic' /\ raced' \in BOOLEAN
  <2>1. CASE raced \/ adds[a].late
    BY <1>1, <1>2, <2>1 DEF MembershipsAcyclic, GroupsInv
  <2>2. CASE ~(raced \/ adds[a].late)
    <3>1. Acyclic(members)
      BY <2>2 DEF GroupsInv, MembershipsAcyclic
    <3>2. g \notin Below(members, p)
      BY <2>2, WalkComplete DEF Insert, WouldClose
    <3>3. Acyclic(members \cup {<<g, p>>})
      BY <1>1, <3>1, <3>2, AcyclicAdd
    <3> QED
      BY <1>1, <1>2, <3>3 DEF MembershipsAcyclic, GroupsInv
  <2> QED
    BY <2>1, <2>2
<1> QED
  BY <1>3, <1>4, <1>5, <1>6 DEF GroupsInv

\* What is written besides inserts.
LEMMA WriteFits ==
  ASSUME WritesFit, MayWrite, writes' = writes + 1, UNCHANGED adds
  PROVE  WritesFit'
<1>1. Pending' = Pending /\ writes + Cardinality(Pending) < MaxWrites
  BY DEF Pending, Checking, MayWrite
<1> QED
  BY <1>1, PendingFinite, MaxWritesAssumption DEF WritesFit

\* Rows are removed, groups come and go.
LEMMA FewerRows ==
  ASSUME GroupsInv, MayWrite, writes' = writes + 1, UNCHANGED <<adds, raced>>,
         members' \subseteq members, live' \subseteq live \cup unused,
         unused' \subseteq unused, RowsOK'
  PROVE  GroupsInv'
<1>1. AddsOK'
  <2>1. \A a \in Admins : \A n : n = adds[a] /\ n # Idle => Adding(n) /\ WalkSound(n)'
    BY WalkKept DEF GroupsInv, AddsOK
  <2> QED
    BY <2>1 DEF GroupsInv, AddsOK, Adding
<1>2. MembershipsAcyclic'
  BY BelowFewer DEF GroupsInv, MembershipsAcyclic, Acyclic
<1> QED
  BY <1>1, <1>2, WriteFits DEF GroupsInv

LEMMA AdministerInv ==
  ASSUME GroupsInv, Administer
  PROVE  GroupsInv'
<1>1. CASE \E a \in Admins : \E row \in NewRows : BeginAdd(a, row[1], row[2])
  BY <1>1, BeginAddInv
<1>2. CASE \E a \in Admins : Walk(a) \/ RefuseAdd(a) \/ Insert(a)
  BY <1>2, WalkInv, RefuseAddInv, InsertInv
<1>3. ASSUME NEW g \in Groups, NEW p \in Principals, RemoveMember(g, p)
      PROVE  GroupsInv'
  BY <1>3, FewerRows DEF RemoveMember, GroupsInv, RowsOK, Exists
<1>4. ASSUME NEW g \in Groups, CreateGroup(g)
      PROVE  GroupsInv'
  <2>1. RowsOK'
    BY <1>4 DEF CreateGroup, GroupsInv, RowsOK, Exists
  <2> QED
    BY <1>4, <2>1, FewerRows DEF CreateGroup, GroupsInv, RowsOK
<1>5. ASSUME NEW g \in Groups, DeleteGroup(g)
      PROVE  GroupsInv'
  <2>1. RowsOK'
    BY <1>5 DEF DeleteGroup, GroupsInv, RowsOK, Exists
  <2> QED
    BY <1>5, <2>1, FewerRows DEF DeleteGroup
<1> QED
  BY <1>1, <1>2, <1>3, <1>4, <1>5 DEF Administer

LEMMA GroupInitInv ==
  ASSUME GroupInit
  PROVE  GroupsInv
<1>1. RowsOK
  <2>1. \A row \in members : row \in Groups \X Principals /\ row[1] \in Groups
                             /\ row[1] \notin Users /\ row[2] \in Below(members, row[1])
    BY RowsAssumption, PrincipalsAssumption, BelowClosed DEF GroupInit, Closed
  <2>2. \A row \in members : row[1] # row[2]
    BY <2>1, RowsAssumption DEF GroupInit, Acyclic
  <2> QED
    BY <2>1, <2>2, PrincipalsAssumption DEF GroupInit, RowsOK, Exists
<1>2. AddsOK /\ Pending = {}
  BY DEF GroupInit, AddsOK, Pending, Checking, Idle
<1>3. WritesFit
  BY <1>2, FS_EmptySet, MaxWritesAssumption DEF GroupInit, WritesFit
<1> QED
  BY <1>1, <1>2, <1>3, RowsAssumption DEF GroupInit, GroupsInv, MembershipsAcyclic

-----------------------------------------------------------------------------
(* What a list of ACEs says, and several in a row *)

\* Of the ACEs of s those in A apply; none does, or the first that does grants.
Silent(s, A) == \A i \in DOMAIN s : s[i] \notin A
Grants(s, A) ==
  \E i \in DOMAIN s : s[i].grant /\ s[i] \in A /\ \A j \in 1..(i - 1) : s[j] \notin A

LEMMA ConcatSays ==
  ASSUME NEW X, NEW s \in Seq(X), NEW t \in Seq(X), NEW A
  PROVE  /\ Silent(s \o t, A) <=> Silent(s, A) /\ Silent(t, A)
         /\ Grants(s \o t, A) <=> Grants(s, A) \/ (Silent(s, A) /\ Grants(t, A))
<1> DEFINE m == Len(s)
           n == Len(t)
           st == s \o t
<1>1. /\ m \in Nat /\ n \in Nat /\ DOMAIN s = 1..m /\ DOMAIN t = 1..n
      /\ DOMAIN st = 1..(m + n)
      /\ \A i \in 1..(m + n) : st[i] = IF i <= m THEN s[i] ELSE t[i - m]
  OBVIOUS
<1> HIDE DEF m, n, st
<1>2. \A i \in 1..m : i \in 1..(m + n) /\ st[i] = s[i]
  BY <1>1
<1>3. \A i \in 1..n : i + m \in 1..(m + n) /\ st[i + m] = t[i]
  BY <1>1
<1>4. \A i \in 1..(m + n) : i \in 1..m \/ (i - m \in 1..n /\ i = (i - m) + m /\ i > m)
  BY <1>1
<1>5. Silent(st, A) <=> Silent(s, A) /\ Silent(t, A)
  <2>1. Silent(st, A) => Silent(s, A) /\ Silent(t, A)
    BY <1>1, <1>2, <1>3 DEF Silent
  <2>2. ASSUME Silent(s, A), Silent(t, A), NEW i \in 1..(m + n)
        PROVE  st[i] \notin A
    <3>1. CASE i \in 1..m
      BY <1>1, <1>2, <2>2, <3>1 DEF Silent
    <3>2. CASE i - m \in 1..n /\ i = (i - m) + m
      BY <1>1, <1>3, <2>2, <3>2 DEF Silent
    <3> QED
      BY <1>4, <3>1, <3>2
  <2> QED
    BY <1>1, <2>1, <2>2 DEF Silent
<1>6. Grants(st, A) => Grants(s, A) \/ (Silent(s, A) /\ Grants(t, A))
  <2>1. SUFFICES ASSUME NEW i \in 1..(m + n), st[i].grant, st[i] \in A,
                        \A j \in 1..(i - 1) : st[j] \notin A
                 PROVE  Grants(s, A) \/ (Silent(s, A) /\ Grants(t, A))
    BY <1>1 DEF Grants
  <2>2. CASE i \in 1..m
    <3>1. \A j \in 1..(i - 1) : j \in 1..m
      BY <1>1, <2>2
    <3> QED
      BY <1>1, <1>2, <2>1, <2>2, <3>1 DEF Grants
  <2>3. CASE i - m \in 1..n /\ i = (i - m) + m /\ i > m
    <3>1. \A j \in 1..m : j \in 1..(i - 1)
      BY <1>1, <2>3
    <3>2. Silent(s, A)
      BY <1>1, <1>2, <2>1, <3>1 DEF Silent
    <3>3. \A j \in 1..((i - m) - 1) : j \in 1..n /\ j + m \in 1..(i - 1)
      BY <1>1, <2>3
    <3>4. t[i - m] = st[i] /\ \A j \in 1..((i - m) - 1) : t[j] = st[j + m]
      BY <1>3, <2>3, <3>3
    <3> QED
      BY <1>1, <2>1, <2>3, <3>2, <3>3, <3>4 DEF Grants
  <2> QED
    BY <1>4, <2>2, <2>3
<1>7. Grants(s, A) => Grants(st, A)
  <2>1. SUFFICES ASSUME NEW i \in 1..m, s[i].grant, s[i] \in A,
                        \A j \in 1..(i - 1) : s[j] \notin A
                 PROVE  Grants(st, A)
    BY <1>1 DEF Grants
  <2>2. \A j \in 1..(i - 1) : j \in 1..m
    BY <1>1
  <2> QED
    BY <1>1, <1>2, <2>1, <2>2 DEF Grants
<1>8. Silent(s, A) /\ Grants(t, A) => Grants(st, A)
  <2>1. SUFFICES ASSUME Silent(s, A), NEW i \in 1..n, t[i].grant, t[i] \in A,
                        \A j \in 1..(i - 1) : t[j] \notin A
                 PROVE  Grants(st, A)
    BY <1>1 DEF Grants
  <2>2. ASSUME NEW j \in 1..((i + m) - 1)
        PROVE  st[j] \notin A
    <3>1. CASE j \in 1..m
      BY <1>1, <1>2, <2>1, <3>1 DEF Silent
    <3>2. CASE j \notin 1..m
      <4>1. j - m \in 1..(i - 1) /\ j - m \in 1..n /\ j = (j - m) + m
        BY <1>1, <3>2
      <4> QED
        BY <1>3, <2>1, <4>1
    <3> QED
      BY <3>1, <3>2
  <2>3. i + m \in 1..(m + n) /\ st[i + m] = t[i]
    BY <1>3
  <2> QED
    BY <1>1, <2>1, <2>2, <2>3 DEF Grants
<1> QED
  BY <1>5, <1>6, <1>7, <1>8 DEF st

LEMMA LineageIs ==
  ASSUME NEW x \in Resources
  PROVE  /\ Lineage[x] \in Seq(Resources) /\ Len(Lineage[x]) \in Nat \ {0}
         /\ DOMAIN Lineage[x] = 1..Len(Lineage[x])
         /\ \A n \in 1..Len(Lineage[x]) : Lineage[x][n] \in Resources
         /\ IsLineage(Lineage[x], x)
<1>1. Lineage[x] \in Lineages /\ IsLineage(Lineage[x], x)
  BY TreeAssumption DEF Lineage
<1>2. PICK n \in 1..Cardinality(Resources) : Lineage[x] \in [1..n -> Resources]
  BY <1>1 DEF Lineages
<1>3. n \in Nat \ {0}
  BY TreeAssumption, FS_CardinalityType
<1> QED
  BY <1>1, <1>2, <1>3

\* The ACEs that concern a request.
Concerning(u, x, groups, privilege) ==
  {ace \in Aces : Concerns(ace, u, x, groups, privilege)}

\* The code evaluates, and the property reads, a list alike.
LEMMA EvaluateIs ==
  ASSUME NEW s \in Seq(Aces), NEW u, NEW x, NEW groups, NEW privilege \in Elementary
  PROVE  EvaluateAces(s, MatchingPrincipals(u, x, groups), privilege)
           <=> Grants(s, Concerning(u, x, groups, privilege))
<1>1. PrivilegeSatisfies(privilege, privilege)
  BY DEF PrivilegeSatisfies, ExpandPrivilege, Elementary
<1>2. \A ace : (/\ ace.who \in MatchingPrincipals(u, x, groups)
                /\ PrivilegeSatisfies(ace.privilege, privilege))
               <=> Concerns(ace, u, x, groups, privilege)
  BY <1>1 DEF MatchingPrincipals, Concerns
<1>3. Len(s) \in Nat /\ DOMAIN s = 1..Len(s) /\ \A i \in 1..Len(s) : s[i] \in Aces
  OBVIOUS
<1>4. \A i \in 1..Len(s) : \A j \in 1..(i - 1) : j \in 1..Len(s)
  BY <1>3
<1>5. \A i \in 1..Len(s) :
        s[i] \in Concerning(u, x, groups, privilege)
          <=> (/\ s[i].who \in MatchingPrincipals(u, x, groups)
               /\ PrivilegeSatisfies(s[i].privilege, privilege))
  BY <1>2, <1>3 DEF Concerning
<1> QED
  BY <1>3, <1>4, <1>5 DEF EvaluateAces, Grants

LEMMA PermittedIs ==
  ASSUME NEW lists \in [Resources -> Seq(Aces)], NEW u, NEW x \in Resources, NEW groups,
         NEW privilege
  PROVE  Permitted(lists, u, x, groups, privilege)
           <=> \E n \in 1..Len(Lineage[x]) :
                 /\ Grants(lists[Lineage[x][n]], Concerning(u, x, groups, privilege))
                 /\ \A m \in 1..(n - 1) :
                      Silent(lists[Lineage[x][m]], Concerning(u, x, groups, privilege))
<1> DEFINE near == Lineage[x]
           A == Concerning(u, x, groups, privilege)
<1>1. /\ Len(near) \in Nat /\ DOMAIN near = 1..Len(near)
      /\ \A n \in 1..Len(near) : near[n] \in Resources
  BY LineageIs
<1> HIDE DEF near
<1>2. \A n \in 1..Len(near) : \A i \in DOMAIN lists[near[n]] :
        /\ lists[near[n]][i] \in A <=> Concerns(lists[near[n]][i], u, x, groups, privilege)
        /\ \A j \in 1..(i - 1) : j \in DOMAIN lists[near[n]]
  <2>1. \A n \in 1..Len(near) :
          /\ Len(lists[near[n]]) \in Nat /\ DOMAIN lists[near[n]] = 1..Len(lists[near[n]])
          /\ \A i \in 1..Len(lists[near[n]]) : lists[near[n]][i] \in Aces
    BY <1>1
  <2> QED
    BY <2>1 DEF Concerning
<1>3. \A n \in 1..Len(near) : \A m \in 1..(n - 1) : m \in 1..Len(near)
  BY <1>1
<1>4. \A n \in 1..Len(near) :
        /\ Silent(lists[near[n]], A)
             <=> \A j \in DOMAIN lists[near[n]] :
                   ~Concerns(lists[near[n]][j], u, x, groups, privilege)
        /\ Grants(lists[near[n]], A)
             <=> \E i \in DOMAIN lists[near[n]] :
                   /\ Concerns(lists[near[n]][i], u, x, groups, privilege)
                   /\ lists[near[n]][i].grant
                   /\ \A j \in 1..(i - 1) :
                        ~Concerns(lists[near[n]][j], u, x, groups, privilege)
  BY <1>2 DEF Silent, Grants
<1> HIDE DEF A
<1>5. Permitted(lists, u, x, groups, privilege)
        <=> \E n \in 1..Len(near) :
              /\ Grants(lists[near[n]], A)
              /\ \A m \in 1..(n - 1) : Silent(lists[near[m]], A)
  BY <1>1, <1>3, <1>4 DEF Permitted, near
<1> QED
  BY <1>5 DEF near, A

-----------------------------------------------------------------------------
(* The invariant of lists and requests *)

ListsOK ==
  /\ acl = [y \in Resources |-> acl[y]]
  /\ \A y \in Resources :
       /\ acl[y] \in Seq(Aces) /\ Recognized(acl[y])
       /\ acl[y] # <<>> /\ acl[y][1] = OwnerAllAce(Owner[y])

RequestType(q) ==
  q \in [pc : {"reading", "decided", "replacing"}, user : Users, target : Resources,
         privilege : Elementary, list : Seq(Aces \ ProtectedAces), aces : Seq(Aces),
         at : Resources \cup {None}, queue : Seq(Principals), visited : SUBSET Principals,
         held : SUBSET Groups, found : SUBSET Groups, answer : BOOLEAN,
         lists : [Resources -> SUBSET Seq(Aces)], ever : SUBSET (Groups \X Principals),
         always : SUBSET (Groups \X Principals)]

\* The history of a request goes up to now.
Observing(q) ==
  /\ \A y \in Resources : acl[y] \in q.lists[y]
  /\ members \subseteq q.ever /\ q.always \subseteq members

Waiting(q) == q.visited \cup Range(q.queue)

\* The walk up from the user has found only groups above the user, and every row
\* that always stood leads from a principal visited to a group found.
WalkedUp(q) ==
  /\ q.held \cup q.found \subseteq Above(q.ever, q.user)
  /\ Range(q.queue) \subseteq {q.user} \cup Above(q.ever, q.user)
  /\ {q.user} \cup q.held \subseteq Waiting(q)
  /\ \A row \in q.always : row[2] \in q.visited => row[1] \in q.held \cup q.found

\* What was read says what the lists of the first k resources say, each of them
\* as it once was.
SaysAsFar(q, lists, k) ==
  LET near == Lineage[q.target]
  IN \A A :
       /\ Silent(q.aces, A) <=> \A n \in 1..k : Silent(lists[near[n]], A)
       /\ Grants(q.aces, A) <=>
            \E n \in 1..k : /\ Grants(lists[near[n]], A)
                            /\ \A m \in 1..(n - 1) : Silent(lists[near[m]], A)

Once(q, lists) == \A y \in Resources : lists[y] \in q.lists[y]

ReadUpTo(q, lists, k) ==
  LET near == Lineage[q.target]
  IN /\ Once(q, lists) /\ SaysAsFar(q, lists, k)
     /\ q.at = IF k = Len(near) THEN None ELSE near[k + 1]

ReadUp(q) ==
  \E lists \in [Resources -> Seq(Aces)] : \E k \in 0..Len(Lineage[q.target]) :
    ReadUpTo(q, lists, k)

\* The answer is that of lists which once were and of groups the user was in.
Explained(q) ==
  \E lists \in [Resources -> Seq(Aces)] : \E groups \in SUBSET Above(q.ever, q.user) :
    /\ Once(q, lists) /\ Above(q.always, q.user) \subseteq groups
    /\ q.answer = Permitted(lists, q.user, q.target, groups, q.privilege)

RequestSound(q) ==
  /\ RequestType(q)
  /\ q.pc = "reading" => Observing(q) /\ WalkedUp(q) /\ ReadUp(q)
  /\ q.pc = "decided" => Explained(q)

RequestsOK ==
  /\ reqs = [r \in Requests |-> reqs[r]]
  /\ \A r \in Requests : reqs[r] # Idle => RequestSound(reqs[r])

IInv == GroupsInv /\ ListsOK /\ RequestsOK

LEMMA RequestFields ==
  ASSUME NEW q, RequestType(q)
  PROVE  /\ q.pc \in {"reading", "decided", "replacing"} /\ q # Idle
         /\ q.user \in Users /\ q.target \in Resources /\ q.privilege \in Elementary
         /\ q.list \in Seq(Aces \ ProtectedAces) /\ q.aces \in Seq(Aces)
         /\ q.at \in Resources \cup {None} /\ q.queue \in Seq(Principals)
         /\ q.visited \in SUBSET Principals /\ q.held \in SUBSET Groups
         /\ q.found \in SUBSET Groups /\ q.answer \in BOOLEAN
         /\ q.lists \in [Resources -> SUBSET Seq(Aces)]
         /\ q.ever \in SUBSET (Groups \X Principals)
         /\ q.always \in SUBSET (Groups \X Principals)
<1>1. q.pc \in {"reading", "decided", "replacing"}
  BY DEF RequestType
<1> QED
  BY <1>1 DEF RequestType, Idle

LEMMA ReadingIs ==
  ASSUME IInv, NEW r \in Requests, Reading(r)
  PROVE  /\ reqs[r] # Idle /\ RequestType(reqs[r]) /\ Observing(reqs[r])
         /\ WalkedUp(reqs[r]) /\ ReadUp(reqs[r])
  BY DEF IInv, RequestsOK, RequestSound, Reading, Idle

\* Steps of a request that look and write nothing.
LEMMA StepThatLooks ==
  ASSUME IInv, NEW r \in Requests, NEW q, reqs' = [reqs EXCEPT ![r] = q],
         q = Idle \/ RequestSound(q), UNCHANGED <<groupVars, acl>>
  PROVE  IInv'
<1>1. \A s \in Requests : reqs'[s] = IF s = r THEN q ELSE reqs[s]
  BY DEF IInv, RequestsOK
<1>2. \A n : RequestSound(n) => RequestSound(n)'
  BY DEF RequestSound, Observing, groupVars
<1>3. \A s \in Requests : \A n : n = reqs'[s] => n = Idle \/ RequestSound(n)'
  BY <1>1, <1>2 DEF IInv, RequestsOK
<1>4. RequestsOK'
  BY <1>3 DEF IInv, RequestsOK
<1>5. GroupsInv'
  BY DEF IInv, GroupsInv, RowsOK, AddsOK, WalkSound, DirectMembers, WritesFit, Pending,
         Checking, MembershipsAcyclic, Exists, groupVars
<1>6. ListsOK'
  BY DEF IInv, ListsOK, Recognized, groupVars
<1> QED
  BY <1>4, <1>5, <1>6 DEF IInv

LEMMA RequestThatEnds ==
  ASSUME IInv, NEW r \in Requests, reqs' = [reqs EXCEPT ![r] = Idle],
         UNCHANGED <<groupVars, acl>>
  PROVE  IInv'
<1>1. PICK q : q = Idle
  OBVIOUS
<1>2. reqs' = [reqs EXCEPT ![r] = q]
  BY <1>1
<1> QED
  BY <1>1, <1>2, StepThatLooks

-----------------------------------------------------------------------------
(* Steps that find an answer *)

LEMMA BeginInv ==
  ASSUME IInv, NEW r \in Requests, NEW u \in Users, NEW x \in Resources,
         NEW privilege \in Elementary, NEW list \in Seq(Aces \ ProtectedAces),
         Begin(r, u, x, privilege, list)
  PROVE  IInv'
<1> DEFINE q ==
      [pc |-> "reading", user |-> u, target |-> x, privilege |-> privilege,
       list |-> list, aces |-> <<>>, at |-> x, queue |-> <<u>>, visited |-> {},
       held |-> {}, found |-> {}, answer |-> FALSE,
       lists |-> [y \in Resources |-> {acl[y]}], ever |-> members, always |-> members]
<1>1. reqs' = [reqs EXCEPT ![r] = q] /\ UNCHANGED <<groupVars, acl>>
  BY DEF Begin
<1>2. /\ \A y \in Resources : acl[y] \in Seq(Aces)
      /\ members \subseteq Groups \X Principals
  BY DEF IInv, ListsOK, GroupsInv, RowsOK
<1>3. u \in Principals
  BY DEF Principals
<1>4. RequestType(q)
  BY <1>2, <1>3 DEF RequestType
<1>5. Observing(q) /\ WalkedUp(q)
  BY DEF Observing, WalkedUp, Waiting, Range
<1>6. ReadUp(q)
  <2>1. acl \in [Resources -> Seq(Aces)]
    BY <1>2 DEF IInv, ListsOK
  <2>2. 0 \in 0..Len(Lineage[x]) /\ 0 # Len(Lineage[x]) /\ Lineage[x][1] = x
    BY LineageIs DEF IsLineage
  <2>3. /\ q.target = x /\ q.aces = <<>> /\ q.at = x
        /\ \A y \in Resources : acl[y] \in q.lists[y]
    OBVIOUS
  <2> HIDE DEF q
  <2>4. SaysAsFar(q, acl, 0)
    BY <2>3 DEF SaysAsFar, Silent, Grants
  <2>5. ReadUpTo(q, acl, 0)
    BY <2>2, <2>3, <2>4 DEF ReadUpTo, Once
  <2> QED
    BY <2>1, <2>2, <2>3, <2>5 DEF ReadUp
<1>7. q.pc = "reading"
  OBVIOUS
<1> HIDE DEF q
<1>8. RequestSound(q)
  BY <1>4, <1>5, <1>6, <1>7 DEF RequestSound
<1> QED
  BY <1>1, <1>8, StepThatLooks

LEMMA ReadAcesInv ==
  ASSUME IInv, NEW r \in Requests, ReadAces(r)
  PROVE  IInv'
<1> DEFINE q == reqs[r]
           n == [q EXCEPT !.aces = q.aces \o acl[q.at], !.at = Parent[q.at]]
           near == Lineage[q.target]
<1>1. q.pc = "reading" /\ RequestType(q) /\ Observing(q) /\ WalkedUp(q) /\ ReadUp(q)
  BY ReadingIs DEF ReadAces, Reading
<1>2. /\ q.at # None /\ reqs' = [reqs EXCEPT ![r] = n] /\ UNCHANGED <<groupVars, acl>>
  BY DEF ReadAces
<1>3. /\ q.at \in Resources /\ q.aces \in Seq(Aces) /\ q.target \in Resources
      /\ Parent[q.at] \in Resources \cup {None} /\ acl[q.at] \in Seq(Aces)
      /\ acl \in [Resources -> Seq(Aces)]
  BY <1>1, <1>2, RequestFields, TreeAssumption DEF IInv, ListsOK
<1>4. /\ RequestType(n) /\ n.pc = q.pc /\ n.user = q.user /\ n.target = q.target
      /\ n.aces = q.aces \o acl[q.at] /\ n.at = Parent[q.at]
      /\ n.lists = q.lists /\ n.ever = q.ever /\ n.always = q.always
      /\ n.queue = q.queue /\ n.visited = q.visited /\ n.held = q.held /\ n.found = q.found
  <2> HIDE DEF q
  <2>1. q.aces \o acl[q.at] \in Seq(Aces)
    BY <1>3
  <2> QED
    BY <1>1, <1>3, <2>1 DEF RequestType
<1> HIDE DEF q, n
<1>5. Observing(n) /\ WalkedUp(n)
  BY <1>1, <1>4 DEF Observing, WalkedUp, Waiting
<1>6. PICK lists \in [Resources -> Seq(Aces)], k \in 0..Len(near) : ReadUpTo(q, lists, k)
  BY <1>1 DEF ReadUp
<1>7. /\ Len(near) \in Nat /\ \A i \in 1..Len(near) : near[i] \in Resources
      /\ DOMAIN near = 1..Len(near) /\ IsLineage(near, q.target)
  BY <1>3, LineageIs
<1> HIDE DEF near
<1>8. /\ k \in Nat /\ k + 1 \in Nat /\ k # Len(near) /\ k + 1 \in 1..Len(near)
      /\ k + 1 \in 0..Len(near) /\ k < Len(near) /\ q.at = near[k + 1]
  <2>1. k # Len(near) /\ q.at = near[k + 1]
    BY <1>2, <1>6 DEF ReadUpTo, near
  <2>2. Len(near) \in Nat /\ k \in 0..Len(near)
    BY <1>6, <1>7
  <2> QED
    BY <2>1, <2>2
<1> DEFINE more == [lists EXCEPT ![q.at] = acl[q.at]]
<1>9. /\ more \in [Resources -> Seq(Aces)] /\ more[q.at] = acl[q.at]
      /\ \A y \in Resources : y # q.at => more[y] = lists[y]
  BY <1>3
<1> HIDE DEF more
<1>10. \A i \in 1..k : i \in 1..Len(near) /\ near[i] # q.at /\ more[near[i]] = lists[near[i]]
  <2>1. SUFFICES ASSUME NEW i \in 1..k
                 PROVE  i \in 1..Len(near) /\ near[i] # q.at
    BY <1>7, <1>9
  <2>2. i \in 1..((k + 1) - 1) /\ i \in 1..Len(near)
    <3>1. Len(near) \in Nat /\ k \in Nat /\ k < Len(near)
      BY <1>7, <1>8
    <3> QED
      BY <3>1
  <2>3. \A m \in 1..((k + 1) - 1) : near[m] # near[k + 1]
    BY <1>7, <1>8 DEF IsLineage
  <2> QED
    BY <1>8, <2>2, <2>3
<1>11. Once(n, more)
  BY <1>1, <1>4, <1>6, <1>9 DEF Once, ReadUpTo, Observing
<1>12. SaysAsFar(n, more, k + 1)
  <2>1. SUFFICES ASSUME NEW A
                 PROVE  /\ Silent(n.aces, A)
                             <=> \A i \in 1..(k + 1) : Silent(more[near[i]], A)
                        /\ Grants(n.aces, A)
                             <=> \E i \in 1..(k + 1) :
                                   /\ Grants(more[near[i]], A)
                                   /\ \A m \in 1..(i - 1) : Silent(more[near[m]], A)
    BY <1>4 DEF SaysAsFar, near
  <2>2. /\ Silent(q.aces, A) <=> \A i \in 1..k : Silent(more[near[i]], A)
        /\ Grants(q.aces, A)
             <=> \E i \in 1..k : /\ Grants(more[near[i]], A)
                                 /\ \A m \in 1..(i - 1) : Silent(more[near[m]], A)
    <3>1. /\ Silent(q.aces, A) <=> \A i \in 1..k : Silent(lists[near[i]], A)
          /\ Grants(q.aces, A)
               <=> \E i \in 1..k : /\ Grants(lists[near[i]], A)
                                   /\ \A m \in 1..(i - 1) : Silent(lists[near[m]], A)
      BY <1>6 DEF ReadUpTo, SaysAsFar, near
    <3>2. \A i \in 1..k : \A m \in 1..(i - 1) : m \in 1..k
      OBVIOUS
    <3> QED
      BY <1>10, <3>1, <3>2
  <2>3. more[near[k + 1]] = acl[q.at]
    BY <1>8, <1>9
  <2>4. /\ Silent(n.aces, A) <=> Silent(q.aces, A) /\ Silent(more[near[k + 1]], A)
        /\ Grants(n.aces, A)
             <=> Grants(q.aces, A) \/ (Silent(q.aces, A) /\ Grants(more[near[k + 1]], A))
    BY <1>3, <1>4, <2>3, ConcatSays
  <2>5. /\ \A i : i \in 1..(k + 1) <=> i \in 1..k \/ i = k + 1
        /\ (k + 1) - 1 = k
    BY <1>6
  <2> QED
    BY <2>2, <2>4, <2>5
<1>13. n.at = IF k + 1 = Len(near) THEN None ELSE near[k + 2]
  <2>1. Parent[near[k + 1]] = IF k + 1 = Len(near) THEN None ELSE near[(k + 1) + 1]
    BY <1>7, <1>8 DEF IsLineage
  <2>2. (k + 1) + 1 = k + 2
    BY <1>8
  <2> QED
    BY <1>4, <1>8, <2>1, <2>2
<1>14. ReadUp(n)
  <2>1. ReadUpTo(n, more, k + 1)
    <3>1. (k + 1) + 1 = k + 2
      BY <1>6
    <3> QED
      BY <1>4, <1>11, <1>12, <1>13, <3>1 DEF ReadUpTo, near
  <2> QED
    BY <1>4, <1>8, <1>9, <2>1 DEF ReadUp, near
<1>15. RequestSound(n)
  BY <1>1, <1>4, <1>5, <1>14 DEF RequestSound
<1> QED
  BY <1>2, <1>15, StepThatLooks

\* Above grows with the rows, and takes in the groups of what is in it.
LEMMA AboveGrows ==
  ASSUME NEW rows, NEW more, rows \subseteq more, NEW u
  PROVE  Above(rows, u) \subseteq Above(more, u)
  BY BelowFewer DEF Above

LEMMA AboveNext ==
  ASSUME NEW rows, NEW u, NEW p \in {u} \cup Above(rows, u), NEW g \in Groups,
         <<g, p>> \in rows
  PROVE  g \in Above(rows, u)
<1>1. p \in Below(rows, g)
  BY BelowClosed DEF Closed
<1>2. CASE p = u
  BY <1>1, <1>2 DEF Above
<1>3. CASE p \in Above(rows, u)
  BY <1>1, <1>3, BelowTransitive DEF Above
<1> QED
  BY <1>2, <1>3

\* A walk that goes on changes nothing of what was read from the lists.
LEMMA WalkGoesOn ==
  ASSUME IInv, NEW r \in Requests, Reading(r), NEW n, RequestType(n),
         reqs' = [reqs EXCEPT ![r] = n], WalkedUp(n), UNCHANGED <<groupVars, acl>>,
         n.pc = reqs[r].pc, n.target = reqs[r].target, n.aces = reqs[r].aces,
         n.at = reqs[r].at, n.lists = reqs[r].lists, n.ever = reqs[r].ever,
         n.always = reqs[r].always
  PROVE  IInv'
<1>1. Observing(reqs[r]) /\ ReadUp(reqs[r]) /\ reqs[r].pc = "reading"
  BY ReadingIs DEF Reading
<1>2. Observing(n)
  BY <1>1 DEF Observing
<1>3. ReadUp(n)
  BY <1>1 DEF ReadUp, ReadUpTo, Once, SaysAsFar
<1>4. RequestSound(n)
  BY <1>1, <1>2, <1>3 DEF RequestSound
<1> QED
  BY <1>4, StepThatLooks

LEMMA ReadMembershipsInv ==
  ASSUME IInv, NEW r \in Requests, ReadMemberships(r)
  PROVE  IInv'
<1> DEFINE q == reqs[r]
           p == Head(q.queue)
           rows == IF p \in q.visited THEN {} ELSE GroupsOf(p)
           n == [q EXCEPT !.queue = Tail(q.queue), !.visited = q.visited \cup {p},
                          !.found = rows]
<1>1. /\ Reading(r) /\ RequestType(q) /\ Observing(q) /\ WalkedUp(q)
      /\ q.found = {} /\ q.queue # <<>>
      /\ reqs' = [reqs EXCEPT ![r] = n] /\ UNCHANGED <<groupVars, acl>>
  BY ReadingIs DEF ReadMemberships
<1>2. /\ q.queue \in Seq(Principals) /\ q.visited \in SUBSET Principals
      /\ q.held \in SUBSET Groups
  BY <1>1, RequestFields
<1>3. /\ p \in Principals /\ Tail(q.queue) \in Seq(Principals)
      /\ Range(q.queue) = {p} \cup Range(Tail(q.queue))
  BY <1>1, <1>2, HeadAndTail
<1>4. rows \in SUBSET Groups
  BY DEF GroupsOf
<1> HIDE DEF rows
<1>5. /\ RequestType(n) /\ n.queue = Tail(q.queue) /\ n.visited = q.visited \cup {p}
      /\ n.found = rows /\ n.held = q.held /\ n.user = q.user /\ n.pc = q.pc
      /\ n.target = q.target /\ n.aces = q.aces /\ n.at = q.at /\ n.lists = q.lists
      /\ n.ever = q.ever /\ n.always = q.always
  <2> HIDE DEF q, p
  <2> QED
    BY <1>1, <1>2, <1>3, <1>4 DEF RequestType
<1> HIDE DEF q, p, n
<1>6. Waiting(n) = Waiting(q)
  BY <1>3, <1>5 DEF Waiting
<1>7. rows \subseteq Above(q.ever, q.user)
  <2>1. SUFFICES ASSUME NEW g \in rows
                 PROVE  g \in Above(q.ever, q.user)
    OBVIOUS
  <2>2. g \in Groups /\ <<g, p>> \in q.ever
    BY <1>1 DEF rows, GroupsOf, Observing
  <2>3. p \in {q.user} \cup Above(q.ever, q.user)
    BY <1>1, <1>3 DEF WalkedUp
  <2> QED
    BY <2>2, <2>3, AboveNext
<1>8. ASSUME NEW row \in q.always, row[2] \in q.visited \cup {p}
      PROVE  row[1] \in q.held \cup rows
  <2>1. CASE row[2] \in q.visited
    BY <1>1, <1>8, <2>1 DEF WalkedUp
  <2>2. CASE row[2] = p /\ p \notin q.visited
    <3>1. row \in members /\ row[1] \in Groups /\ row = <<row[1], row[2]>>
      BY <1>1 DEF Observing, IInv, GroupsInv, RowsOK
    <3> QED
      BY <2>2, <3>1 DEF rows, GroupsOf
  <2> QED
    BY <1>8, <2>1, <2>2
<1>9. WalkedUp(n)
  BY <1>1, <1>3, <1>5, <1>6, <1>7, <1>8 DEF WalkedUp
<1> QED
  BY <1>1, <1>5, <1>9, WalkGoesOn DEF q

LEMMA LookUpGroupInv ==
  ASSUME IInv, NEW r \in Requests, NEW g \in Groups, LookUpGroup(r, g)
  PROVE  IInv'
<1> DEFINE q == reqs[r]
           queue == IF g \in q.visited THEN q.queue ELSE Append(q.queue, g)
           n == [q EXCEPT !.found = q.found \ {g}, !.held = q.held \cup {g},
                          !.queue = queue]
<1>1. /\ Reading(r) /\ RequestType(q) /\ WalkedUp(q) /\ g \in q.found
      /\ reqs' = [reqs EXCEPT ![r] = n] /\ UNCHANGED <<groupVars, acl>>
  BY ReadingIs DEF LookUpGroup
<1>2. /\ q.queue \in Seq(Principals) /\ q.found \in SUBSET Groups
      /\ q.held \in SUBSET Groups
  BY <1>1, RequestFields
<1>3. /\ queue \in Seq(Principals)
      /\ Range(queue) = Range(q.queue) \cup (IF g \in q.visited THEN {} ELSE {g})
  BY <1>2, Appended DEF Principals
<1> HIDE DEF queue
<1>4. /\ RequestType(n) /\ n.queue = queue /\ n.visited = q.visited
      /\ n.found = q.found \ {g} /\ n.held = q.held \cup {g} /\ n.user = q.user
      /\ n.pc = q.pc /\ n.target = q.target /\ n.aces = q.aces /\ n.at = q.at
      /\ n.lists = q.lists /\ n.ever = q.ever /\ n.always = q.always
  <2> HIDE DEF q
  <2> QED
    BY <1>1, <1>2, <1>3 DEF RequestType
<1> HIDE DEF q, n
<1>5. Waiting(n) = Waiting(q) \cup {g}
  BY <1>3, <1>4 DEF Waiting
<1>6. WalkedUp(n)
  BY <1>1, <1>3, <1>4, <1>5 DEF WalkedUp
<1> QED
  BY <1>1, <1>4, <1>6, WalkGoesOn DEF q

LEMMA FailLookUpInv ==
  ASSUME IInv, NEW r \in Requests, NEW g \in Groups, FailLookUp(r, g)
  PROVE  IInv'
  BY RequestThatEnds DEF FailLookUp

\* A walk at its end holds every group that was above the user all the time, and
\* those are there still.
LEMMA WalkUpComplete ==
  ASSUME IInv, NEW r \in Requests, Collected(r)
  PROVE  Above(reqs[r].always, reqs[r].user) \subseteq reqs[r].held \cap live
<1> DEFINE q == reqs[r]
<1>1. RequestType(q) /\ Observing(q) /\ WalkedUp(q) /\ q.found = {} /\ q.queue = <<>>
  BY ReadingIs DEF Collected
<1> HIDE DEF q
<1>2. Waiting(q) = q.visited
  BY <1>1 DEF Waiting, Range
<1>3. SUFFICES ASSUME NEW g \in Groups, q.user \in Below(q.always, g)
               PROVE  g \in q.held \cap live
  BY DEF Above, q
<1>4. g \in live
  <2>1. CASE \E row \in q.always : row[1] = g
    BY <1>1, <2>1 DEF Observing, IInv, GroupsInv, RowsOK
  <2>2. CASE ~\E row \in q.always : row[1] = g
    <3>1. Closed(q.always, g, {})
      BY <2>2 DEF Closed
    <3> QED
      BY <1>3, <3>1, BelowLeast
  <2> QED
    BY <2>1, <2>2
<1>5. g \in q.held
  <2>1. SUFFICES ASSUME g \notin q.held
                 PROVE  FALSE
    OBVIOUS
  <2> DEFINE S == {row[2] : row \in {w \in q.always : w[1] \notin q.held}}
  <2>2. \A p \in S : p # q.user /\ p \notin q.held
    BY <1>1, <1>2 DEF WalkedUp
  <2>3. Closed(q.always, g, S)
    <3>1. SUFFICES ASSUME NEW row \in q.always, row[1] \in S \cup {g}
                   PROVE  row[2] \in S
      BY DEF Closed
    <3>2. row[1] \notin q.held
      BY <2>1, <2>2, <3>1
    <3> QED
      BY <3>2
  <2> HIDE DEF S
  <2>4. q.user \in S
    BY <1>3, <2>3, BelowLeast
  <2> QED
    BY <2>2, <2>4
<1> QED
  BY <1>4, <1>5

LEMMA DecideInv ==
  ASSUME IInv, NEW r \in Requests, Decide(r)
  PROVE  IInv'
<1> DEFINE q == reqs[r]
           near == Lineage[q.target]
           groups == q.held \cap live
           matching == MatchingPrincipals(q.user, q.target, groups)
           answer == EvaluateAces(q.aces, matching, q.privilege)
           n == [q EXCEPT !.pc = "decided", !.aces = <<>>, !.held = {}, !.visited = {},
                          !.answer = answer]
           A == Concerning(q.user, q.target, groups, q.privilege)
<1>1. /\ Collected(r) /\ RequestType(q) /\ WalkedUp(q) /\ ReadUp(q) /\ q.at = None
      /\ reqs' = [reqs EXCEPT ![r] = n] /\ UNCHANGED <<groupVars, acl>>
  BY ReadingIs DEF Decide, Collected
<1>2. /\ q.target \in Resources /\ q.privilege \in Elementary /\ q.aces \in Seq(Aces)
      /\ q.held \in SUBSET Groups
  BY <1>1, RequestFields
<1>3. answer \in BOOLEAN
  BY DEF EvaluateAces
<1>4. answer <=> Grants(q.aces, A)
  <2> HIDE DEF q, groups
  <2> QED
    BY <1>2, EvaluateIs
<1> HIDE DEF answer
<1>5. /\ RequestType(n) /\ n.pc = "decided" /\ n.answer = answer /\ n.user = q.user
      /\ n.target = q.target /\ n.privilege = q.privilege /\ n.lists = q.lists
      /\ n.ever = q.ever /\ n.always = q.always
  <2> HIDE DEF q
  <2>1. PICK none \in Seq(Aces) : none = <<>>
    <3>1. <<>> \in Seq(Aces)
      OBVIOUS
    <3> QED
      BY <3>1, Zenon
  <2>2. n = [q EXCEPT !.pc = "decided", !.aces = none, !.held = {}, !.visited = {},
                      !.answer = answer]
    BY <2>1
  <2> HIDE DEF n
  <2> QED
    BY <1>1, <1>3, <2>2 DEF RequestType
<1>6. /\ groups \in SUBSET Above(q.ever, q.user)
      /\ Above(q.always, q.user) \subseteq groups
  BY <1>1, WalkUpComplete DEF WalkedUp
<1> HIDE DEF n
<1>7. PICK lists \in [Resources -> Seq(Aces)], k \in 0..Len(near) : ReadUpTo(q, lists, k)
  BY <1>1 DEF ReadUp
<1>8. k = Len(near)
  <2> HIDE DEF q
  <2>1. Len(near) \in Nat /\ \A i \in 1..Len(near) : near[i] \in Resources
    BY <1>2, LineageIs
  <2>2. k # Len(near) => k + 1 \in 1..Len(near)
    BY <1>7, <2>1
  <2> QED
    BY <1>1, <1>7, <2>1, <2>2, TreeAssumption DEF ReadUpTo
<1>9. Grants(q.aces, A)
        <=> \E i \in 1..Len(near) :
              Grants(lists[near[i]], A) /\ \A m \in 1..(i - 1) : Silent(lists[near[m]], A)
  <2> HIDE DEF A, q
  <2> QED
    BY <1>7, <1>8 DEF ReadUpTo, SaysAsFar
<1>10. answer = Permitted(lists, q.user, q.target, groups, q.privilege)
  <2>1. Permitted(lists, q.user, q.target, groups, q.privilege)
          <=> \E i \in 1..Len(near) :
                Grants(lists[near[i]], A) /\ \A m \in 1..(i - 1) : Silent(lists[near[m]], A)
    <3> HIDE DEF q, groups
    <3> QED
      BY <1>2, <1>7, PermittedIs
  <2>2. Permitted(lists, q.user, q.target, groups, q.privilege) \in BOOLEAN
    BY DEF Permitted
  <2> HIDE DEF q, A, groups, near
  <2> QED
    BY <1>3, <1>4, <1>9, <2>1, <2>2
<1>11. Once(q, lists)
  BY <1>7 DEF ReadUpTo
<1>12. Explained(n)
  <2>1. Once(n, lists)
    BY <1>5, <1>11 DEF Once
  <2> HIDE DEF q, groups
  <2> QED
    BY <1>5, <1>6, <1>7, <1>10, <2>1 DEF Explained
<1>13. RequestSound(n)
  BY <1>5, <1>12 DEF RequestSound
<1> QED
  BY <1>1, <1>13, StepThatLooks

LEMMA FinishInv ==
  ASSUME IInv, NEW r \in Requests, Finish(r)
  PROVE  IInv'
  BY RequestThatEnds DEF Finish

-----------------------------------------------------------------------------
(* Steps that write *)

LEMMA CheckAclInv ==
  ASSUME IInv, NEW r \in Requests, CheckAcl(r)
  PROVE  IInv'
<1> DEFINE q == reqs[r]
           n == [q EXCEPT !.pc = "replacing"]
<1>1. UNCHANGED <<groupVars, acl>>
  BY DEF CheckAcl
<1>2. CASE reqs' = [reqs EXCEPT ![r] = Idle]
  BY <1>1, <1>2, RequestThatEnds
<1>3. CASE reqs' = [reqs EXCEPT ![r] = n]
  <2>1. RequestType(q)
    BY DEF CheckAcl, Authorized, Idle, IInv, RequestsOK, RequestSound
  <2>2. RequestType(n) /\ n.pc = "replacing"
    <3> HIDE DEF q
    <3> QED
      BY <2>1 DEF RequestType
  <2> HIDE DEF n
  <2>3. RequestSound(n)
    BY <2>2 DEF RequestSound
  <2> QED
    BY <1>1, <1>3, <2>3, StepThatLooks
<1>4. reqs' = [reqs EXCEPT ![r] = Idle] \/ reqs' = [reqs EXCEPT ![r] = n]
  BY DEF CheckAcl
<1> QED
  BY <1>2, <1>3, <1>4

\* After lists or memberships change, every request but r has seen the change.
LEMMA WhatIsObserved ==
  ASSUME IInv, ListsOK', RowsOK', NEW r,
         \/ reqs' = [Observed EXCEPT ![r] = Idle]
         \/ reqs' = Observed
  PROVE  RequestsOK'
<1>1. /\ reqs' = [s \in Requests |-> reqs'[s]]
      /\ \A s \in Requests : reqs'[s] \in {Idle, Observed[s]}
  BY DEF Observed
<1>2. ASSUME NEW s \in Requests, NEW n, n = Observed[s], n # Idle
      PROVE  RequestSound(n)'
  <2> DEFINE q == reqs[s]
  <2>1. CASE Reading(s)
    <3> DEFINE lists == [y \in Resources |-> q.lists[y] \cup {acl'[y]}]
    <3>1. /\ q.pc = "reading" /\ RequestType(q) /\ WalkedUp(q) /\ ReadUp(q)
      BY <2>1, ReadingIs DEF Reading
    <3>2. n = [q EXCEPT !.lists = lists, !.ever = q.ever \cup members',
                        !.always = q.always \cap members']
      BY <1>2, <2>1 DEF Observed
    <3>3. /\ q.lists \in [Resources -> SUBSET Seq(Aces)]
          /\ q.ever \in SUBSET (Groups \X Principals)
          /\ q.always \in SUBSET (Groups \X Principals)
      BY <3>1, RequestFields
    <3>4. lists \in [Resources -> SUBSET Seq(Aces)]
      BY <3>3 DEF ListsOK
    <3>5. members' \subseteq Groups \X Principals
      BY DEF RowsOK
    <3> HIDE DEF q, lists
    <3>6. /\ RequestType(n) /\ n.pc = "reading" /\ n.user = q.user /\ n.target = q.target
          /\ n.lists = lists /\ n.ever = q.ever \cup members'
          /\ n.always = q.always \cap members' /\ n.aces = q.aces /\ n.at = q.at
          /\ n.queue = q.queue /\ n.visited = q.visited /\ n.held = q.held
          /\ n.found = q.found
      BY <3>1, <3>2, <3>3, <3>4, <3>5 DEF RequestType
    <3>7. Observing(n)'
      BY <3>6 DEF Observing, lists
    <3>8. WalkedUp(n)
      <4>1. Above(q.ever, q.user) \subseteq Above(n.ever, n.user)
        BY <3>6, AboveGrows
      <4> QED
        BY <3>1, <3>6, <4>1 DEF WalkedUp, Waiting
    <3>9. ReadUp(n)
      <4>1. PICK old \in [Resources -> Seq(Aces)], k \in 0..Len(Lineage[q.target]) :
              ReadUpTo(q, old, k)
        BY <3>1 DEF ReadUp
      <4>2. Once(n, old)
        BY <3>6, <4>1 DEF ReadUpTo, Once, lists
      <4>3. ReadUpTo(n, old, k)
        BY <3>6, <4>1, <4>2 DEF ReadUpTo, SaysAsFar
      <4> QED
        BY <3>6, <4>1, <4>3 DEF ReadUp
    <3> QED
      BY <3>6, <3>7, <3>8, <3>9 DEF RequestSound
  <2>2. CASE ~Reading(s)
    <3>1. n = q /\ n.pc # "reading"
      BY <1>2, <2>2 DEF Observed, Reading
    <3>2. RequestSound(n)
      BY <1>2, <3>1 DEF IInv, RequestsOK
    <3> QED
      BY <3>1, <3>2 DEF RequestSound
  <2> QED
    BY <2>1, <2>2
<1>3. \A s \in Requests : \A n : n = reqs'[s] => n = Idle \/ RequestSound(n)'
  BY <1>1, <1>2
<1> QED
  BY <1>1, <1>3 DEF RequestsOK

\* Protected ACEs stay in front of those that replace the others.
LEMMA ReplacedIs ==
  ASSUME NEW list \in Seq(Aces), list # <<>>, list[1] \in ProtectedAces, Recognized(list),
         NEW new \in Seq(Aces), Recognized(new)
  PROVE  /\ Replaced(list, new) \in Seq(Aces) /\ Recognized(Replaced(list, new))
         /\ Replaced(list, new) # <<>> /\ Replaced(list, new)[1] = list[1]
<1> DEFINE kept == Protected(list)
<1>1. /\ kept \in Seq(Aces) /\ Range(kept) \subseteq Range(list)
      /\ kept # <<>> /\ kept[1] = list[1]
  BY KeptElements DEF Protected
<1>2. Recognized(kept)
  BY <1>1 DEF Recognized, Range
<1> HIDE DEF kept
<1>3. /\ Len(kept) \in Nat \ {0} /\ Len(new) \in Nat
      /\ kept \o new \in Seq(Aces) /\ DOMAIN (kept \o new) = 1..(Len(kept) + Len(new))
      /\ DOMAIN kept = 1..Len(kept) /\ DOMAIN new = 1..Len(new)
      /\ \A i \in 1..(Len(kept) + Len(new)) :
           (kept \o new)[i] = IF i <= Len(kept) THEN kept[i] ELSE new[i - Len(kept)]
  BY <1>1
<1>4. Recognized(kept \o new)
  <2>1. SUFFICES ASSUME NEW i \in 1..(Len(kept) + Len(new))
                 PROVE  (kept \o new)[i].who \in Groups => (kept \o new)[i].who \in live
    BY <1>3 DEF Recognized
  <2>2. CASE i <= Len(kept)
    BY <1>2, <1>3, <2>2 DEF Recognized
  <2>3. CASE ~(i <= Len(kept))
    <3>1. i - Len(kept) \in 1..Len(new)
      BY <1>3, <2>3
    <3> QED
      BY <1>3, <2>3, <3>1 DEF Recognized
  <2> QED
    BY <2>2, <2>3
<1>5. 1 \in 1..(Len(kept) + Len(new)) /\ 1 <= Len(kept)
  BY <1>3
<1>6. kept \o new # <<>> /\ (kept \o new)[1] = list[1]
  BY <1>1, <1>3, <1>5
<1> QED
  BY <1>3, <1>4, <1>6 DEF Replaced, kept

LEMMA OwnerAceIs ==
  ASSUME NEW x \in Resources
  PROVE  OwnerAllAce(Owner[x]) \in ProtectedAces /\ Owner[x] \in Users
<1>1. Owner[x] \in Users /\ "all" \in ALL_PRIVILEGES
  BY TreeAssumption DEF ALL_PRIVILEGES
<1> QED
  BY <1>1 DEF OwnerAllAce, ProtectedAces, Aces, Principals

LEMMA ReplaceAcesInv ==
  ASSUME IInv, NEW r \in Requests, ReplaceAces(r)
  PROVE  IInv'
<1> DEFINE q == reqs[r]
<1>1. /\ MayWrite /\ writes' = writes + 1 /\ UNCHANGED <<live, unused, members, adds, raced>>
      /\ reqs' = [Observed EXCEPT ![r] = Idle]
      /\ acl' = IF Recognized(q.list)
                THEN [acl EXCEPT ![q.target] = Replaced(acl[q.target], q.list)] ELSE acl
  BY DEF ReplaceAces
<1>2. q.target \in Resources /\ q.list \in Seq(Aces \ ProtectedAces)
  <2>1. RequestType(q)
    BY DEF ReplaceAces, Idle, IInv, RequestsOK, RequestSound
  <2> QED
    BY <2>1, RequestFields
<1> HIDE DEF q
<1>3. ListsOK'
  <2>1. \A list : Recognized(list) => Recognized(list)'
    BY <1>1 DEF Recognized
  <2>2. CASE Recognized(q.list)
    <3> DEFINE new == Replaced(acl[q.target], q.list)
    <3>1. /\ new \in Seq(Aces) /\ Recognized(new) /\ new # <<>>
          /\ new[1] = OwnerAllAce(Owner[q.target])
      <4>1. q.list \in Seq(Aces)
        BY <1>2
      <4>2. /\ acl[q.target] \in Seq(Aces) /\ Recognized(acl[q.target])
            /\ acl[q.target] # <<>> /\ acl[q.target][1] = OwnerAllAce(Owner[q.target])
        BY <1>2 DEF IInv, ListsOK
      <4> QED
        BY <1>2, <2>2, <4>1, <4>2, OwnerAceIs, ReplacedIs
    <3>2. \A y \in Resources : acl'[y] = IF y = q.target THEN new ELSE acl[y]
      BY <1>1, <2>2 DEF IInv, ListsOK
    <3>3. acl' = [y \in Resources |-> acl'[y]]
      BY <1>1, <2>2 DEF IInv, ListsOK
    <3> HIDE DEF new
    <3>4. \A y \in Resources : \A list : list = acl'[y] =>
            /\ list \in Seq(Aces) /\ Recognized(list)'
            /\ list # <<>> /\ list[1] = OwnerAllAce(Owner[y])
      BY <2>1, <3>1, <3>2 DEF IInv, ListsOK
    <3> QED
      BY <3>3, <3>4 DEF ListsOK, Recognized
  <2>3. CASE ~Recognized(q.list)
    BY <1>1, <2>1, <2>3 DEF IInv, ListsOK, Recognized
  <2> QED
    BY <2>2, <2>3
<1>4. GroupsInv'
  <2>1. RowsOK'
    BY <1>1 DEF IInv, GroupsInv, RowsOK, Exists
  <2> QED
    BY <1>1, <2>1, FewerRows DEF IInv
<1>5. RequestsOK'
  BY <1>1, <1>3, <1>4, WhatIsObserved DEF GroupsInv
<1> QED
  BY <1>3, <1>4, <1>5 DEF IInv

LEMMA ChangeGroupsInv ==
  ASSUME IInv, ChangeGroups
  PROVE  IInv'
<1> DEFINE S == {ace \in Aces : ace.who \notin live \ live'}
<1>1. GroupsInv'
  BY AdministerInv DEF ChangeGroups, IInv
<1>2. acl' = [y \in Resources |-> Kept(acl[y], S)] /\ reqs' = Observed
  BY DEF ChangeGroups
<1>3. ListsOK'
  <2>1. SUFFICES ASSUME NEW y \in Resources, NEW list, list = acl'[y]
                 PROVE  /\ list \in Seq(Aces) /\ Recognized(list)'
                        /\ list # <<>> /\ list[1] = OwnerAllAce(Owner[y])
    BY <1>2 DEF ListsOK, Recognized
  <2>2. /\ acl[y] \in Seq(Aces) /\ Recognized(acl[y]) /\ acl[y] # <<>>
        /\ acl[y][1] = OwnerAllAce(Owner[y])
    BY DEF IInv, ListsOK
  <2>3. OwnerAllAce(Owner[y]) \in S
    <3>1. Owner[y] \in Users /\ Owner[y] \notin live /\ OwnerAllAce(Owner[y]) \in Aces
      BY OwnerAceIs, PrincipalsAssumption DEF ProtectedAces, IInv, GroupsInv, RowsOK
    <3>2. OwnerAllAce(Owner[y]).who = Owner[y]
      BY DEF OwnerAllAce
    <3> QED
      BY <3>1, <3>2
  <2>4. list = Kept(acl[y], S)
    BY <1>2, <2>1
  <2> HIDE DEF S
  <2>5. /\ list \in Seq(Aces) /\ Range(list) \subseteq S \cap Range(acl[y])
        /\ list # <<>> /\ list[1] = acl[y][1]
    BY <2>2, <2>3, <2>4, KeptElements
  <2>6. ASSUME NEW i \in DOMAIN list, list[i].who \in Groups
        PROVE  list[i].who \in live'
    <3>1. list[i] \in S /\ list[i] \in Range(acl[y])
      BY <2>5 DEF Range
    <3>2. list[i].who \in live
      BY <2>2, <2>6, <3>1 DEF Recognized, Range
    <3> QED
      BY <3>1, <3>2 DEF S
  <2> QED
    BY <2>2, <2>5, <2>6 DEF Recognized
<1>4. RequestsOK'
  BY <1>1, <1>2, <1>3, WhatIsObserved DEF GroupsInv
<1> QED
  BY <1>1, <1>3, <1>4 DEF IInv

-----------------------------------------------------------------------------
(* The inductive invariant and what follows *)

LEMMA InitInv == Init => IInv
<1>1. SUFFICES ASSUME Init
               PROVE  IInv
  OBVIOUS
<1>2. GroupsInv
  BY <1>1, GroupInitInv DEF Init
<1>3. PICK lists \in StartLists :
        /\ \A y \in Resources : Recognized(lists[y])
        /\ acl = [y \in Resources |-> <<OwnerAllAce(Owner[y])>> \o lists[y]]
  BY <1>1 DEF Init
<1>4. ASSUME NEW y \in Resources
      PROVE  /\ acl[y] \in Seq(Aces) /\ Recognized(acl[y])
             /\ acl[y] # <<>> /\ acl[y][1] = OwnerAllAce(Owner[y])
  <2> DEFINE e == OwnerAllAce(Owner[y])
             t == lists[y]
  <2>1. /\ e \in Aces /\ e.who \notin Groups /\ t \in Seq(Aces) /\ Recognized(t)
        /\ acl[y] = <<e>> \o t
    <3>1. e.who = Owner[y]
      BY DEF OwnerAllAce
    <3>2. e \in Aces /\ e.who \notin Groups
      BY <3>1, OwnerAceIs, PrincipalsAssumption DEF ProtectedAces
    <3>3. t \in Seq(Aces \ ProtectedAces) /\ Recognized(t) /\ acl[y] = <<e>> \o t
      BY <1>3, RequestsAssumption
    <3> HIDE DEF e, t
    <3> QED
      BY <3>2, <3>3
  <2> HIDE DEF e, t
  <2>2. /\ <<e>> \o t \in Seq(Aces) /\ Len(t) \in Nat /\ DOMAIN t = 1..Len(t)
        /\ DOMAIN (<<e>> \o t) = 1..(1 + Len(t))
        /\ \A i \in 1..(1 + Len(t)) : (<<e>> \o t)[i] = IF i <= 1 THEN e ELSE t[i - 1]
    BY <2>1
  <2>3. Recognized(<<e>> \o t)
    <3>1. SUFFICES ASSUME NEW i \in 1..(1 + Len(t))
                   PROVE  (<<e>> \o t)[i].who \in Groups => (<<e>> \o t)[i].who \in live
      BY <2>2 DEF Recognized
    <3>2. i > 1 => i - 1 \in 1..Len(t)
      BY <2>2
    <3> QED
      BY <2>1, <2>2, <3>2 DEF Recognized
  <2>4. <<e>> \o t # <<>> /\ (<<e>> \o t)[1] = e
    BY <2>2
  <2> QED
    BY <2>1, <2>2, <2>3, <2>4 DEF e
<1>5. ListsOK
  BY <1>3, <1>4 DEF ListsOK
<1>6. RequestsOK
  BY <1>1 DEF Init, RequestsOK
<1> QED
  BY <1>2, <1>5, <1>6 DEF IInv

LEMMA NextInv == IInv /\ [Next]_vars => IInv'
<1>1. SUFFICES ASSUME IInv, [Next]_vars
               PROVE  IInv'
  OBVIOUS
<1>2. ASSUME NEW r \in Requests, NEW u \in Users, NEW x \in Resources,
             \/ \E privilege \in Wanted : Begin(r, u, x, privilege, <<>>)
             \/ \E list \in Lists : Begin(r, u, x, "write-acl", list)
      PROVE  IInv'
  <2>1. <<>> \in Seq(Aces \ ProtectedAces) /\ "write-acl" \in Elementary
    BY DEF Elementary
  <2> QED
    BY <1>1, <1>2, <2>1, BeginInv, RequestsAssumption
<1>3. ASSUME NEW r \in Requests, Evaluate(r) \/ Finish(r) \/ CheckAcl(r) \/ ReplaceAces(r)
      PROVE  IInv'
  BY <1>1, <1>3, ReadAcesInv, ReadMembershipsInv, DecideInv, LookUpGroupInv,
     FailLookUpInv, FinishInv, CheckAclInv, ReplaceAcesInv DEF Evaluate
<1>4. CASE ChangeGroups
  BY <1>1, <1>4, ChangeGroupsInv
<1>5. CASE UNCHANGED vars
  <2>1. reqs' = reqs /\ UNCHANGED <<groupVars, acl>>
    BY <1>5 DEF vars
  <2>2. GroupsInv'
    BY <1>1, <2>1 DEF IInv, GroupsInv, RowsOK, AddsOK, WalkSound, DirectMembers, WritesFit,
           Pending, Checking, MembershipsAcyclic, Exists, groupVars
  <2>3. ListsOK'
    BY <1>1, <2>1 DEF IInv, ListsOK, Recognized, groupVars
  <2>4. RequestsOK'
    BY <1>1, <2>1 DEF IInv, RequestsOK, RequestSound, Observing, groupVars
  <2> QED
    BY <2>2, <2>3, <2>4 DEF IInv
<1> QED
  BY <1>1, <1>2, <1>3, <1>4, <1>5 DEF Next

LEMMA InductiveInvariant == Spec => []IInv
  BY InitInv, NextInv, PTL DEF Spec

\* Groups, members and the writes have their types, and no list names a group
\* that was deleted.
THEOREM TypesAreRight == Spec => []TypeOK
<1>1. IInv => TypeOK
  <2>1. SUFFICES ASSUME IInv
                 PROVE  TypeOK
    OBVIOUS
  <2>2. writes \in 0..MaxWrites
    <3>1. /\ writes \in Nat /\ Cardinality(Pending) \in Nat
          /\ writes + Cardinality(Pending) <= MaxWrites
      BY <2>1, PendingFinite DEF IInv, GroupsInv, WritesFit
    <3> QED
      BY <3>1, MaxWritesAssumption
  <2> QED
    BY <2>1, <2>2 DEF TypeOK, IInv, GroupsInv, RowsOK, ListsOK, Recognized
<1> QED
  BY <1>1, InductiveInvariant, PTL

\* addMember: whatever other administrators remove, create and delete while the
\* walk looks for a cycle, no row it lets through closes one, unless two rows are
\* inserted on one check.
THEOREM NoMembershipCycle == Spec => []MembershipsAcyclic
<1>1. IInv => MembershipsAcyclic
  BY DEF IInv, GroupsInv
<1> QED
  BY <1>1, InductiveInvariant, PTL

\* ReplaceAces keeps the protected ACE of the owner in front of what any ACL
\* request brings, so the owner has every privilege at all times.
THEOREM OwnersKeepAccess == Spec => []OwnerKeepsAccess
<1>1. IInv => OwnerKeepsAccess
  <2>1. SUFFICES ASSUME IInv, NEW x \in Resources, NEW groups, NEW privilege \in Elementary
                 PROVE  Permitted(acl, Owner[x], x, groups, privilege)
    BY DEF OwnerKeepsAccess
  <2> DEFINE e == OwnerAllAce(Owner[x])
  <2>2. /\ acl[x] \in Seq(Aces) /\ acl[x] # <<>> /\ acl[x][1] = e
        /\ acl \in [Resources -> Seq(Aces)]
    BY <2>1 DEF IInv, ListsOK
  <2>3. e.grant /\ e \in Concerning(Owner[x], x, groups, privilege)
    <3>1. e \in Aces /\ e.who = Owner[x] /\ e.privilege = "all" /\ e.grant
      BY OwnerAceIs DEF ProtectedAces, OwnerAllAce
    <3>2. PrivilegeSatisfies("all", privilege)
      BY DEF PrivilegeSatisfies, ExpandPrivilege, ALL_PRIVILEGES
    <3> HIDE DEF e
    <3> QED
      BY <3>1, <3>2 DEF Concerning, Concerns
  <2> HIDE DEF e
  <2>4. 1 \in DOMAIN acl[x] /\ \A j \in 1..(1 - 1) : FALSE
    BY <2>2
  <2>5. Grants(acl[x], Concerning(Owner[x], x, groups, privilege))
    BY <2>2, <2>3, <2>4 DEF Grants
  <2>6. 1 \in 1..Len(Lineage[x]) /\ Lineage[x][1] = x
    BY LineageIs DEF IsLineage
  <2> QED
    BY <2>2, <2>4, <2>5, <2>6, PermittedIs
<1> QED
  BY <1>1, InductiveInvariant, PTL

\* hasPrivilege: every answer is the right one for lists each of which stood at
\* some time while it was found, and for groups the user was in by rows that
\* stood then, among them all the user was in all the time.
THEOREM AnswersAreExplained == Spec => []AnswersExplained
<1>1. IInv => AnswersExplained
  <2>1. SUFFICES ASSUME IInv, NEW r \in Requests, NEW q, q = reqs[r], q.pc = "decided"
                 PROVE  \E lists \in {f \in [Resources -> UNION {q.lists[y] : y \in Resources}] :
                                        \A y \in Resources : f[y] \in q.lists[y]},
                           groups \in {h \in SUBSET Above(q.ever, q.user) :
                                         Above(q.always, q.user) \subseteq h} :
                          q.answer = Permitted(lists, q.user, q.target, groups, q.privilege)
    BY DEF AnswersExplained
  <2>2. Explained(q)
    BY <2>1 DEF IInv, RequestsOK, RequestSound, Idle
  <2>3. PICK lists \in [Resources -> Seq(Aces)], groups \in SUBSET Above(q.ever, q.user) :
          /\ Once(q, lists) /\ Above(q.always, q.user) \subseteq groups
          /\ q.answer = Permitted(lists, q.user, q.target, groups, q.privilege)
    BY <2>2 DEF Explained
  <2>4. lists \in [Resources -> UNION {q.lists[y] : y \in Resources}]
    BY <2>3 DEF Once
  <2> QED
    BY <2>3, <2>4 DEF Once
<1> QED
  BY <1>1, InductiveInvariant, PTL
=============================================================================
