-------------------------- MODULE DirectoryProofs --------------------------
(***************************************************************************)
(* Proofs about Directory, for all users, tenants, passwords, requests and *)
(* bounds.  That a server_admin stays is not inductive: what a request     *)
(* checked must still stand when it acts, unless it is marked late.  Who   *)
(* appoints a server_admin was checked in the first step of a request and  *)
(* is used in the last, so the requests have to carry that along, and so   *)
(* do the rows that were loaded.                                           *)
(***************************************************************************)
EXTENDS Directory, FiniteSetTheorems, TLAPS

Pcs == {"authorized", "checked", "loaded", "recompute", "summed"}
InProgress(q) ==
  q \in [pc : Pcs, ask : Asked, late : BOOLEAN, row : {q.row}, wasAdmin : BOOLEAN]

RequestsOK ==
  /\ reqs = [r \in Requests |-> reqs[r]]
  /\ \A r \in Requests : reqs[r] = Idle \/ InProgress(reqs[r])

\* What a request loaded or summed is what there can be.
RowFits(q) ==
  /\ q.pc = "loaded" /\ q.ask.kind = "patch" => q.row.role \in Roles /\ q.row.used \in Nat
  /\ q.pc = "summed" => \A u \in DOMAIN q.row.sums : q.row.sums[u] \in Nat
SumsFit ==
  /\ night = [t \in Tenants |-> night[t]]
  /\ \A t \in Tenants : night[t] # None => \A u \in DOMAIN night[t] : night[t][u] \in Nat

AdminsKnown == \A u \in Users : role[u] = "server_admin" => u \in everAdmin

\* Who asks for a server_admin has been one, and a row that makes one is of one.
Granted(q) ==
  /\ q.ask.kind \in {"patch", "create"} /\ q.ask.role = "server_admin"
       => q.ask.by \in everAdmin
  /\ q.pc = "loaded" /\ q.ask.kind = "patch" /\ q.row.role = "server_admin"
       => q.ask.target \in everAdmin

\* What a change or deletion of a user found out still stands, unless a
\* server_admin has gone since then or the user has become one.
Another(u) == \E v \in ServerAdmins : v # u
Fresh(q) ==
  ~q.late /\ q.ask.kind \in {"patch", "delete"} =>
    /\ q.wasAdmin <=> q.ask.target \in ServerAdmins
    /\ q.pc \in {"checked", "loaded"} /\ q.wasAdmin /\ TakesAdmin(q.ask) => Another(q.ask.target)
    /\ q.pc = "loaded" /\ q.ask.kind = "patch" =>
         (q.row.role = "server_admin" <=> q.ask.target \in ServerAdmins)

Sound(q) == RowFits(q) /\ Granted(q) /\ Fresh(q)
RequestsSound == \A r \in Requests : reqs[r] # Idle => Sound(reqs[r])

IInv ==
  /\ TypeOK /\ RequestsOK /\ SumsFit
  /\ AdminsKnown /\ RequestsSound
  /\ PasswordsAgree

-----------------------------------------------------------------------------
(* Lemmas about the operators *)

\* The larger of zero and an integer counts something.
LEMMA MaxType ==
  ASSUME NEW n \in Int
  PROVE  Max({0, n}) \in Nat
<1>1. \E m \in {0, n} : \A k \in {0, n} : m >= k
  OBVIOUS
<1>2. Max({0, n}) \in {0, n} /\ \A k \in {0, n} : Max({0, n}) >= k
  BY <1>1 DEF Max
<1> QED
  BY <1>2

\* What is asked for has the fields that its kind needs.
LEMMA AskedType ==
  ASSUME NEW q \in Asked
  PROVE  /\ q.by \in Users /\ q.role \in Roles \cup {"keep"} /\ q.password \in Passwords
         /\ q.identity \in Identities
         /\ q.kind \in UserKinds \cup {"create"} => q.target \in Users
         /\ q.kind \in TenantKinds \cup {"recompute"} => q.target \in Tenants
         /\ q.kind = "create" => q.role \in Roles
  BY AskedAssumption DEF UserKinds, TenantKinds

\* The users with a role can be counted.
LEMMA CountType ==
  ASSUME NEW r
  PROVE  /\ IsFiniteSet({u \in Users : role[u] = r})
         /\ CountUsersWithRole(r) \in Nat
         /\ (CountUsersWithRole(r) > 0 <=> \E u \in Users : role[u] = r)
<1>1. IsFiniteSet({u \in Users : role[u] = r})
  BY DirectoryAssumption, FS_Subset, {u \in Users : role[u] = r} \in SUBSET Users
<1>2. CountUsersWithRole(r) \in Nat
  BY <1>1, FS_CardinalityType DEF CountUsersWithRole
<1>3. CountUsersWithRole(r) = 0 <=> {u \in Users : role[u] = r} = {}
  BY <1>1, FS_EmptySet DEF CountUsersWithRole
<1> QED
  BY <1>1, <1>2, <1>3

\* Of more than one user with a role another is left.
LEMMA AnotherIsLeft ==
  ASSUME NEW r, NEW u \in Users, CountUsersWithRole(r) > 1
  PROVE  \E v \in Users : v # u /\ role[v] = r
<1> DEFINE S == {v \in Users : role[v] = r}
<1>1. IsFiniteSet(S) /\ Cardinality(S) \in Nat /\ Cardinality(S) > 1
  BY CountType DEF CountUsersWithRole
<1>2. IsFiniteSet(S \ {u}) /\ Cardinality(S \ {u}) >= Cardinality(S) - 1
  <2> HIDE DEF S
  <2>1. /\ IsFiniteSet(S \ {u})
        /\ Cardinality(S \ {u}) = IF u \in S THEN Cardinality(S) - 1 ELSE Cardinality(S)
    BY <1>1, FS_RemoveElement
  <2> QED
    BY <1>1, <2>1
<1>3. S \ {u} # {}
  <2> HIDE DEF S
  <2> QED
    BY <1>1, <1>2, FS_EmptySet
<1> QED
  BY <1>3

\* A request in progress that goes on keeps what it asked for and what is known
\* of it.
LEMMA InProgressType ==
  ASSUME NEW q, InProgress(q)
  PROVE  /\ q # Idle /\ q.pc \in Pcs /\ q.ask \in Asked /\ q.late \in BOOLEAN
         /\ q.wasAdmin \in BOOLEAN
         /\ q = [pc |-> q.pc, ask |-> q.ask, late |-> q.late, row |-> q.row,
                 wasAdmin |-> q.wasAdmin]
<1>1. /\ q.pc \in Pcs /\ q.ask \in Asked /\ q.late \in BOOLEAN /\ q.wasAdmin \in BOOLEAN
      /\ q = [pc |-> q.pc, ask |-> q.ask, late |-> q.late, row |-> q.row,
              wasAdmin |-> q.wasAdmin]
  BY DEF InProgress
<1> QED
  BY <1>1 DEF Pcs, Idle
LEMMA GoingOn ==
  ASSUME NEW q, InProgress(q), NEW pc \in Pcs,
         NEW n, n = [q EXCEPT !.pc = pc]
  PROVE  /\ InProgress(n) /\ n.pc = pc /\ n.row = q.row /\ n.ask = q.ask
         /\ n.late = q.late /\ n.wasAdmin = q.wasAdmin
  BY DEF InProgress
LEMMA GoingOnLate ==
  ASSUME NEW q, InProgress(q), NEW n, n = [q EXCEPT !.late = TRUE]
  PROVE  /\ InProgress(n) /\ n.pc = q.pc /\ n.row = q.row /\ n.ask = q.ask
         /\ n.late /\ n.wasAdmin = q.wasAdmin
  BY DEF InProgress

-----------------------------------------------------------------------------
(* What steps do to the requests *)

\* A step of one request that changes no roles leaves the others as sound as
\* they are.
LEMMA StepOfOne ==
  ASSUME IInv, NEW r \in Requests, NEW q, reqs' = [reqs EXCEPT ![r] = q],
         q = Idle \/ (InProgress(q) /\ Sound(q)),
         UNCHANGED <<role, everAdmin>>
  PROVE  RequestsOK' /\ RequestsSound' /\ AdminsKnown'
<1>1. reqs = [s \in Requests |-> reqs[s]]
  BY DEF IInv, RequestsOK
<1>2. reqs' = [s \in Requests |-> reqs'[s]]
      /\ \A s \in Requests : reqs'[s] = IF s = r THEN q ELSE reqs[s]
  BY <1>1
<1>3. \A s \in Requests : reqs'[s] = Idle \/ InProgress(reqs'[s])
  BY <1>2 DEF IInv, RequestsOK
<1>4. \A s \in Requests : reqs'[s] # Idle => Sound(reqs'[s])
  BY <1>2 DEF IInv, RequestsSound
<1>5. \A p : Sound(p) => Sound(p)'
  BY DEF Sound, RowFits, Granted, Fresh, TakesAdmin, Another, ServerAdmins
<1>6. RequestsSound'
  BY <1>4, <1>5 DEF RequestsSound
<1> QED
  BY <1>2, <1>3, <1>6 DEF IInv, RequestsOK, AdminsKnown

\* A change of roles makes those requests late whose findings it takes away.
LEMMA StepOfRoles ==
  ASSUME IInv, NEW r \in Requests, NEW q, AfterRoles([reqs EXCEPT ![r] = q]),
         q = Idle \/ (InProgress(q) /\ RowFits(q) /\ Granted(q) /\ q.pc = "recompute"
                      /\ (q.late \/ (q.wasAdmin <=> q.ask.target \in ServerAdmins))),
         everAdmin \subseteq everAdmin'
  PROVE  RequestsOK' /\ RequestsSound'
<1> DEFINE next == [reqs EXCEPT ![r] = q]
<1>1. reqs = [s \in Requests |-> reqs[s]]
  BY DEF IInv, RequestsOK
<1>2. \A s \in Requests : next[s] = IF s = r THEN q ELSE reqs[s]
  BY <1>1
<1> DEFINE Late(p) == p # Idle /\ \/ ServerAdmins \ ServerAdmins' # {}
                                  \/ p.ask.target \in ServerAdmins' \ ServerAdmins
<1>3. reqs' = [s \in Requests |-> IF Late(next[s]) THEN [next[s] EXCEPT !.late = TRUE] ELSE next[s]]
  BY DEF AfterRoles
<1> HIDE DEF next
<1>4. \A s \in Requests : next[s] = Idle \/ InProgress(next[s])
  BY <1>2 DEF IInv, RequestsOK
<1>5. \A s \in Requests : next[s] # Idle => RowFits(next[s]) /\ Granted(next[s])
  BY <1>2 DEF IInv, RequestsSound, Sound
<1>6. \A p, n : /\ RowFits(p) /\ Granted(p) /\ n.late
                /\ n.pc = p.pc /\ n.row = p.row /\ n.ask = p.ask
                => Sound(n)'
  BY DEF Sound, RowFits, Granted, Fresh
<1>7. ASSUME NEW s \in Requests, Late(next[s]), NEW n, n = reqs'[s]
      PROVE  n # Idle /\ InProgress(n) /\ Sound(n)'
  <2>1. n = [next[s] EXCEPT !.late = TRUE] /\ InProgress(next[s]) /\ next[s] # Idle
    BY <1>3, <1>4, <1>7
  <2>2. /\ InProgress(n) /\ n.pc = next[s].pc /\ n.row = next[s].row /\ n.ask = next[s].ask
        /\ n.late
    BY <2>1, GoingOnLate
  <2> QED
    BY <2>1, <2>2, <1>5, <1>6, InProgressType
<1>8. \A p : /\ RowFits(p) /\ Granted(p) /\ Fresh(p)
             /\ ServerAdmins \subseteq ServerAdmins'
             /\ p.ask.target \notin ServerAdmins' \ ServerAdmins
             => Sound(p)'
  BY DEF Sound, RowFits, Granted, Fresh, Another, TakesAdmin
<1>9. ASSUME NEW s \in Requests, ~Late(next[s]), NEW n, n = reqs'[s]
      PROVE  n = Idle \/ (InProgress(n) /\ Sound(n)')
  <2>1. n = next[s]
    BY <1>3, <1>9
  <2> SUFFICES ASSUME n # Idle PROVE InProgress(n) /\ Sound(n)'
    OBVIOUS
  <2>2. InProgress(n) /\ RowFits(n) /\ Granted(n)
    BY <2>1, <1>4, <1>5
  <2>3. ServerAdmins \subseteq ServerAdmins' /\ n.ask.target \notin ServerAdmins' \ ServerAdmins
    BY <2>1, <1>9
  <2>4. Fresh(n)
    <3>1. CASE s # r
      BY <3>1, <2>1, <1>2 DEF IInv, RequestsSound, Sound
    <3>2. CASE s = r
      BY <3>2, <2>1, <1>2 DEF Fresh
    <3> QED
      BY <3>1, <3>2
  <2> QED
    BY <2>2, <2>3, <2>4, <1>8
<1>10. \A s \in Requests : \A n : n = reqs'[s] => n = Idle \/ (InProgress(n) /\ Sound(n)')
  BY <1>7, <1>9
<1>11. RequestsSound'
  BY <1>10 DEF RequestsSound
<1>12. RequestsOK'
  <2>1. reqs' = [s \in Requests |-> reqs'[s]]
    BY <1>3
  <2> QED
    BY <2>1, <1>10 DEF RequestsOK
<1> QED
  BY <1>11, <1>12

\* Steps that leave the accounts alone.
LEMMA AccountsKept ==
  ASSUME IInv, UNCHANGED <<accounts, everAdmin>>
  PROVE  /\ PasswordsAgree'
         /\ (/\ \A u \in Users : stored'[u] \in 0..MaxBytes /\ used'[u] \in Nat
             /\ writes' \in 0..MaxWrites) => TypeOK'
<1> USE DEF IInv, accounts
<1>1. PasswordsAgree'
  BY DEF PasswordsAgree
<1>2. ASSUME \A u \in Users : stored'[u] \in 0..MaxBytes /\ used'[u] \in Nat,
             writes' \in 0..MaxWrites
      PROVE  TypeOK'
  BY <1>2 DEF TypeOK, Present, RowThere
<1> QED
  BY <1>1, <1>2

\* Steps of a request that only look.
LEMMA StepThatLooks ==
  ASSUME IInv, NEW r \in Requests, NEW q, reqs' = [reqs EXCEPT ![r] = q],
         q = Idle \/ (InProgress(q) /\ Sound(q)),
         UNCHANGED <<accounts, realm, counters, night, everAdmin>>,
         writes' \in 0..MaxWrites
  PROVE  IInv'
<1>1. RequestsOK' /\ RequestsSound' /\ AdminsKnown'
  BY StepOfOne DEF accounts
<1>2. \A u \in Users : stored'[u] \in 0..MaxBytes /\ used'[u] \in Nat
  BY DEF IInv, TypeOK, counters
<1>3. SumsFit'
  BY DEF IInv, SumsFit
<1> QED
  BY <1>1, <1>2, <1>3, AccountsKept DEF IInv

\* Steps with which a request ends and nothing else happens.
LEMMA RequestThatEnds ==
  ASSUME IInv, NEW r \in Requests, reqs' = [reqs EXCEPT ![r] = Idle],
         UNCHANGED <<accounts, realm, counters, night, everAdmin>>,
         writes' \in 0..MaxWrites
  PROVE  IInv'
<1>1. PICK q : q = Idle
  OBVIOUS
<1>2. reqs' = [reqs EXCEPT ![r] = q]
  BY <1>1
<1> QED
  BY <1>1, <1>2, StepThatLooks

-----------------------------------------------------------------------------
(* Steps of requests that leave the roles alone *)

LEMMA AuthorizeInv ==
  ASSUME IInv, NEW r \in Requests, NEW q \in Asked, Authorize(r, q)
  PROVE  IInv'
<1> DEFINE n == [pc |-> "authorized", ask |-> q, late |-> FALSE, row |-> None,
                 wasAdmin |-> q.kind \in UserKinds /\ role[q.target] = "server_admin"]
<1>1. InProgress(n)
  BY DEF InProgress, Pcs
<1>2. q.kind \in {"patch", "create"} /\ q.role = "server_admin" => q.by \in everAdmin
  <2>1. MayAsk(q) /\ q.by \in Users
    BY AskedType DEF Authorize
  <2>2. q.kind \in {"patch", "create"} => ~Escalates(q)
    BY <2>1 DEF MayAsk, MayTouch, MayCreateTenant, MayUpdateTenant, MayDeleteTenant,
                MayRecompute, MayCreateUser, MayPatchUser, MayDeleteUser, MaySetPassword,
                MayLink, MayUnlink
  <2> QED
    BY <2>1, <2>2 DEF Escalates, IInv, AdminsKnown
<1>3. Sound(n)
  BY <1>2, AskedType DEF Sound, RowFits, Granted, Fresh, UserKinds, ServerAdmins
<1>4. /\ reqs' = [reqs EXCEPT ![r] = n]
      /\ writes' \in 0..MaxWrites
      /\ UNCHANGED <<accounts, realm, counters, night, everAdmin>>
  BY DirectoryAssumption DEF Authorize, IInv, TypeOK
<1> QED
  BY <1>1, <1>3, <1>4, StepThatLooks

LEMMA CheckStaysInv ==
  ASSUME IInv, NEW r \in Requests, CheckStays(r)
  PROVE  IInv'
<1> DEFINE n == [reqs[r] EXCEPT !.pc = "checked"]
<1>1. UNCHANGED <<accounts, realm, counters, night, everAdmin>> /\ writes' \in 0..MaxWrites
  BY DEF CheckStays, IInv, TypeOK
<1>2. reqs[r].pc = "authorized" /\ reqs[r] # Idle /\ InProgress(reqs[r]) /\ Sound(reqs[r])
  BY DEF CheckStays, At, Idle, IInv, RequestsOK, RequestsSound
<1>3. CASE MustStay(r)
  <2>1. reqs' = [reqs EXCEPT ![r] = Idle]
    BY <1>3 DEF CheckStays, End
  <2> QED
    BY <1>1, <2>1, RequestThatEnds
<1>4. CASE ~MustStay(r)
  <2>1. reqs' = [reqs EXCEPT ![r] = n]
    BY <1>4 DEF CheckStays, Goto
  <2>2. /\ InProgress(n) /\ n.pc = "checked" /\ n.row = reqs[r].row /\ n.ask = reqs[r].ask
        /\ n.late = reqs[r].late /\ n.wasAdmin = reqs[r].wasAdmin
    BY <1>2, GoingOn DEF Pcs
  <2>3. reqs[r].wasAdmin /\ TakesAdmin(reqs[r].ask) => Another(reqs[r].ask.target)
    <3>1. CountUsersWithRole("server_admin") \in Nat
      BY CountType
    <3>2. reqs[r].ask.target \in Users
      BY <1>2, InProgressType, AskedType DEF CheckStays, At, UserKinds
    <3> HIDE DEF n
    <3>3. reqs[r].wasAdmin /\ TakesAdmin(reqs[r].ask) => CountUsersWithRole("server_admin") > 1
      BY <1>4, <3>1 DEF MustStay, LastAdmin
    <3> QED
      BY <3>2, <3>3, AnotherIsLeft DEF Another, ServerAdmins
  <2>4. Sound(n)
    <3> HIDE DEF n
    <3> QED
      BY <1>2, <2>2, <2>3 DEF Sound, RowFits, Granted, Fresh
  <2> QED
    BY <1>1, <2>1, <2>2, <2>4, StepThatLooks
<1> QED
  BY <1>3, <1>4

LEMMA LoadUserInv ==
  ASSUME IInv, NEW r \in Requests, LoadUser(r)
  PROVE  IInv'
<1> DEFINE u == Target(r)
           row == [role |-> role[u], used |-> used[u]]
           n == [reqs[r] EXCEPT !.pc = "loaded", !.row = row]
<1>1. UNCHANGED <<accounts, realm, counters, night, everAdmin>> /\ writes' \in 0..MaxWrites
  BY DEF LoadUser, IInv, TypeOK
<1>2. /\ reqs[r].pc = "checked" /\ reqs[r].ask.kind = "patch"
      /\ reqs[r] # Idle /\ InProgress(reqs[r]) /\ Sound(reqs[r])
  BY DEF LoadUser, At, Idle, IInv, RequestsOK, RequestsSound
<1>3. CASE ~Present(u)
  <2>1. reqs' = [reqs EXCEPT ![r] = Idle]
    BY <1>3 DEF LoadUser, End
  <2> QED
    BY <1>1, <2>1, RequestThatEnds
<1>4. CASE Present(u)
  <2>1. reqs' = [reqs EXCEPT ![r] = n]
    BY <1>4 DEF LoadUser
  <2>2. /\ InProgress(n) /\ n.pc = "loaded" /\ n.row = row /\ n.ask = reqs[r].ask
        /\ n.late = reqs[r].late /\ n.wasAdmin = reqs[r].wasAdmin
    <3>1. n = [reqs[r] EXCEPT !.pc = "loaded", !.row = row] /\ "loaded" \in Pcs
      BY DEF Pcs
    <3> HIDE DEF n, row
    <3> QED
      BY <1>2, <3>1 DEF InProgress
  <2>3. u \in Users /\ u = n.ask.target
    BY <1>2, <2>2, AskedType, InProgressType DEF Target, UserKinds
  <2>4. RowFits(n)
    <3> HIDE DEF n
    <3> QED
      BY <1>4, <2>2, <2>3 DEF RowFits, Present, IInv, TypeOK
  <2>5. Granted(n)
    <3> HIDE DEF n
    <3> QED
      BY <1>2, <2>2, <2>3 DEF Granted, Sound, IInv, AdminsKnown
  <2>6. Fresh(n)
    <3> HIDE DEF n
    <3> QED
      BY <1>2, <2>2, <2>3 DEF Fresh, Sound, ServerAdmins
  <2> QED
    BY <1>1, <2>1, <2>2, <2>4, <2>5, <2>6, StepThatLooks DEF Sound
<1> QED
  BY <1>3, <1>4

\* A request at one step of its kind is in progress and sound.
LEMMA AtStep ==
  ASSUME IInv, NEW r \in Requests, reqs[r].pc # "idle"
  PROVE  /\ reqs[r] # Idle /\ InProgress(reqs[r]) /\ Sound(reqs[r])
         /\ reqs[r].ask \in Asked
         /\ reqs[r].ask.kind \in UserKinds \cup {"create"} => Target(r) \in Users
         /\ reqs[r].ask.kind \in TenantKinds \cup {"recompute"} => Target(r) \in Tenants
<1>1. reqs[r] # Idle /\ InProgress(reqs[r]) /\ Sound(reqs[r])
  BY DEF Idle, IInv, RequestsOK, RequestsSound
<1>2. reqs[r].ask \in Asked
  BY <1>1, InProgressType
<1> QED
  BY <1>1, <1>2, AskedType DEF Target

\* Steps that look something up that nothing else rests on.
LEMMA LooksUp ==
  ASSUME IInv, NEW r \in Requests, reqs[r].pc # "idle", NEW n,
         reqs' = [reqs EXCEPT ![r] = n], InProgress(n),
         n.ask = reqs[r].ask, n.late = reqs[r].late, n.wasAdmin = reqs[r].wasAdmin,
         n.ask.kind \in {"patch", "delete"} => n.pc \notin {"checked", "loaded"},
         n.ask.kind # "patch" \/ n.pc # "loaded",
         n.pc = "summed" => \A u \in DOMAIN n.row.sums : n.row.sums[u] \in Nat,
         UNCHANGED <<accounts, realm, counters, night, everAdmin, writes>>
  PROVE  IInv'
<1>1. Sound(reqs[r])
  BY AtStep
<1>2. Sound(n)
  BY <1>1 DEF Sound, RowFits, Granted, Fresh
<1>3. UNCHANGED <<accounts, realm, counters, night, everAdmin>> /\ writes' \in 0..MaxWrites
  BY DEF IInv, TypeOK
<1> QED
  BY <1>2, <1>3, StepThatLooks

LEMMA CheckLinkInv ==
  ASSUME IInv, NEW r \in Requests, CheckLink(r)
  PROVE  IInv'
<1> DEFINE n == [reqs[r] EXCEPT !.pc = "checked"]
<1>1. reqs[r].pc = "authorized" /\ reqs[r].ask.kind = "link"
      /\ UNCHANGED <<accounts, realm, counters, night, everAdmin, writes>>
  BY DEF CheckLink, At
<1>2. CASE reqs' = [reqs EXCEPT ![r] = Idle]
  <2>1. UNCHANGED <<accounts, realm, counters, night, everAdmin>> /\ writes' \in 0..MaxWrites
    BY <1>1 DEF IInv, TypeOK
  <2> QED
    BY <1>2, <2>1, RequestThatEnds
<1>3. CASE reqs' = [reqs EXCEPT ![r] = n]
  <2>1. /\ InProgress(n) /\ n.pc = "checked" /\ n.row = reqs[r].row /\ n.ask = reqs[r].ask
        /\ n.late = reqs[r].late /\ n.wasAdmin = reqs[r].wasAdmin
    BY <1>1, AtStep, GoingOn DEF Pcs
  <2> HIDE DEF n
  <2> QED
    BY <1>1, <1>3, <2>1, LooksUp
<1> QED
  BY <1>2, <1>3 DEF CheckLink, End, Goto

LEMMA LoadTenantInv ==
  ASSUME IInv, NEW r \in Requests, LoadTenant(r)
  PROVE  IInv'
<1> DEFINE row == [used |-> tenantUsed[Target(r)]]
           n == [reqs[r] EXCEPT !.pc = "loaded", !.row = row]
<1>1. reqs[r].pc = "authorized" /\ reqs[r].ask.kind = "updateTenant"
      /\ UNCHANGED <<accounts, realm, counters, night, everAdmin, writes>>
  BY DEF LoadTenant, At
<1>2. CASE reqs' = [reqs EXCEPT ![r] = Idle]
  <2>1. UNCHANGED <<accounts, realm, counters, night, everAdmin>> /\ writes' \in 0..MaxWrites
    BY <1>1 DEF IInv, TypeOK
  <2> QED
    BY <1>2, <2>1, RequestThatEnds
<1>3. CASE reqs' = [reqs EXCEPT ![r] = n]
  <2>1. InProgress(reqs[r]) /\ "loaded" \in Pcs
    BY <1>1, AtStep DEF Pcs
  <2>2. /\ InProgress(n) /\ n.pc = "loaded" /\ n.ask = reqs[r].ask
        /\ n.late = reqs[r].late /\ n.wasAdmin = reqs[r].wasAdmin
    <3> HIDE DEF row
    <3> QED
      BY <2>1 DEF InProgress
  <2> HIDE DEF n
  <2> QED
    BY <1>1, <1>3, <2>2, LooksUp
<1> QED
  BY <1>2, <1>3 DEF LoadTenant, End

LEMMA SumInv ==
  ASSUME IInv, NEW r \in Requests, Sum(r)
  PROVE  IInv'
<1> DEFINE t == IF reqs[r].pc = "recompute" THEN Home[Target(r)] ELSE Target(r)
           row == [of |-> t, sums |-> SumsOf(t)]
           n == [reqs[r] EXCEPT !.pc = "summed", !.row = row]
<1>1. reqs[r].pc \in {"authorized", "recompute"} /\ reqs' = [reqs EXCEPT ![r] = n]
      /\ UNCHANGED <<accounts, realm, counters, night, everAdmin, writes>>
  BY DEF Sum, At
<1>2. InProgress(reqs[r]) /\ "summed" \in Pcs
  BY <1>1, AtStep DEF Pcs
<1>3. /\ InProgress(n) /\ n.pc = "summed" /\ n.ask = reqs[r].ask /\ n.row = row
      /\ n.late = reqs[r].late /\ n.wasAdmin = reqs[r].wasAdmin
  <2> HIDE DEF row
  <2> QED
    BY <1>2 DEF InProgress
<1>4. \A u \in DOMAIN row.sums : row.sums[u] \in Nat
  BY DirectoryAssumption DEF SumsOf, UsersOf, IInv, TypeOK
<1> HIDE DEF n, row
<1> QED
  BY <1>1, <1>3, <1>4, LooksUp

-----------------------------------------------------------------------------
(* Steps that write other columns than the role *)

LEMMA RequestGone ==
  ASSUME IInv, NEW r \in Requests, End(r), UNCHANGED <<role, everAdmin>>
  PROVE  RequestsOK' /\ RequestsSound' /\ AdminsKnown'
<1>1. PICK q : q = Idle
  OBVIOUS
<1>2. reqs' = [reqs EXCEPT ![r] = q]
  BY <1>1 DEF End
<1> QED
  BY <1>1, <1>2, StepOfOne

LEMMA SetUserPasswordInv ==
  ASSUME IInv, NEW r \in Requests, SetUserPassword(r)
  PROVE  IInv'
<1> USE DEF SetUserPassword
<1>1. reqs[r].pc = "authorized" /\ reqs[r].ask.kind = "password"
  BY DEF At
<1>2. Target(r) \in Users /\ reqs[r].ask.password \in Passwords
  BY <1>1, AtStep, AskedType DEF UserKinds
<1>3. RequestsOK' /\ RequestsSound' /\ AdminsKnown'
  BY RequestGone
<1>4. TypeOK'
  BY <1>2, DirectoryAssumption DEF IInv, TypeOK, Present, RowThere, counters
<1>5. PasswordsAgree'
  BY <1>2 DEF IInv, TypeOK, PasswordsAgree
<1>6. SumsFit'
  BY DEF IInv, SumsFit
<1> QED
  BY <1>3, <1>4, <1>5, <1>6 DEF IInv

LEMMA LinksInv ==
  ASSUME IInv, NEW r \in Requests, InsertLink(r) \/ UnlinkOAuth2Identity(r)
  PROVE  IInv'
<1> USE DEF InsertLink, UnlinkOAuth2Identity
<1>1. reqs[r].pc # "idle" /\ reqs[r].ask.kind \in {"link", "unlink"} /\ End(r)
  BY DEF At
<1>2. Target(r) \in Users /\ reqs[r].ask.identity \in Identities
  BY <1>1, AtStep, AskedType DEF UserKinds
<1>3. UNCHANGED <<tenant, role, basic, digest, counters, night, everAdmin, writes>>
  OBVIOUS
<1>4. RequestsOK' /\ RequestsSound' /\ AdminsKnown'
  BY <1>1, <1>3, RequestGone
<1>5. linked' \in [Users -> Identities \cup {None}]
  BY <1>2 DEF IInv, TypeOK
<1>6. TypeOK'
  BY <1>3, <1>5 DEF IInv, TypeOK, Present, RowThere, counters
<1>7. PasswordsAgree' /\ SumsFit'
  BY <1>3 DEF IInv, PasswordsAgree, SumsFit
<1> QED
  BY <1>4, <1>6, <1>7 DEF IInv

LEMMA CreateTenantInv ==
  ASSUME IInv, NEW r \in Requests, CreateTenant(r)
  PROVE  IInv'
<1>1. UNCHANGED <<role, basic, digest, linked, counters, night, everAdmin, writes>> /\ End(r)
  BY DEF CreateTenant
<1>2. RequestsOK' /\ RequestsSound' /\ AdminsKnown'
  BY <1>1, RequestGone
<1>3. /\ tenant' \in [Tenants -> {"new", "there", "bare", "gone"}]
      /\ \A t \in Tenants : tenant'[t] = tenant[t] \/ (tenant[t] = "new" /\ tenant'[t] = "there")
  BY DEF CreateTenant, IInv, TypeOK
<1>4. TypeOK'
  BY <1>1, <1>3, DirectoryAssumption DEF IInv, TypeOK, Present, RowThere, counters
<1>5. PasswordsAgree' /\ SumsFit'
  BY <1>1 DEF IInv, PasswordsAgree, SumsFit
<1> QED
  BY <1>2, <1>4, <1>5 DEF IInv

LEMMA SaveTenantInv ==
  ASSUME IInv, NEW r \in Requests, SaveTenant(r)
  PROVE  IInv'
<1>1. UNCHANGED <<role, basic, digest, linked, stored, used, night, everAdmin, writes>> /\ End(r)
  BY DEF SaveTenant
<1>2. RequestsOK' /\ RequestsSound' /\ AdminsKnown'
  BY <1>1, RequestGone
<1>3. /\ tenant' \in [Tenants -> {"new", "there", "bare", "gone"}]
      /\ \A t \in Tenants : tenant'[t] = tenant[t] \/ (tenant[t] = "gone" /\ tenant'[t] = "bare")
  BY DEF SaveTenant, IInv, TypeOK
<1>4. TypeOK'
  BY <1>1, <1>3, DirectoryAssumption DEF IInv, TypeOK, Present, RowThere
<1>5. PasswordsAgree' /\ SumsFit'
  BY <1>1 DEF IInv, PasswordsAgree, SumsFit
<1> QED
  BY <1>2, <1>4, <1>5 DEF IInv

\* The sums that are written are numbers.
LEMMA WriteSumsType ==
  ASSUME IInv, NEW t, NEW sums, \A u \in DOMAIN sums : sums[u] \in Nat,
         WriteSums(t, sums)
  PROVE  \A u \in Users : used'[u] \in Nat
  BY DEF WriteSums, IInv, TypeOK

LEMMA WriteSumInv ==
  ASSUME IInv, NEW r \in Requests, WriteSum(r)
  PROVE  IInv'
<1>1. /\ UNCHANGED <<accounts, stored, night, everAdmin, writes>> /\ End(r)
      /\ reqs[r].pc = "summed" /\ WriteSums(reqs[r].row.of, reqs[r].row.sums)
  BY DEF WriteSum
<1>2. RequestsOK' /\ RequestsSound' /\ AdminsKnown'
  BY <1>1, RequestGone DEF accounts
<1>3. Sound(reqs[r])
  BY <1>1, AtStep
<1>4. \A u \in Users : used'[u] \in Nat
  BY <1>1, <1>3, WriteSumsType DEF Sound, RowFits
<1>5. \A u \in Users : stored'[u] \in 0..MaxBytes
  BY <1>1 DEF IInv, TypeOK
<1>6. writes' \in 0..MaxWrites /\ SumsFit'
  BY <1>1 DEF IInv, TypeOK, SumsFit
<1> QED
  BY <1>1, <1>2, <1>4, <1>5, <1>6, AccountsKept DEF IInv

LEMMA StoreInv ==
  ASSUME IInv, NEW u \in Users, NEW bytes \in 0..MaxBytes, Store(u, bytes)
  PROVE  IInv'
<1>1. UNCHANGED <<accounts, night, reqs, everAdmin>>
  BY DEF Store
<1>2. writes' \in 0..MaxWrites
  BY DirectoryAssumption DEF Store, IInv, TypeOK
<1>3. used[u] + bytes - stored[u] \in Int
  BY DirectoryAssumption DEF IInv, TypeOK
<1>4. \A v \in Users : stored'[v] \in 0..MaxBytes /\ used'[v] \in Nat
  BY <1>3, MaxType DEF Store, IInv, TypeOK
<1>5. RequestsOK' /\ RequestsSound' /\ AdminsKnown' /\ SumsFit'
  BY <1>1 DEF accounts, IInv, RequestsOK, RequestsSound, AdminsKnown, SumsFit,
              Sound, RowFits, Granted, Fresh, Another, ServerAdmins
<1> QED
  BY <1>1, <1>2, <1>4, <1>5, AccountsKept DEF IInv

LEMMA NightInv ==
  ASSUME IInv, NEW t \in Tenants, NightSum(t) \/ NightWrite(t)
  PROVE  IInv'
<1>1. UNCHANGED <<accounts, stored, reqs, everAdmin, writes>>
  BY DEF NightSum, NightWrite, counters
<1>2. SumsFit'
  BY DirectoryAssumption DEF NightSum, NightWrite, IInv, TypeOK, SumsFit, SumsOf, UsersOf
<1>3. \A u \in Users : used'[u] \in Nat
  BY WriteSumsType DEF NightSum, NightWrite, IInv, TypeOK, SumsFit, counters
<1>4. \A u \in Users : stored'[u] \in 0..MaxBytes
  BY <1>1 DEF IInv, TypeOK
<1>5. RequestsOK' /\ RequestsSound' /\ AdminsKnown'
  BY <1>1 DEF accounts, IInv, RequestsOK, RequestsSound, AdminsKnown,
              Sound, RowFits, Granted, Fresh, Another, ServerAdmins
<1>6. writes' \in 0..MaxWrites
  BY <1>1 DEF IInv, TypeOK
<1> QED
  BY <1>1, <1>2, <1>3, <1>4, <1>5, <1>6, AccountsKept DEF IInv

LEMMA RestartInv ==
  ASSUME IInv, NEW offered \in BOOLEAN, Restart(offered)
  PROVE  IInv'
<1>1. UNCHANGED <<accounts, counters, everAdmin>>
  BY DEF Restart
<1>2. writes' \in 0..MaxWrites
  BY DirectoryAssumption DEF Restart, IInv, TypeOK
<1>3. \A u \in Users : stored'[u] \in 0..MaxBytes /\ used'[u] \in Nat
  BY <1>1 DEF IInv, TypeOK, counters
<1>4. RequestsOK' /\ RequestsSound' /\ SumsFit'
  BY DEF Restart, RequestsOK, RequestsSound, SumsFit
<1>5. AdminsKnown'
  BY <1>1 DEF accounts, IInv, AdminsKnown
<1> QED
  BY <1>1, <1>2, <1>3, <1>4, <1>5, AccountsKept DEF IInv

-----------------------------------------------------------------------------
(* Steps that change roles *)

\* What a change of roles leaves true: the history knows every server_admin.
LEMMA RolesChanged ==
  ASSUME IInv, NEW new, ChangeRoles(new)
  PROVE  AdminsKnown' /\ everAdmin \subseteq everAdmin'
  BY DEF ChangeRoles, AdminsKnown

LEMMA SaveUserInv ==
  ASSUME IInv, NEW r \in Requests, SaveUser(r)
  PROVE  IInv'
<1> DEFINE u == Target(r)
           q == reqs[r].ask
           new == [role EXCEPT ![u] = IF q.role = "keep" THEN reqs[r].row.role ELSE q.role]
<1>1. reqs[r].pc = "loaded" /\ q.kind = "patch"
      /\ UNCHANGED <<tenant, basic, digest, linked, realm, stored, tenantUsed, night, writes>>
      /\ AfterRoles([reqs EXCEPT ![r] = Idle])
  BY DEF SaveUser, At
<1>2. /\ InProgress(reqs[r]) /\ Sound(reqs[r]) /\ reqs[r] # Idle /\ q \in Asked
      /\ u \in Users /\ u = q.target
  BY <1>1, AtStep DEF UserKinds, Target
<1>3. q.role \in Roles \cup {"keep"} /\ reqs[r].row.role \in Roles /\ reqs[r].row.used \in Nat
  BY <1>1, <1>2, AskedType DEF Sound, RowFits
<1>4. CASE ~Present(u)
  <2>1. UNCHANGED <<role, used, everAdmin>>
    BY <1>4 DEF SaveUser
  <2>2. PICK n : n = Idle
    OBVIOUS
  <2>3. RequestsOK' /\ RequestsSound'
    <3>1. AfterRoles([reqs EXCEPT ![r] = n]) /\ everAdmin \subseteq everAdmin'
      BY <1>1, <2>1, <2>2
    <3> QED
      BY <2>2, <3>1, StepOfRoles
  <2>4. UNCHANGED <<accounts, everAdmin>>
    BY <1>1, <2>1 DEF accounts
  <2>5. /\ \A v \in Users : stored'[v] \in 0..MaxBytes /\ used'[v] \in Nat
        /\ writes' \in 0..MaxWrites /\ SumsFit'
    BY <1>1, <2>1 DEF IInv, TypeOK, SumsFit
  <2>6. AdminsKnown'
    BY <2>1 DEF IInv, AdminsKnown
  <2> QED
    BY <2>3, <2>4, <2>5, <2>6, AccountsKept DEF IInv
<1>5. CASE Present(u)
  <2>1. ChangeRoles(new) /\ used' = [used EXCEPT ![u] = reqs[r].row.used]
    BY <1>5 DEF SaveUser
  <2>2. role' = new /\ \A v \in Users : role'[v] =
          IF v = u THEN (IF q.role = "keep" THEN reqs[r].row.role ELSE q.role) ELSE role[v]
    BY <2>1 DEF ChangeRoles, IInv, TypeOK
  <2>3. role' \in [Users -> Roles \cup {"new", "gone"}] /\ (role'[u] \in Roles)
    BY <1>2, <1>3, <2>2 DEF IInv, TypeOK
  <2>4. TypeOK'
    BY <1>1, <1>2, <1>3, <1>5, <2>1, <2>2, <2>3 DEF IInv, TypeOK, Present, RowThere
  <2>5. AdminsKnown' /\ everAdmin \subseteq everAdmin'
    <3> HIDE DEF new
    <3> QED
      BY <2>1, RolesChanged
  <2>6. RequestsOK' /\ RequestsSound'
    <3>1. PICK n : n = Idle
      OBVIOUS
    <3>2. AfterRoles([reqs EXCEPT ![r] = n])
      BY <1>1, <3>1
    <3> QED
      BY <2>5, <3>1, <3>2, StepOfRoles
  <2>7. PasswordsAgree' /\ SumsFit'
    BY <1>1 DEF IInv, PasswordsAgree, SumsFit
  <2> QED
    BY <2>4, <2>5, <2>6, <2>7 DEF IInv
<1> QED
  BY <1>4, <1>5

LEMMA DeleteUserInv ==
  ASSUME IInv, NEW r \in Requests, DeleteUser(r)
  PROVE  IInv'
<1> DEFINE u == Target(r)
           new == [role EXCEPT ![u] = "gone"]
           n == [reqs[r] EXCEPT !.pc = "recompute"]
<1>1. reqs[r].pc = "checked" /\ reqs[r].ask.kind = "delete"
      /\ UNCHANGED <<tenant, realm, tenantUsed, night, writes>>
  BY DEF DeleteUser, At
<1>2. /\ InProgress(reqs[r]) /\ Sound(reqs[r]) /\ reqs[r] # Idle
      /\ u \in Users /\ u = reqs[r].ask.target
  BY <1>1, AtStep DEF UserKinds, Target
<1>3. CASE ~Present(u)
  <2>1. End(r) /\ UNCHANGED <<role, basic, digest, linked, stored, used, everAdmin>>
    BY <1>3 DEF DeleteUser
  <2>2. reqs' = [reqs EXCEPT ![r] = Idle]
    BY <2>1 DEF End
  <2>3. UNCHANGED <<accounts, realm, counters, night, everAdmin>> /\ writes' \in 0..MaxWrites
    BY <1>1, <2>1 DEF accounts, counters, IInv, TypeOK
  <2> QED
    BY <2>2, <2>3, RequestThatEnds
<1>4. CASE Present(u)
  <2>1. /\ ChangeRoles(new) /\ AfterRoles([reqs EXCEPT ![r] = n])
        /\ \E lost \in SUBSET UsersOf(Home[u]) : Cascade({u}, lost)
    BY <1>4 DEF DeleteUser
  <2>2. role' = new /\ \A v \in Users : role'[v] = IF v = u THEN "gone" ELSE role[v]
    BY <2>1 DEF ChangeRoles, IInv, TypeOK
  <2>3. role' # role
    BY <1>2, <1>4, <2>2 DEF Present, Roles
  <2>4. /\ basic' \in [Users -> Passwords \cup {None}]
        /\ digest' \in [Users -> Passwords \cup {None}]
        /\ linked' \in [Users -> Identities \cup {None}]
        /\ \A v \in Users : stored'[v] \in 0..MaxBytes /\ used'[v] \in Nat
        /\ PasswordsAgree'
    BY <2>1, DirectoryAssumption DEF Cascade, IInv, TypeOK, PasswordsAgree
  <2>5. TypeOK'
    <3>1. role' \in [Users -> Roles \cup {"new", "gone"}]
      BY <2>2 DEF IInv, TypeOK
    <3>2. \A v \in Users : Present(v)' => RowThere(Home[v])'
      BY <1>1, <2>2 DEF IInv, TypeOK, Present, RowThere, Roles
    <3> QED
      BY <1>1, <2>4, <3>1, <3>2 DEF IInv, TypeOK
  <2>6. AdminsKnown' /\ everAdmin \subseteq everAdmin'
    <3> HIDE DEF new
    <3> QED
      BY <2>1, RolesChanged
  <2>7. RequestsOK' /\ RequestsSound'
    <3>1. /\ InProgress(n) /\ n.pc = "recompute" /\ n.row = reqs[r].row /\ n.ask = reqs[r].ask
          /\ n.late = reqs[r].late /\ n.wasAdmin = reqs[r].wasAdmin
      BY <1>2, GoingOn DEF Pcs
    <3>2. RowFits(n) /\ Granted(n)
      <4> HIDE DEF n
      <4> QED
        BY <1>1, <1>2, <3>1 DEF RowFits, Granted, Sound
    <3>3. n.late \/ (n.wasAdmin <=> n.ask.target \in ServerAdmins)
      <4> HIDE DEF n
      <4> QED
        BY <1>1, <1>2, <3>1, InProgressType DEF Sound, Fresh
    <3> HIDE DEF n
    <3> QED
      BY <2>1, <2>6, <3>1, <3>2, <3>3, StepOfRoles
  <2>8. SumsFit'
    BY <1>1 DEF IInv, SumsFit
  <2> QED
    BY <2>4, <2>5, <2>6, <2>7, <2>8 DEF IInv
<1> QED
  BY <1>3, <1>4

LEMMA CreateUserInv ==
  ASSUME IInv, NEW r \in Requests, CreateUser(r)
  PROVE  IInv'
<1> DEFINE u == Target(r)
           q == reqs[r].ask
           new == [role EXCEPT ![u] = q.role]
<1>1. reqs[r].pc = "authorized" /\ q.kind = "create"
      /\ UNCHANGED <<tenant, linked, realm, counters, night, writes>>
      /\ AfterRoles([reqs EXCEPT ![r] = Idle])
  BY DEF CreateUser, At
<1>2. InProgress(reqs[r]) /\ q \in Asked /\ u \in Users /\ q.role \in Roles
      /\ q.password \in Passwords
  BY <1>1, AtStep, AskedType
<1>3. SumsFit'
  BY <1>1 DEF IInv, SumsFit
<1>4. ASSUME everAdmin \subseteq everAdmin'
      PROVE  RequestsOK' /\ RequestsSound'
  <2>1. PICK n : n = Idle
    OBVIOUS
  <2>2. AfterRoles([reqs EXCEPT ![r] = n])
    BY <1>1, <2>1
  <2> QED
    BY <1>4, <2>1, <2>2, StepOfRoles
<1>5. CASE ~(role[u] = "new" /\ RowThere(Home[u]))
  <2>1. UNCHANGED <<role, basic, digest, everAdmin>>
    BY <1>5 DEF CreateUser
  <2>2. UNCHANGED <<accounts, everAdmin>> /\ AdminsKnown' /\ everAdmin \subseteq everAdmin'
    BY <1>1, <2>1 DEF accounts, IInv, AdminsKnown
  <2>3. /\ \A v \in Users : stored'[v] \in 0..MaxBytes /\ used'[v] \in Nat
        /\ writes' \in 0..MaxWrites
    BY <1>1 DEF IInv, TypeOK, counters
  <2> QED
    BY <1>3, <1>4, <2>2, <2>3, AccountsKept DEF IInv
<1>6. CASE role[u] = "new" /\ RowThere(Home[u])
  <2>1. /\ ChangeRoles(new)
        /\ basic' = [basic EXCEPT ![u] = q.password]
        /\ digest' = [digest EXCEPT ![u] = IF realm THEN q.password ELSE None]
    BY <1>6 DEF CreateUser
  <2>2. role' = new /\ \A v \in Users : role'[v] = IF v = u THEN q.role ELSE role[v]
    BY <2>1 DEF ChangeRoles, IInv, TypeOK
  <2>3. AdminsKnown' /\ everAdmin \subseteq everAdmin'
    <3> HIDE DEF new
    <3> QED
      BY <2>1, RolesChanged
  <2>4. PasswordsAgree' /\ basic' \in [Users -> Passwords \cup {None}]
        /\ digest' \in [Users -> Passwords \cup {None}]
    BY <1>2, <2>1 DEF IInv, TypeOK, PasswordsAgree
  <2>5. TypeOK'
    <3>1. role' \in [Users -> Roles \cup {"new", "gone"}]
      BY <1>2, <2>2 DEF IInv, TypeOK
    <3>2. \A v \in Users : Present(v)' => RowThere(Home[v])'
      BY <1>1, <1>6, <2>2 DEF IInv, TypeOK, Present, RowThere
    <3> QED
      BY <1>1, <2>4, <3>1, <3>2 DEF IInv, TypeOK, counters
  <2> QED
    BY <1>3, <1>4, <2>3, <2>4, <2>5 DEF IInv
<1> QED
  BY <1>5, <1>6

LEMMA DeleteTenantInv ==
  ASSUME IInv, NEW r \in Requests, DeleteTenant(r)
  PROVE  IInv'
<1> DEFINE t == Target(r)
           dropped == {u \in Users : Home[u] = t /\ Present(u)}
           new == [u \in Users |-> IF u \in dropped THEN "gone" ELSE role[u]]
<1>1. reqs[r].pc = "authorized" /\ reqs[r].ask.kind = "deleteTenant"
      /\ UNCHANGED <<realm, night, writes>>
      /\ AfterRoles([reqs EXCEPT ![r] = Idle])
  BY DEF DeleteTenant, At
<1>2. InProgress(reqs[r]) /\ t \in Tenants
  BY <1>1, AtStep DEF TenantKinds
<1>3. SumsFit'
  BY <1>1 DEF IInv, SumsFit
<1>4. ASSUME everAdmin \subseteq everAdmin'
      PROVE  RequestsOK' /\ RequestsSound'
  <2>1. PICK n : n = Idle
    OBVIOUS
  <2>2. AfterRoles([reqs EXCEPT ![r] = n])
    BY <1>1, <2>1
  <2> QED
    BY <1>4, <2>1, <2>2, StepOfRoles
<1>5. CASE ~RowThere(t)
  <2>1. UNCHANGED <<accounts, counters, everAdmin>>
    BY <1>5 DEF DeleteTenant
  <2>2. AdminsKnown' /\ everAdmin \subseteq everAdmin'
    BY <2>1 DEF accounts, IInv, AdminsKnown
  <2>3. /\ \A v \in Users : stored'[v] \in 0..MaxBytes /\ used'[v] \in Nat
        /\ writes' \in 0..MaxWrites
    BY <1>1, <2>1 DEF IInv, TypeOK, counters
  <2> QED
    BY <1>3, <1>4, <2>1, <2>2, <2>3, AccountsKept DEF IInv
<1>6. CASE RowThere(t)
  <2>1. /\ tenant' = [tenant EXCEPT ![t] = "gone"]
        /\ ChangeRoles(new)
        /\ Cascade(dropped, {})
    BY <1>6 DEF DeleteTenant
  <2>2. /\ tenant' \in [Tenants -> {"new", "there", "bare", "gone"}] /\ tenant'[t] = "gone"
        /\ \A k \in Tenants : k # t => tenant'[k] = tenant[k]
    BY <1>2, <2>1 DEF IInv, TypeOK
  <2>3. role' = new
    BY <2>1 DEF ChangeRoles
  <2>4. AdminsKnown' /\ everAdmin \subseteq everAdmin'
    <3> HIDE DEF new, dropped
    <3> QED
      BY <2>1, RolesChanged
  <2>5. /\ basic' \in [Users -> Passwords \cup {None}]
        /\ digest' \in [Users -> Passwords \cup {None}]
        /\ linked' \in [Users -> Identities \cup {None}]
        /\ \A v \in Users : stored'[v] \in 0..MaxBytes /\ used'[v] \in Nat
        /\ PasswordsAgree'
    <3> HIDE DEF dropped
    <3> QED
      BY <2>1, DirectoryAssumption DEF Cascade, IInv, TypeOK, PasswordsAgree
  <2>6. TypeOK'
    <3>1. role' \in [Users -> Roles \cup {"new", "gone"}]
      BY <2>3 DEF IInv, TypeOK
    <3>2. \A v \in Users : Present(v)' => RowThere(Home[v])'
      BY <2>2, <2>3, DirectoryAssumption DEF IInv, TypeOK, Present, RowThere, Roles
    <3> QED
      BY <1>1, <2>2, <2>5, <3>1, <3>2 DEF IInv, TypeOK
  <2> QED
    BY <1>3, <1>4, <2>4, <2>5, <2>6 DEF IInv
<1> QED
  BY <1>5, <1>6

-----------------------------------------------------------------------------
(* The theorems *)

LEMMA InitInv == Init => IInv
<1> SUFFICES ASSUME Init PROVE IInv
  OBVIOUS
<1>1. role \in [Users -> Roles \cup {"new"}] /\ \E u \in Users : role[u] = "server_admin"
  BY StaffAssumption DEF Init
<1>2. TypeOK
  BY <1>1, DirectoryAssumption DEF Init, TypeOK, Present, RowThere, UsersOf, Roles
<1>3. RequestsOK /\ RequestsSound /\ SumsFit
  BY DEF Init, RequestsOK, RequestsSound, SumsFit
<1>4. AdminsKnown /\ PasswordsAgree
  BY DEF Init, AdminsKnown, PasswordsAgree, ServerAdmins
<1> QED
  BY <1>2, <1>3, <1>4 DEF IInv

LEMMA NextInv == IInv /\ [Next]_vars => IInv'
<1> SUFFICES ASSUME IInv, [Next]_vars PROVE IInv'
  OBVIOUS
<1>1. ASSUME NEW r \in Requests, NEW q \in Asked, Authorize(r, q) PROVE IInv'
  BY <1>1, AuthorizeInv
<1>2. ASSUME NEW r \in Requests, Proceed(r) PROVE IInv'
  BY <1>2, CheckStaysInv, LoadUserInv, SaveUserInv, DeleteUserInv, CreateUserInv,
     SetUserPasswordInv, CheckLinkInv, LinksInv, CreateTenantInv, LoadTenantInv,
     SaveTenantInv, DeleteTenantInv, SumInv, WriteSumInv DEF Proceed
<1>3. ASSUME NEW u \in Users, NEW bytes \in 0..MaxBytes, Store(u, bytes) PROVE IInv'
  BY <1>3, StoreInv
<1>4. ASSUME NEW t \in Tenants, NightSum(t) \/ NightWrite(t) PROVE IInv'
  BY <1>4, NightInv
<1>5. ASSUME NEW offered \in BOOLEAN, Restart(offered) PROVE IInv'
  BY <1>5, RestartInv
<1>6. CASE UNCHANGED vars
  BY <1>6 DEF vars, accounts, counters, IInv, TypeOK, RequestsOK, RequestsSound,
              SumsFit, AdminsKnown, PasswordsAgree, Sound, RowFits, Granted,
              Fresh, Another, ServerAdmins, Present, RowThere
<1> QED
  BY <1>1, <1>2, <1>3, <1>4, <1>5, <1>6 DEF Next

LEMMA InductiveInvariant == Spec => []IInv
  BY InitInv, NextInv, PTL DEF Spec

\* Every row has the values its columns may have, and a user who is there has
\* a tenant that is there.
THEOREM TypesAreRight == Spec => []TypeOK
<1>1. IInv => TypeOK
  BY DEF IInv
<1> QED
  BY <1>1, InductiveInvariant, PTL

\* The digest credential is of the password the basic one is of (createUser,
\* setUserPassword, deletions).
THEOREM PasswordsAlwaysAgree == Spec => []PasswordsAgree
<1>1. IInv => PasswordsAgree
  BY DEF IInv
<1> QED
  BY <1>1, InductiveInvariant, PTL

\* A step after which somebody has been a server_admin for the first time ends
\* a request of one who has been one before.
AppointedByAdmin ==
  \A u \in everAdmin' \ everAdmin :
    \E r \in Requests : /\ reqs[r] # Idle /\ reqs'[r] = Idle
                        /\ reqs[r].ask.by \in everAdmin

LEMMA RequestEnds ==
  ASSUME IInv, NEW r \in Requests, AfterRoles([reqs EXCEPT ![r] = Idle])
  PROVE  reqs'[r] = Idle
  BY DEF AfterRoles, IInv, RequestsOK

LEMMA StepAppoints == IInv /\ [Next]_vars => AppointedByAdmin
<1> SUFFICES ASSUME IInv, [Next]_vars, NEW u \in everAdmin' \ everAdmin
             PROVE  \E r \in Requests : /\ reqs[r] # Idle /\ reqs'[r] = Idle
                                        /\ reqs[r].ask.by \in everAdmin
  BY DEF AppointedByAdmin
<1>1. CASE UNCHANGED everAdmin
  BY <1>1
<1>2. ASSUME NEW r \in Requests, SaveUser(r)
      PROVE  reqs[r] # Idle /\ reqs'[r] = Idle /\ reqs[r].ask.by \in everAdmin
  <2> DEFINE v == Target(r)
             q == reqs[r].ask
             new == [role EXCEPT ![v] = IF q.role = "keep" THEN reqs[r].row.role ELSE q.role]
  <2>1. reqs[r].pc = "loaded" /\ q.kind = "patch" /\ reqs[r] # Idle /\ Sound(reqs[r])
        /\ v = q.target
    BY <1>2, AtStep DEF SaveUser, At, Target
  <2>2. reqs'[r] = Idle
    BY <1>2, RequestEnds DEF SaveUser
  <2>3. u \in Users /\ new[u] = "server_admin"
    BY <1>2 DEF SaveUser, ChangeRoles
  <2>4. u = v
    BY <2>3 DEF IInv, TypeOK, AdminsKnown
  <2>5. q.role = "server_admin"
    BY <2>1, <2>3, <2>4 DEF Sound, Granted, IInv, TypeOK
  <2> QED
    BY <2>1, <2>2, <2>5 DEF Sound, Granted
<1>3. ASSUME NEW r \in Requests, CreateUser(r)
      PROVE  reqs[r] # Idle /\ reqs'[r] = Idle /\ reqs[r].ask.by \in everAdmin
  <2> DEFINE v == Target(r)
             q == reqs[r].ask
             new == [role EXCEPT ![v] = q.role]
  <2>1. q.kind = "create" /\ reqs[r] # Idle /\ Sound(reqs[r])
    BY <1>3, AtStep DEF CreateUser, At
  <2>2. reqs'[r] = Idle
    BY <1>3, RequestEnds DEF CreateUser
  <2>3. u \in Users /\ new[u] = "server_admin"
    BY <1>3 DEF CreateUser, ChangeRoles
  <2>4. q.role = "server_admin"
    BY <2>3 DEF IInv, TypeOK, AdminsKnown
  <2> QED
    BY <2>1, <2>2, <2>4 DEF Sound, Granted
<1>4. ASSUME NEW r \in Requests, DeleteUser(r) \/ DeleteTenant(r)
      PROVE  UNCHANGED everAdmin
  <2> DEFINE dropped == {w \in Users : Home[w] = Target(r) /\ Present(w)}
  <2>1. CASE UNCHANGED everAdmin
    BY <2>1
  <2>2. CASE ChangeRoles([role EXCEPT ![Target(r)] = "gone"])
    BY <2>2 DEF ChangeRoles, IInv, TypeOK, AdminsKnown
  <2>3. CASE ChangeRoles([w \in Users |-> IF w \in dropped THEN "gone" ELSE role[w]])
    <3> HIDE DEF dropped
    <3> QED
      BY <2>3 DEF ChangeRoles, IInv, AdminsKnown
  <2> QED
    BY <1>4, <2>1, <2>2, <2>3 DEF DeleteUser, DeleteTenant
<1>5. ASSUME NEW r \in Requests, Proceed(r),
             ~(SaveUser(r) \/ CreateUser(r) \/ DeleteUser(r) \/ DeleteTenant(r))
      PROVE  UNCHANGED everAdmin
  BY <1>5 DEF Proceed, CheckStays, LoadUser, SetUserPassword, CheckLink, InsertLink,
              UnlinkOAuth2Identity, CreateTenant, LoadTenant, SaveTenant, Sum, WriteSum
<1>6. ASSUME NEW r \in Requests, NEW q \in Asked, Authorize(r, q) PROVE UNCHANGED everAdmin
  BY <1>6 DEF Authorize
<1>7. ASSUME NEW w \in Users, NEW bytes \in 0..MaxBytes, Store(w, bytes)
      PROVE  UNCHANGED everAdmin
  BY <1>7 DEF Store
<1>8. ASSUME NEW t \in Tenants, NightSum(t) \/ NightWrite(t) PROVE UNCHANGED everAdmin
  BY <1>8 DEF NightSum, NightWrite
<1>9. ASSUME NEW offered \in BOOLEAN, Restart(offered) PROVE UNCHANGED everAdmin
  BY <1>9 DEF Restart
<1>10. UNCHANGED vars => UNCHANGED everAdmin
  BY DEF vars
<1> QED
  BY <1>1, <1>2, <1>3, <1>4, <1>5, <1>6, <1>7, <1>8, <1>9, <1>10 DEF Next

\* Nobody becomes a server_admin for the first time but by one who has been
\* one, whatever overlaps (the escalation rules of the user routes).
THEOREM OnlyAdminsAppoint == Spec => Appointed
<1>1. Spec => [][AppointedByAdmin]_vars
  BY StepAppoints, InductiveInvariant, PTL DEF Spec
<1> QED
  BY <1>1 DEF Appointed, AppointedByAdmin

\* When the last server_admin goes, then in a step of one of these requests.
AdminGoesBy ==
  LastAdminGoes => \E r \in Acting : reqs[r].ask.kind = "deleteTenant" \/ reqs[r].late

\* A change of a user that is not late leaves another server_admin behind.
LEMMA SaveLeavesOne ==
  ASSUME IInv, NEW r \in Requests, SaveUser(r), ~reqs[r].late
  PROVE  ~LastAdminGoes
<1> DEFINE u == Target(r)
           q == reqs[r].ask
           new == [role EXCEPT ![u] = IF q.role = "keep" THEN reqs[r].row.role ELSE q.role]
<1>1. reqs[r].pc = "loaded" /\ q.kind = "patch"
  BY DEF SaveUser, At
<1>2. Sound(reqs[r]) /\ u \in Users /\ u = q.target
  BY <1>1, AtStep DEF UserKinds, Target
<1>3. role' = role \/ role' = new
  BY DEF SaveUser, ChangeRoles
<1>4. \A v \in Users : new[v] = IF v = u THEN (IF q.role = "keep" THEN reqs[r].row.role ELSE q.role)
                               ELSE role[v]
  BY DEF IInv, TypeOK
<1> HIDE DEF new
<1>5. CASE role' = role
  BY <1>5 DEF LastAdminGoes, ServerAdmins
<1>6. CASE role' = new
  <2>1. \A v \in ServerAdmins : v # u => v \in ServerAdmins'
    BY <1>4, <1>6 DEF ServerAdmins
  <2>2. CASE u \notin ServerAdmins
    BY <2>1, <2>2 DEF LastAdminGoes
  <2>3. CASE u \in ServerAdmins /\ Another(u)
    BY <2>1, <2>3 DEF LastAdminGoes, Another
  <2>4. CASE u \in ServerAdmins /\ ~Another(u)
    <3>1. reqs[r].wasAdmin /\ reqs[r].row.role = "server_admin" /\ ~TakesAdmin(q)
      BY <1>1, <1>2, <2>4 DEF Sound, Fresh
    <3>2. new[u] = "server_admin"
      BY <1>1, <1>2, <1>4, <3>1 DEF TakesAdmin
    <3> QED
      BY <1>2, <1>6, <3>2 DEF LastAdminGoes, ServerAdmins
  <2> QED
    BY <2>2, <2>3, <2>4
<1> QED
  BY <1>3, <1>5, <1>6

\* Nor does a deletion.
LEMMA DeletionLeavesOne ==
  ASSUME IInv, NEW r \in Requests, DeleteUser(r), ~reqs[r].late
  PROVE  ~LastAdminGoes
<1> DEFINE u == Target(r)
<1>1. reqs[r].pc = "checked" /\ reqs[r].ask.kind = "delete"
  BY DEF DeleteUser, At
<1>2. Sound(reqs[r]) /\ u \in Users /\ u = reqs[r].ask.target
  BY <1>1, AtStep DEF UserKinds, Target
<1>3. role' = role \/ role' = [role EXCEPT ![u] = "gone"]
  BY DEF DeleteUser, ChangeRoles
<1>4. \A v \in ServerAdmins : v # u => v \in ServerAdmins'
  BY <1>3 DEF ServerAdmins, IInv, TypeOK
<1>5. CASE u \notin ServerAdmins
  BY <1>4, <1>5 DEF LastAdminGoes
<1>6. CASE u \in ServerAdmins
  <2>1. Another(u)
    BY <1>1, <1>2, <1>6 DEF Sound, Fresh, TakesAdmin
  <2> QED
    BY <1>4, <2>1 DEF LastAdminGoes, Another
<1> QED
  BY <1>5, <1>6

LEMMA StepKeepsAdmin == IInv /\ [Next]_vars => AdminGoesBy
<1> SUFFICES ASSUME IInv, [Next]_vars, LastAdminGoes
             PROVE  \E r \in Acting : reqs[r].ask.kind = "deleteTenant" \/ reqs[r].late
  BY DEF AdminGoesBy
<1>1. role' # role
  BY DEF LastAdminGoes, ServerAdmins
<1>2. ASSUME NEW r \in Requests, NEW n, reqs[r].pc \in {"loaded", "checked", "authorized"},
             n = reqs'[r], n.pc \in {"idle", "recompute"},
             reqs[r].ask.kind = "deleteTenant" \/ reqs[r].late
      PROVE  \E s \in Acting : reqs[s].ask.kind = "deleteTenant" \/ reqs[s].late
  BY <1>2 DEF Acting, Idle
<1>3. Idle.pc = "idle"
  BY DEF Idle
<1>4. ASSUME NEW r \in Requests, SaveUser(r)
      PROVE  \E s \in Acting : reqs[s].ask.kind = "deleteTenant" \/ reqs[s].late
  <2>1. reqs[r].pc = "loaded" /\ reqs'[r] = Idle
    BY <1>4, RequestEnds DEF SaveUser, At
  <2>2. reqs[r].late
    BY <1>4, SaveLeavesOne
  <2> QED
    BY <1>2, <1>3, <2>1, <2>2
<1>5. ASSUME NEW r \in Requests, DeleteUser(r)
      PROVE  \E s \in Acting : reqs[s].ask.kind = "deleteTenant" \/ reqs[s].late
  <2>1. reqs[r].pc = "checked" /\ reqs[r].late /\ InProgress(reqs[r])
    BY <1>5, DeletionLeavesOne, AtStep DEF DeleteUser, At
  <2> DEFINE n == [reqs[r] EXCEPT !.pc = "recompute"]
  <2>2. n.pc = "recompute" /\ n # Idle /\ InProgress(n)
    BY <2>1, GoingOn, InProgressType DEF Pcs
  <2>3. AfterRoles([reqs EXCEPT ![r] = n])
    BY <1>1, <1>5 DEF DeleteUser
  <2>4. \E m : m = reqs'[r] /\ (m = n \/ m = [n EXCEPT !.late = TRUE])
    <3> HIDE DEF n
    <3> QED
      BY <2>3 DEF AfterRoles, IInv, RequestsOK
  <2>5. PICK m : m = reqs'[r] /\ m.pc = "recompute"
    <3> HIDE DEF n
    <3> QED
      BY <2>2, <2>4, GoingOnLate
  <2> QED
    BY <1>2, <2>1, <2>5
<1>6. ASSUME NEW r \in Requests, DeleteTenant(r)
      PROVE  \E s \in Acting : reqs[s].ask.kind = "deleteTenant" \/ reqs[s].late
  <2>1. reqs[r].pc = "authorized" /\ reqs[r].ask.kind = "deleteTenant" /\ reqs'[r] = Idle
    BY <1>6, RequestEnds DEF DeleteTenant, At
  <2> QED
    BY <1>2, <1>3, <2>1
<1>7. ASSUME NEW r \in Requests, CreateUser(r)
      PROVE  FALSE
  <2>1. role' = role \/ (role[Target(r)] = "new" /\ role' = [role EXCEPT ![Target(r)] = reqs[r].ask.role])
    BY <1>7 DEF CreateUser, ChangeRoles
  <2>2. ServerAdmins \subseteq ServerAdmins'
    BY <2>1 DEF ServerAdmins, IInv, TypeOK
  <2> QED
    BY <2>2 DEF LastAdminGoes
<1>8. ASSUME NEW r \in Requests, Proceed(r),
             ~(SaveUser(r) \/ CreateUser(r) \/ DeleteUser(r) \/ DeleteTenant(r))
      PROVE  FALSE
  BY <1>1, <1>8 DEF Proceed, CheckStays, LoadUser, SetUserPassword, CheckLink, InsertLink,
                    UnlinkOAuth2Identity, CreateTenant, LoadTenant, SaveTenant, Sum, WriteSum,
                    accounts
<1>9. ASSUME NEW r \in Requests, NEW q \in Asked, Authorize(r, q) PROVE FALSE
  BY <1>1, <1>9 DEF Authorize, accounts
<1>10. ASSUME NEW w \in Users, NEW bytes \in 0..MaxBytes, Store(w, bytes) PROVE FALSE
  BY <1>1, <1>10 DEF Store, accounts
<1>11. ASSUME NEW t \in Tenants, NightSum(t) \/ NightWrite(t) PROVE FALSE
  BY <1>1, <1>11 DEF NightSum, NightWrite, accounts
<1>12. ASSUME NEW offered \in BOOLEAN, Restart(offered) PROVE FALSE
  BY <1>1, <1>12 DEF Restart, accounts
<1>13. ~UNCHANGED vars
  BY <1>1 DEF vars, accounts
<1> QED
  BY <1>4, <1>5, <1>6, <1>7, <1>8, <1>9, <1>10, <1>11, <1>12, <1>13 DEF Next

\* The last server_admin goes only with the tenant, or by a PATCH or DELETE of a
\* user since whose check another server_admin has gone or its target has become
\* one: whatever else comes between a check and the change it was for, deleted
\* tenants included, the count that was checked still holds.
THEOREM AnAdminAlwaysStays == Spec => AdminStays
<1>1. Spec => [][AdminGoesBy]_vars
  BY StepKeepsAdmin, InductiveInvariant, PTL DEF Spec
<1> QED
  BY <1>1 DEF AdminStays, AdminGoesBy

=============================================================================
