----------------------------- MODULE Directory -----------------------------
(***************************************************************************)
(* Tenants, users, their credentials and the quota counters on their rows, *)
(* as the admin API and the nightly reconciliation change them.  A request *)
(* checks its requester and its target in queries of their own and acts    *)
(* later: on a row loaded by then and saved as a whole, or in a            *)
(* transaction, which is one step here.  The files themselves are in       *)
(* FileTree; here a user only has a number of bytes.                       *)
(***************************************************************************)
EXTENDS Integers, FiniteSets, FiniteSetsExt

CONSTANTS Users, Tenants,
          Home,       \* [Users -> Tenants]
          First,      \* the user the bootstrap makes, who owns the root collection
          Passwords, Identities,
          Before,     \* the password users have at first
          None,
          Staff,      \* bound: the roles there may be at first
          Requests,   \* requests that may be in progress at once
          Asked,      \* bound: what is asked for
          MaxBytes,   \* bound: of a user
          MaxWrites   \* bound: requests, uploads and restarts

ASSUME DirectoryAssumption ==
  /\ IsFiniteSet(Users)
  /\ Home \in [Users -> Tenants] /\ First \in Users
  /\ Before \in Passwords /\ None \notin Passwords \cup Identities
  /\ MaxBytes \in Nat /\ MaxWrites \in Nat

VARIABLES tenant,      \* [Tenants -> "new" | "there" | "bare" | "gone"]; bare
                       \* has no special principals
          role,        \* [Users -> role | "new" | "gone"]
          basic,       \* [Users -> the password the basic credential is of]
          digest,      \* the same of the digest credential
          linked,      \* [Users -> external identity]
          realm,       \* whether this server offers Digest
          stored,      \* [Users -> bytes there are]
          used,        \* [Users -> bytes counted]
          tenantUsed,  \* [Tenants -> bytes counted]
          night,       \* [Tenants -> sums of the nightly reconciliation]
          reqs,        \* requests to the admin API
          everAdmin,   \* history: who was a server_admin at some time
          writes       \* requests, uploads and restarts so far

accounts == <<tenant, role, basic, digest, linked>>
counters == <<stored, used, tenantUsed>>
vars == <<accounts, realm, counters, night, reqs, everAdmin, writes>>

Roles == {"member", "tenant_admin", "server_admin"}
Present(u) == role[u] \in Roles
RowThere(t) == tenant[t] \in {"there", "bare"}
UsersOf(t) == {u \in Users : Present(u) /\ Home[u] = t}
ServerAdmins == {u \in Users : role[u] = "server_admin"}
CountUsersWithRole(r) == Cardinality({u \in Users : role[u] = r})

Idle == [pc |-> "idle"]
At(r, pc, kind) == reqs[r].pc = pc /\ reqs[r].ask.kind = kind
Target(r) == reqs[r].ask.target
Goto(r, pc) == reqs' = [reqs EXCEPT ![r].pc = pc]
End(r) == reqs' = [reqs EXCEPT ![r] = Idle]
Busy == Cardinality({r \in Requests : reqs[r] # Idle})

UserKinds == {"patch", "delete", "password", "link", "unlink"}
TenantKinds == {"createTenant", "updateTenant", "deleteTenant"}

\* Bodies are validated first: a user is created with a role, a change of one
\* may keep it.
ASSUME AskedAssumption ==
  \A q \in Asked :
    \/ q \in [kind : UserKinds \cup {"create"}, by : Users, target : Users,
             role : Roles \cup {"keep"}, password : Passwords, identity : Identities]
       /\ (q.kind = "create" => q.role \in Roles)
    \/ q \in [kind : TenantKinds \cup {"recompute"}, by : Users, target : Tenants,
             role : Roles \cup {"keep"}, password : Passwords, identity : Identities]

\* The bootstrap makes a server_admin.
ASSUME StaffAssumption ==
  \A staff \in Staff :
    /\ staff \in [Users -> Roles \cup {"new"}]
    /\ \E u \in Users : staff[u] = "server_admin"

-----------------------------------------------------------------------------
(* What a handler checks before it acts; a refused request leaves no trace. *)

\* requireAdminRole: a tenant_admin only in the own tenant.
AdminOf(by, t) ==
  role[by] = "server_admin" \/ (role[by] = "tenant_admin" /\ Home[by] = t)

\* Only a server_admin may grant the role or touch one who has it.
Escalates_Mutant(q) == FALSE
Escalates(q) ==
  /\ role[q.by] # "server_admin"
  /\ \/ q.role = "server_admin"
     \/ q.kind \in UserKinds /\ role[q.target] = "server_admin"

\* The routes of tenants, quotas and users, in this order.
MayCreateTenant(q) == q.kind = "createTenant" /\ role[q.by] = "server_admin"
MayUpdateTenant(q) ==
  q.kind = "updateTenant" /\ role[q.by] = "server_admin" /\ RowThere(q.target)
MayDeleteTenant(q) ==
  q.kind = "deleteTenant" /\ role[q.by] = "server_admin" /\ RowThere(q.target)
MayRecompute(q) ==
  q.kind = "recompute" /\ AdminOf(q.by, q.target) /\ RowThere(q.target)

MayCreateUser(q) ==
  /\ q.kind = "create"
  /\ AdminOf(q.by, Home[q.target]) /\ RowThere(Home[q.target])
  /\ ~Escalates(q)
MayTouch(q) == AdminOf(q.by, Home[q.target]) /\ Present(q.target) /\ ~Escalates(q)
MayPatchUser(q) == q.kind = "patch" /\ MayTouch(q)
MayDeleteUser(q) == q.kind = "delete" /\ MayTouch(q)
MaySetPassword(q) == q.kind = "password" /\ MayTouch(q)
MayLink(q) == q.kind = "link" /\ MayTouch(q)
MayUnlink(q) == q.kind = "unlink" /\ MayTouch(q)

MayAsk(q) ==
  /\ Present(q.by)
  /\ \/ MayCreateTenant(q) \/ MayUpdateTenant(q) \/ MayDeleteTenant(q) \/ MayRecompute(q)
     \/ MayCreateUser(q) \/ MayPatchUser(q) \/ MayDeleteUser(q)
     \/ MaySetPassword(q) \/ MayLink(q) \/ MayUnlink(q)

Authorize(r, q) ==
  /\ reqs[r] = Idle
  /\ writes < MaxWrites
  /\ MayAsk(q)
  /\ writes' = writes + 1
  /\ reqs' = [reqs EXCEPT ![r] =
       [pc |-> "authorized", ask |-> q, late |-> FALSE, row |-> None,
        wasAdmin |-> q.kind \in UserKinds /\ role[q.target] = "server_admin"]]
  /\ UNCHANGED <<accounts, realm, counters, night, everAdmin>>

\* A change of roles.
ChangeRoles(new) ==
  /\ role' = new
  /\ everAdmin' = everAdmin \cup {u \in Users : new[u] = "server_admin"}

\* What it means to the requests in progress (history): one is late when a
\* server_admin is no more, or its target has become one.
AfterRoles(next) ==
  reqs' = [s \in Requests |->
             IF next[s] # Idle /\ \/ ServerAdmins \ ServerAdmins' # {}
                                  \/ next[s].ask.target \in ServerAdmins' \ ServerAdmins
             THEN [next[s] EXCEPT !.late = TRUE]
             ELSE next[s]]

-----------------------------------------------------------------------------
(* PATCH and DELETE of a user *)

TakesAdmin(q) == q.kind = "delete" \/ q.role \notin {"keep", "server_admin"}

\* The last server_admin stays, and so does the owner of the root collection.
LastAdmin_Mutant(r) == reqs[r].ask.kind = "delete" /\ CountUsersWithRole("server_admin") <= 1
LastAdmin(r) == CountUsersWithRole("server_admin") <= 1
MustStay(r) ==
  \/ reqs[r].wasAdmin /\ TakesAdmin(reqs[r].ask) /\ LastAdmin(r)
  \/ reqs[r].ask.kind = "delete" /\ Target(r) = First

CheckStays(r) ==
  /\ At(r, "authorized", "patch") \/ At(r, "authorized", "delete")
  /\ IF MustStay(r) THEN End(r) ELSE Goto(r, "checked")
  /\ UNCHANGED <<accounts, realm, counters, night, everAdmin, writes>>

\* updateUser: findOneBy ...
LoadUser(r) ==
  /\ At(r, "checked", "patch")
  /\ IF Present(Target(r))
     THEN reqs' = [reqs EXCEPT ![r].pc = "loaded",
                     ![r].row = [role |-> role[Target(r)], used |-> used[Target(r)]]]
     ELSE End(r)
  /\ UNCHANGED <<accounts, realm, counters, night, everAdmin, writes>>

\* ... and save, of the role and the counter as they were loaded.  The row of a
\* user who is gone by now cannot come back: its principal is gone.
SaveUser(r) ==
  /\ At(r, "loaded", "patch")
  /\ LET u == Target(r)
         wanted == reqs[r].ask.role
     IN IF Present(u)
        THEN /\ ChangeRoles([role EXCEPT ![u] =
                  IF wanted = "keep" THEN reqs[r].row.role ELSE wanted])
             /\ used' = [used EXCEPT ![u] = reqs[r].row.used]
        ELSE UNCHANGED <<role, used, everAdmin>>
  /\ AfterRoles([reqs EXCEPT ![r] = Idle])
  /\ UNCHANGED <<tenant, basic, digest, linked, realm, stored, tenantUsed, night, writes>>

\* What the cascades leave when the users in dropped are deleted; files of
\* others in their collections may go, too.
Cascade(dropped, lost) ==
  /\ basic' = [u \in Users |-> IF u \in dropped THEN None ELSE basic[u]]
  /\ digest' = [u \in Users |-> IF u \in dropped THEN None ELSE digest[u]]
  /\ linked' = [u \in Users |-> IF u \in dropped THEN None ELSE linked[u]]
  /\ used' = [u \in Users |-> IF u \in dropped THEN 0 ELSE used[u]]
  /\ stored' = [u \in Users |-> IF u \in dropped \cup lost THEN 0 ELSE stored[u]]

DeleteUser(r) ==
  /\ At(r, "checked", "delete")
  /\ LET u == Target(r)
     IN IF Present(u)
        THEN /\ ChangeRoles([role EXCEPT ![u] = "gone"])
             /\ \E lost \in SUBSET UsersOf(Home[u]) : Cascade({u}, lost)
             /\ AfterRoles([reqs EXCEPT ![r].pc = "recompute"])
        ELSE /\ End(r)
             /\ UNCHANGED <<role, basic, digest, linked, stored, used, everAdmin>>
  /\ UNCHANGED <<tenant, realm, tenantUsed, night, writes>>

-----------------------------------------------------------------------------
(* POST of a user, passwords and external identities *)

\* createUser, one transaction; the row of the tenant must be there.
CreateUser(r) ==
  /\ At(r, "authorized", "create")
  /\ LET u == Target(r)
         q == reqs[r].ask
     IN IF role[u] = "new" /\ RowThere(Home[u])
        THEN /\ ChangeRoles([role EXCEPT ![u] = q.role])
             /\ basic' = [basic EXCEPT ![u] = q.password]
             /\ digest' = [digest EXCEPT ![u] = IF realm THEN q.password ELSE None]
        ELSE UNCHANGED <<role, basic, digest, everAdmin>>
  /\ AfterRoles([reqs EXCEPT ![r] = Idle])
  /\ UNCHANGED <<tenant, linked, realm, counters, night, writes>>

\* setUserPassword, one transaction: a digest credential that cannot be
\* renewed goes.
SetUserPassword_Mutant(r) ==
  /\ At(r, "authorized", "password")
  /\ LET u == Target(r)
         password == reqs[r].ask.password
     IN IF Present(u)
        THEN /\ basic' = [basic EXCEPT ![u] = password]
             /\ digest' = [digest EXCEPT ![u] = IF realm THEN password ELSE digest[u]]
        ELSE UNCHANGED <<basic, digest>>
  /\ End(r)
  /\ UNCHANGED <<tenant, role, linked, realm, counters, night, everAdmin, writes>>
SetUserPassword(r) ==
  /\ At(r, "authorized", "password")
  /\ LET u == Target(r)
         password == reqs[r].ask.password
     IN IF Present(u)
        THEN /\ basic' = [basic EXCEPT ![u] = password]
             /\ digest' = [digest EXCEPT ![u] = IF realm THEN password ELSE None]
        ELSE UNCHANGED <<basic, digest>>
  /\ End(r)
  /\ UNCHANGED <<tenant, role, linked, realm, counters, night, everAdmin, writes>>

\* linkOAuth2Identity: two reads, ...
CheckLink(r) ==
  /\ At(r, "authorized", "link")
  /\ IF Present(Target(r)) /\ linked[Target(r)] = None THEN Goto(r, "checked") ELSE End(r)
  /\ UNCHANGED <<accounts, realm, counters, night, everAdmin, writes>>

\* ... then the row, which a reference and two unique indexes guard.
InsertLink(r) ==
  /\ At(r, "checked", "link")
  /\ LET u == Target(r)
         identity == reqs[r].ask.identity
     IN linked' = IF Present(u) /\ linked[u] = None /\ \A v \in Users : linked[v] # identity
                  THEN [linked EXCEPT ![u] = identity]
                  ELSE linked
  /\ End(r)
  /\ UNCHANGED <<tenant, role, basic, digest, realm, counters, night, everAdmin, writes>>

UnlinkOAuth2Identity(r) ==
  /\ At(r, "authorized", "unlink")
  /\ linked' = [linked EXCEPT ![Target(r)] = None]
  /\ End(r)
  /\ UNCHANGED <<tenant, role, basic, digest, realm, counters, night, everAdmin, writes>>

-----------------------------------------------------------------------------
(* Tenants *)

CreateTenant(r) ==
  /\ At(r, "authorized", "createTenant")
  /\ tenant' = [tenant EXCEPT ![Target(r)] =
                  IF tenant[Target(r)] = "new" THEN "there" ELSE tenant[Target(r)]]
  /\ End(r)
  /\ UNCHANGED <<role, basic, digest, linked, realm, counters, night, everAdmin, writes>>

LoadTenant(r) ==
  /\ At(r, "authorized", "updateTenant")
  /\ IF RowThere(Target(r))
     THEN reqs' = [reqs EXCEPT ![r].pc = "loaded", ![r].row = [used |-> tenantUsed[Target(r)]]]
     ELSE End(r)
  /\ UNCHANGED <<accounts, realm, counters, night, everAdmin, writes>>

\* The row of a tenant deleted meanwhile comes back, without its principals.
SaveTenant(r) ==
  /\ At(r, "loaded", "updateTenant")
  /\ tenant' = [tenant EXCEPT ![Target(r)] =
                  IF tenant[Target(r)] = "gone" THEN "bare" ELSE tenant[Target(r)]]
  /\ tenantUsed' = [tenantUsed EXCEPT ![Target(r)] = reqs[r].row.used]
  /\ End(r)
  /\ UNCHANGED <<role, basic, digest, linked, realm, stored, used, night, everAdmin, writes>>

\* With all that belongs to it, its server_admins included.
DeleteTenant(r) ==
  /\ At(r, "authorized", "deleteTenant")
  /\ LET t == Target(r)
         dropped == {u \in Users : Home[u] = t /\ Present(u)}
     IN IF RowThere(t)
        THEN /\ tenant' = [tenant EXCEPT ![t] = "gone"]
             /\ tenantUsed' = [tenantUsed EXCEPT ![t] = 0]
             /\ ChangeRoles([u \in Users |-> IF u \in dropped THEN "gone" ELSE role[u]])
             /\ Cascade(dropped, {})
        ELSE UNCHANGED <<accounts, counters, everAdmin>>
  /\ AfterRoles([reqs EXCEPT ![r] = Idle])
  /\ UNCHANGED <<realm, night, writes>>

-----------------------------------------------------------------------------
(* Quota.  The sums are read user by user, and the counters visible once    *)
(* the transaction commits; uploads may commit in between.                  *)

SumsOf(t) == [u \in UsersOf(t) |-> stored[u]]
WriteSums(t, sums) ==
  /\ used' = [u \in Users |-> IF u \in DOMAIN sums /\ Present(u) THEN sums[u] ELSE used[u]]
  /\ tenantUsed' = [tenantUsed EXCEPT ![t] =
       IF RowThere(t) THEN MapThenSumSet(LAMBDA u : sums[u], DOMAIN sums) ELSE tenantUsed[t]]

\* An upload or deletion of u, which counts in its own transaction.
Store(u, bytes) ==
  /\ Present(u)
  /\ bytes # stored[u]
  /\ writes < MaxWrites
  /\ writes' = writes + 1
  /\ stored' = [stored EXCEPT ![u] = bytes]
  /\ used' = [used EXCEPT ![u] = Max({0, used[u] + bytes - stored[u]})]
  /\ tenantUsed' = [tenantUsed EXCEPT ![Home[u]] =
                      Max({0, tenantUsed[Home[u]] + bytes - stored[u]})]
  /\ UNCHANGED <<accounts, realm, night, reqs, everAdmin>>

\* recomputeQuotaForTenant, of a request: its own, or after a deletion.
Sum(r) ==
  /\ At(r, "authorized", "recompute") \/ reqs[r].pc = "recompute"
  /\ LET t == IF reqs[r].pc = "recompute" THEN Home[Target(r)] ELSE Target(r)
     IN reqs' = [reqs EXCEPT ![r].pc = "summed", ![r].row = [of |-> t, sums |-> SumsOf(t)]]
  /\ UNCHANGED <<accounts, realm, counters, night, everAdmin, writes>>
WriteSum(r) ==
  /\ reqs[r].pc = "summed"
  /\ WriteSums(reqs[r].row.of, reqs[r].row.sums)
  /\ End(r)
  /\ UNCHANGED <<accounts, realm, stored, night, everAdmin, writes>>

\* reconcileAllTenants
NightSum(t) ==
  /\ night[t] = None
  /\ RowThere(t)
  /\ night' = [night EXCEPT ![t] = SumsOf(t)]
  /\ UNCHANGED <<accounts, realm, counters, reqs, everAdmin, writes>>
NightWrite_Mutant(t) ==
  /\ night[t] # None
  /\ used' = [u \in Users |-> IF u \in DOMAIN night[t] /\ Present(u) THEN night[t][u] ELSE used[u]]
  /\ night' = [night EXCEPT ![t] = None]
  /\ UNCHANGED <<accounts, realm, stored, tenantUsed, reqs, everAdmin, writes>>
NightWrite(t) ==
  /\ night[t] # None
  /\ WriteSums(t, night[t])
  /\ night' = [night EXCEPT ![t] = None]
  /\ UNCHANGED <<accounts, realm, stored, reqs, everAdmin, writes>>

\* The server stops in the middle of everything; its configuration may change.
Restart(offered) ==
  /\ writes < MaxWrites
  /\ writes' = writes + 1
  /\ realm' = offered
  /\ reqs' = [r \in Requests |-> Idle]
  /\ night' = [t \in Tenants |-> None]
  /\ UNCHANGED <<accounts, counters, everAdmin>>

-----------------------------------------------------------------------------
\* After the bootstrap, which knows nothing of Digest, and what administrators
\* did since then.
Init ==
  /\ role \in Staff
  /\ tenant = [t \in Tenants |-> IF UsersOf(t) # {} THEN "there" ELSE "new"]
  /\ basic = [u \in Users |-> IF Present(u) THEN Before ELSE None]
  /\ \E offered \in BOOLEAN : digest = [u \in Users |->
       IF offered /\ Present(u) /\ u # First THEN Before ELSE None]
  /\ linked = [u \in Users |-> None]
  /\ realm \in BOOLEAN
  /\ stored = [u \in Users |-> 0] /\ used = stored
  /\ tenantUsed = [t \in Tenants |-> 0]
  /\ night = [t \in Tenants |-> None]
  /\ reqs = [r \in Requests |-> Idle]
  /\ everAdmin = ServerAdmins
  /\ writes = 0

Proceed(r) ==
  \/ CheckStays(r) \/ LoadUser(r) \/ SaveUser(r) \/ DeleteUser(r)
  \/ CreateUser(r) \/ SetUserPassword(r)
  \/ CheckLink(r) \/ InsertLink(r) \/ UnlinkOAuth2Identity(r)
  \/ CreateTenant(r) \/ LoadTenant(r) \/ SaveTenant(r) \/ DeleteTenant(r)
  \/ Sum(r) \/ WriteSum(r)

Next ==
  \/ \E r \in Requests : (\E q \in Asked : Authorize(r, q)) \/ Proceed(r)
  \/ \E u \in Users, bytes \in 0..MaxBytes : Store(u, bytes)
  \/ \E t \in Tenants : NightSum(t) \/ NightWrite(t)
  \/ \E offered \in BOOLEAN : Restart(offered)

\* The reconciliation runs every night, for every tenant.
Fairness == \A t \in Tenants : WF_vars(NightSum(t)) /\ WF_vars(NightWrite(t))

Spec == Init /\ [][Next]_vars /\ Fairness

-----------------------------------------------------------------------------
TypeOK ==
  /\ tenant \in [Tenants -> {"new", "there", "bare", "gone"}]
  /\ role \in [Users -> Roles \cup {"new", "gone"}]
  /\ basic \in [Users -> Passwords \cup {None}]
  /\ digest \in [Users -> Passwords \cup {None}]
  /\ linked \in [Users -> Identities \cup {None}]
  /\ \A u \in Users : Present(u) => RowThere(Home[u])
  /\ \A u \in Users : stored[u] \in 0..MaxBytes /\ used[u] \in Nat
  /\ writes \in 0..MaxWrites

\* The requests whose step this is, not one of those it makes late.
Acting == {r \in Requests : reqs[r] # Idle /\ reqs'[r].pc # reqs[r].pc}
LastAdminGoes == ServerAdmins # {} /\ ServerAdmins' = {}

\* When the last server_admin goes, then with the tenant, or by a request since
\* whose check another one has gone or its target has become one: the check of a
\* PATCH or DELETE holds for everything else that is done between it and the
\* change, a row loaded and saved as a whole included.
AdminStays ==
  [][LastAdminGoes => \E r \in Acting :
       reqs[r].ask.kind = "deleteTenant" \/ reqs[r].late]_vars

\* What user-routes.ts documents: "Neither deleting nor demoting the instance's
\* last server_admin is allowed".
LastAdminKept ==
  [][LastAdminGoes => \E r \in Acting : reqs[r].ask.kind = "deleteTenant"]_vars

\* Nobody becomes a server_admin for the first time but by one who has been
\* one, also when rows saved late bring roles back.
Appointed ==
  [][\A u \in everAdmin' \ everAdmin :
       \E r \in Requests : /\ reqs[r] # Idle /\ reqs'[r] = Idle
                           /\ reqs[r].ask.by \in everAdmin]_vars

\* A password that was replaced opens nothing: the digest credential is always
\* of the password the basic one is of, also when Digest was switched off in
\* between.
PasswordsAgree == \A u \in Users : digest[u] \in {None, basic[u]}

CountersExact ==
  /\ \A u \in Users : Present(u) => used[u] = stored[u]
  /\ \A t \in Tenants : RowThere(t) =>
       tenantUsed[t] = MapThenSumSet(LAMBDA u : stored[u], UsersOf(t))

\* Whatever deletions, rows saved late and uploads during a reconciliation did
\* to the counters: they are right again once the requests are over.
CountersCatchUp == <>[](Busy = 0) => <>[]CountersExact
=============================================================================
