----------------------------- MODULE CalendarLocks -----------------------------
(***************************************************************************)
(* Locks on one calendar and the objects in it.                            *)
(*                                                                         *)
(* Unlike LOCK on files, a new lock is checked and inserted in a           *)
(* transaction that holds the database lock on the calendar row, the row   *)
(* every write to an object of the calendar locks first.  A refresh and an *)
(* UNLOCK do not take it, and PUT and DELETE check locks before they do.   *)
(* Each read and each transaction is a step; a calendar that is deleted    *)
(* does not come back (MKCALENDAR makes another one).                      *)
(***************************************************************************)
EXTENDS LockRules

CONSTANTS Clients,
          Unlockers,     \* clients with the privilege DAV:unlock
          Procs,         \* requests the server works on at a time
          Nobody,        \* no request
          Objects,       \* names objects may have
          CalendarName,
          Requests,      \* requests clients may send
          MaxNow,        \* bound on the clock
          MaxRow,        \* bound on the ids of rows
          MaxRequests    \* bound on the requests sent

Calendar == 1            \* id of the calendar's row
NoRow == 0

LockOps == {"LOCK", "REFRESH", "UNLOCK"}
WriteOps == {"PUT", "DELETE"}
Names == Objects \cup {CalendarName}

ASSUME NameAssumption == CalendarName \notin Objects
ASSUME ProcAssumption == Nobody \notin Procs
ASSUME BoundAssumption == MaxNow \in Nat /\ MaxRow \in Nat /\ MaxRequests \in Nat
ASSUME RequestAssumption ==
  Requests \subseteq [op : LockOps \cup WriteOps, client : Clients, name : Names,
                      scope : Scopes, depth : Depths,
                      timeout : Nat \cup {NoTimeout}]

VARIABLES row,       \* row[name]: id of the row of that name, or NoRow
          nextRow,
          locks,     \* rows of calendar_locks and calendar_object_locks
          granted,   \* the tokens sent to clients: <<token, client>>
          nextToken,
          now,       \* the clock
          rowLock,   \* the request that holds the database lock on the calendar
          proc,      \* the requests in progress
          sent,      \* how many requests were sent
          revived    \* history: the tokens of locks a refresh extended once they had expired

vars == <<row, nextRow, locks, granted, nextToken, now, rowLock, proc, sent, revived>>

Rows == {row[name] : name \in Names} \ {NoRow}
Alive == row[CalendarName] = Calendar
Members == Rows \ {Calendar}
Active(l) == IsActive(l, now)

\* getEffectiveCalendarLocks: own locks and, of an object, those of infinite
\* depth of its calendar.
EffectiveLocks(id) ==
  {l \in locks : Active(l) /\ (l.target = id \/ (l.target = Calendar /\ l.depth = "infinity"))}

-----------------------------------------------------------------------------
(* Requests in progress.                                                   *)

NoLock == Lock(0, NoRow, Nobody, "shared", "zero", 0)

\* target: the row looked up; unchecked: objects whose locks are still to be
\* looked at; expires: of the new lock; lock: the one that was matched; seen and
\* found: the last token and the row of that name at the time of the check.
Idle ==
  [pc |-> "idle", req |-> Nobody, tokens |-> {}, target |-> NoRow, unchecked |-> {},
   expires |-> 0, lock |-> NoLock, seen |-> 0, found |-> NoRow]

OwnTokens(c) == {g[1] : g \in {g \in granted : g[2] = c}}

Begin(p, w) ==
  /\ proc[p].pc = "idle" /\ sent < MaxRequests
  /\ proc' = [proc EXCEPT ![p] = w]
  /\ sent' = sent + 1
  /\ UNCHANGED <<row, nextRow, locks, granted, nextToken, now, rowLock, revived>>

\* The next step of a request, which touches no table.
Continue(p, w) ==
  /\ proc' = [proc EXCEPT ![p] = w]
  /\ UNCHANGED <<row, nextRow, locks, granted, nextToken, now, sent, revived>>

Finish(p) ==
  /\ proc' = [proc EXCEPT ![p] = Idle]
  /\ UNCHANGED <<now, sent>>

\* A refusal, an error, a lost connection or a crash: the transaction, if one
\* is open, is rolled back.
GiveUp(p) ==
  /\ proc[p].pc # "idle"
  /\ Continue(p, Idle)
  /\ rowLock' = IF rowLock = p THEN Nobody ELSE rowLock

-----------------------------------------------------------------------------
(* LOCK.                                                                   *)

\* The time a lock expires is set before the wait for the calendar row.
LookupForLock(p) ==
  \E r \in Requests :
    /\ r.op = "LOCK" /\ row[r.name] # NoRow
    /\ Begin(p, [Idle EXCEPT !.pc = "waiting", !.req = r, !.target = row[r.name],
                             !.expires = now + GrantLockTimeout(r.timeout)])

LockCalendarRow_Mutant(p) == rowLock' = rowLock

LockCalendarRow(p) == rowLock = Nobody /\ rowLock' = p

Wait(p) ==
  /\ proc[p].pc = "waiting" /\ Alive
  /\ LockCalendarRow(p)
  /\ Continue(p, [proc[p] EXCEPT !.pc = "locked"])

LocksMembers(w) == w.target = Calendar /\ w.req.depth = "infinity"

CheckOwnLocks(p) ==
  LET w == proc[p] IN
  /\ w.pc = "locked"
  /\ ~WouldConflict(EffectiveLocks(w.target), w.req.scope)
  /\ Continue(p, [w EXCEPT !.pc = "checking",
                           !.unchecked = IF LocksMembers(w) THEN Members ELSE {}])
  /\ UNCHANGED rowLock

\* subtreeHasConflict, one object of those it has listed.
CheckMember(p) ==
  LET w == proc[p] IN
  /\ w.pc = "checking"
  /\ \E o \in w.unchecked :
       /\ ~WouldConflict(EffectiveLocks(o), w.req.scope)
       /\ Continue(p, [w EXCEPT !.unchecked = w.unchecked \ {o}])
  /\ UNCHANGED rowLock

NewLock(w) ==
  Lock(nextToken, w.target, w.req.client, w.req.scope,
       IF w.target = Calendar THEN w.req.depth ELSE "zero", w.expires)

\* A foreign key refuses a lock on a row that is gone.
Grant(p) ==
  LET w == proc[p] IN
  /\ w.pc = "checking" /\ w.unchecked = {} /\ w.target \in Rows
  /\ locks' = locks \cup {NewLock(w)}
  /\ granted' = granted \cup {<<nextToken, w.req.client>>}
  /\ nextToken' = nextToken + 1
  /\ rowLock' = Nobody
  /\ Finish(p)
  /\ UNCHANGED <<row, nextRow, revived>>

-----------------------------------------------------------------------------
(* Refresh and UNLOCK: two statements, not under the calendar row's lock.  *)

LookupForToken(p) ==
  \E r \in Requests, t \in 1..(nextToken - 1) :
    /\ r.op \in {"REFRESH", "UNLOCK"} /\ row[r.name] # NoRow
    /\ Begin(p, [Idle EXCEPT !.pc = "found", !.req = r, !.tokens = {t}, !.target = row[r.name]])

\* Only its holder may refresh a lock, others may remove one with DAV:unlock.
MatchLock(p) ==
  LET w == proc[p] IN
  /\ w.pc = "found"
  /\ \E l \in EffectiveLocks(w.target) :
       /\ l.token \in w.tokens
       /\ \/ l.holder = w.req.client
          \/ w.req.op = "UNLOCK" /\ w.req.client \in Unlockers
       /\ Continue(p, [w EXCEPT !.pc = "matched", !.lock = l])
  /\ UNCHANGED rowLock

\* save() of the lock at hand would insert it when it is gone.
PersistRefreshedTimeout_Mutant(lock, expires) ==
  {l \in locks : l.token # lock.token} \cup {[lock EXCEPT !.expires = expires]}

\* UPDATE by id.
PersistRefreshedTimeout(lock, expires) ==
  {IF l.token = lock.token THEN [l EXCEPT !.expires = expires] ELSE l : l \in locks}

Refresh(p) ==
  LET w == proc[p] IN
  /\ w.pc = "matched" /\ w.req.op = "REFRESH"
  /\ locks' = PersistRefreshedTimeout(w.lock, now + GrantLockTimeout(w.req.timeout))
  /\ revived' = revived \cup {l.token : l \in {k \in locks : k.token = w.lock.token /\ ~Active(k)}}
  /\ Finish(p)
  /\ UNCHANGED <<row, nextRow, granted, nextToken, rowLock>>

\* DELETE by id.
Unlock(p) ==
  LET w == proc[p] IN
  /\ w.pc = "matched" /\ w.req.op = "UNLOCK"
  /\ locks' = {l \in locks : l.token # w.lock.token}
  /\ Finish(p)
  /\ UNCHANGED <<row, nextRow, granted, nextToken, rowLock, revived>>

-----------------------------------------------------------------------------
(* PUT and DELETE.                                                         *)

\* An object that is not there is not looked for again, nor is its calendar.
CheckedForDelete(r) ==
  IF r.name = CalendarName THEN {Calendar}
  ELSE IF row[r.name] = NoRow THEN {} ELSE {row[r.name], Calendar}

CheckedForPut_Mutant(r) == {row[r.name]}

\* The object, or the calendar that is to get one.
CheckedForPut(r) == {IF row[r.name] = NoRow THEN Calendar ELSE row[r.name]}

CheckedRows(r) == IF r.op = "PUT" THEN CheckedForPut(r) ELSE CheckedForDelete(r)

Enforce(p) ==
  /\ Alive
  /\ \E r \in Requests : \E tokens \in {{}, OwnTokens(r.client)} :
       /\ r.op \in WriteOps
       /\ r.op = "PUT" => r.name \in Objects
       /\ \A id \in CheckedRows(r) : HasValidLockToken(EffectiveLocks(id), tokens)
       /\ Begin(p, [Idle EXCEPT !.pc = "enforced", !.req = r, !.tokens = tokens,
                                !.seen = nextToken - 1, !.found = row[r.name]])

\* The handler looks the object up again.
LookupForWrite(p) ==
  LET w == proc[p] IN
  /\ w.pc = "enforced" /\ Alive
  /\ w.req.op = "DELETE" => row[w.req.name] # NoRow
  /\ Continue(p, [w EXCEPT !.pc = "writing", !.target = row[w.req.name]])
  /\ UNCHANGED rowLock

\* recordChange comes first: it needs the calendar row, and locks it.
Writing(p, op) ==
  /\ proc[p].pc = "writing" /\ proc[p].req.op = op
  /\ rowLock = Nobody /\ Alive

CreateObject(name) ==
  /\ row[name] = NoRow /\ nextRow <= MaxRow
  /\ row' = [row EXCEPT ![name] = nextRow]
  /\ nextRow' = nextRow + 1
  /\ UNCHANGED <<locks, granted, nextToken, rowLock, revived>>

\* deleteCalendarObject: the locks of the object, then the object.
RemoveObject(id) ==
  /\ locks' = {l \in locks : l.target # id}
  /\ row' = [name \in Names |-> IF row[name] = id THEN NoRow ELSE row[name]]
  /\ UNCHANGED <<nextRow, granted, nextToken, rowLock, revived>>

PutCreate(p) ==
  /\ Writing(p, "PUT") /\ proc[p].target = NoRow
  /\ CreateObject(proc[p].req.name)
  /\ Finish(p)

PutOverwrite(p) ==
  /\ Writing(p, "PUT") /\ proc[p].target \in Rows
  /\ Finish(p)
  /\ UNCHANGED <<row, nextRow, locks, granted, nextToken, rowLock, revived>>

Delete(p) ==
  /\ Writing(p, "DELETE") /\ proc[p].target \in Members
  /\ RemoveObject(proc[p].target)
  /\ Finish(p)

\* Everything of the calendar goes by ON DELETE CASCADE.
DeleteCalendar(p) ==
  /\ Writing(p, "DELETE") /\ proc[p].target = Calendar
  /\ row' = [name \in Names |-> NoRow]
  /\ locks' = {}
  /\ Finish(p)
  /\ UNCHANGED <<nextRow, granted, nextToken, rowLock, revived>>

\* Scheduling files, replaces and removes objects without a look at locks.
Deliver ==
  /\ rowLock = Nobody /\ Alive
  /\ \/ \E name \in Objects : CreateObject(name)
     \/ \E id \in Members : RemoveObject(id)
  /\ UNCHANGED <<now, proc, sent>>

-----------------------------------------------------------------------------
Tick ==
  /\ now < MaxNow
  /\ now' = now + 1
  /\ UNCHANGED <<row, nextRow, locks, granted, nextToken, rowLock, proc, sent, revived>>

Init ==
  /\ row = [name \in Names |-> IF name = CalendarName THEN Calendar ELSE NoRow]
  /\ nextRow = Calendar + 1
  /\ locks = {} /\ granted = {} /\ nextToken = 1
  /\ now = 0
  /\ rowLock = Nobody
  /\ proc = [p \in Procs |-> Idle]
  /\ sent = 0
  /\ revived = {}

Locking(p) ==
  \/ LookupForLock(p) \/ Wait(p) \/ CheckOwnLocks(p) \/ CheckMember(p) \/ Grant(p)
  \/ LookupForToken(p) \/ MatchLock(p) \/ Refresh(p) \/ Unlock(p)

Changing(p) ==
  \/ Enforce(p) \/ LookupForWrite(p)
  \/ PutCreate(p) \/ PutOverwrite(p) \/ Delete(p) \/ DeleteCalendar(p)

Next == Tick \/ Deliver \/ \E p \in Procs : Locking(p) \/ Changing(p) \/ GiveUp(p)

Spec == Init /\ [][Next]_vars

-----------------------------------------------------------------------------
(* Properties.                                                             *)

LockType ==
  [token : Nat, target : Nat, holder : Clients \cup {Nobody}, scope : Scopes,
   depth : Depths, expires : Nat]

ProcType ==
  [pc : {"idle", "waiting", "locked", "checking", "found", "matched", "enforced", "writing"},
   req : Requests \cup {Nobody}, tokens : SUBSET Nat, target : Nat, unchecked : SUBSET Nat,
   expires : Nat, lock : LockType, seen : Nat, found : Nat]

RowsOK ==
  /\ row \in [Names -> Nat] /\ nextRow \in Nat /\ nextRow > Calendar
  /\ row[CalendarName] \in {NoRow, Calendar}
  /\ \A name \in Objects : row[name] = NoRow \/ row[name] \in (Calendar + 1)..(nextRow - 1)

\* Every lock is on a row that exists, has a token of its own that its holder
\* was sent, and never lasts longer than the longest time that is granted.
LocksOK ==
  /\ locks \subseteq LockType
  /\ \A l \in locks :
       /\ l.target \in Rows
       /\ <<l.token, l.holder>> \in granted
       /\ l.expires <= now + MaxTimeout
  /\ \A l, k \in locks : l.token = k.token => l = k

CountersOK ==
  /\ nextToken \in Nat \ {0} /\ granted \subseteq (1..(nextToken - 1)) \X Clients
  /\ now \in 0..MaxNow /\ sent \in 0..MaxRequests
  /\ revived \subseteq Nat

ProcsOK ==
  /\ rowLock \in Procs \cup {Nobody}
  /\ proc \in [Procs -> ProcType]

TypeOK == RowsOK /\ LocksOK /\ CountersOK /\ ProcsOK

\* Both cover a resource (LockDepth: "also to every descendant").
Overlap(l, k) ==
  \/ l.target = k.target
  \/ \E m \in {l, k} : m.target = Calendar /\ m.depth = "infinity"

\* In effect ever since it was granted.
Standing(l) == Active(l) /\ l.token \notin revived

\* Of several requests for one resource exactly one is granted an exclusive
\* lock, and no other lock covers what that one covers (caldav/lock.route.ts:
\* the check and the insert are one unit under the calendar row's lock).  The
\* locks that a refresh has extended after they had expired are left out.
OneExclusiveLock ==
  \A l, k \in locks :
    Standing(l) /\ Standing(k) /\ l # k /\ Overlap(l, k) => "exclusive" \notin {l.scope, k.scope}

\* The rows whose locks the routes' documentation asks a token for: the object
\* that is overwritten, the calendar that gets one, both for a DELETE.
Written(w) ==
  CASE w.req.op = "DELETE" -> {w.target, Calendar}
    [] w.target = NoRow    -> {Calendar}
    [] OTHER               -> {w.target}

\* The request shows its token, or nobody could have asked it to: the lock was
\* granted, or extended though it had expired, after the check.
Covered(l, w) == l.token \in w.tokens \/ l.token > w.seen \/ l.token \in revived

\* A lock on the calendar that the check does not look at, because the object
\* was made after it (a DELETE of what was not there) or removed after it (a PUT
\* that was to overwrite, which looks at the calendar's deep locks only).
Missed(l, w) ==
  /\ l.target = Calendar
  /\ IF w.req.op = "DELETE"
       THEN w.found = NoRow
       ELSE w.found # NoRow /\ w.target = NoRow /\ l.depth = "zero"

\* The locks in effect on what a request is to write that no token of its covers.
Overlooked(w) ==
  {l \in UNION {EffectiveLocks(id) : id \in Written(w)} : ~Covered(l, w)}

\* A request that is about to write shows the token of every lock on what it
\* writes, the calendar of an object it makes or removes included, though PUT
\* and DELETE check before the transaction and look the object up once more: all
\* they overlook is a lock on the calendar, when the object has come or gone in
\* between.
NothingOverlooked ==
  \A p \in Procs : proc[p].pc = "writing" => \A l \in Overlooked(proc[p]) : Missed(l, proc[p])

\* What caldav/delete.route.ts and caldav/put.route.ts document: "a covering
\* If-header token is required for a lock on the object or its calendar", for a
\* locked calendar on create.
TokensRequired ==
  \A p \in Procs : proc[p].pc = "writing" => Overlooked(proc[p]) = {}

\* A lock that was removed, or went with its resource, never comes back, and of
\* a lock nothing ever changes but the time it expires.
LocksNeverReturn ==
  [][\A l \in locks' :
       \/ l.token >= nextToken
       \/ \E k \in locks : l = [k EXCEPT !.expires = l.expires]]_vars
=============================================================================
