-------------------------- MODULE CalendarLocksProofs --------------------------
(***************************************************************************)
(* That locks on a calendar exclude one another, that a write overlooks    *)
(* no lock but those of the calendar of an object that came or went since  *)
(* its check and that no lock comes back, for all clients, names, requests *)
(* and times.                                                              *)
(*                                                                         *)
(* The inductive invariant says of a request that holds the calendar row   *)
(* and has looked at some of the locks that none of those conflicts with   *)
(* the lock it is to insert, and of a request whose tokens were checked    *)
(* that they still cover the rows it would find now.  Both survive every   *)
(* step since the locks that stand after it stood before, but for the one  *)
(* that is granted (StepKeepsLocks), and a row that is made has no locks.  *)
(***************************************************************************)
EXTENDS CalendarLocks, TLAPS

Holding(p) == proc[p].pc \in {"locked", "checking"}

Mutex == \A p \in Procs : Holding(p) => rowLock = p

\* What a request knows of itself.
Knows(w) ==
  /\ w.pc # "idle" => w.req \in Requests
  /\ w.pc \in {"waiting", "locked", "checking"} => w.expires <= now + MaxTimeout
  /\ w.pc \in {"enforced", "writing"} => w.seen < nextToken

ProcKnows == \A p \in Procs : Knows(proc[p])

Harmless(l, w) == "exclusive" \notin {l.scope, w.req.scope}

\* A LOCK in progress has looked at this lock, or need not.
LookedAt(l, w) ==
  \/ l.target = w.target
  \/ l.target = Calendar /\ l.depth = "infinity"
  \/ LocksMembers(w) /\ l.target # Calendar /\ l.target \notin w.unchecked

Checked(w) ==
  w.pc = "checking" => \A l \in locks : Standing(l) /\ LookedAt(l, w) => Harmless(l, w)

\* A lock on the row the request finds, or one on the calendar that its check
\* was about.
Due(l, w, id) ==
  IF l.target # Calendar THEN l.target = id
  ELSE IF w.req.op = "DELETE" THEN w.found # NoRow
  ELSE w.found = NoRow \/ l.depth = "infinity"

Guarded(id, w) == \A l \in locks : Active(l) /\ Due(l, w, id) => Covered(l, w)

\* The tokens of a request that has passed the check cover the row its handler
\* would find now.
EnforcedGuarded(w) ==
  w.pc = "enforced" =>
    /\ w.req.op # "DELETE" => w.req.name \in Objects
    /\ Guarded(row[w.req.name], w)

WritingGuarded(w) ==
  w.pc = "writing" =>
    /\ w.req.op # "DELETE" => w.target # Calendar
    /\ Guarded(w.target, w)

Safe(w) == Checked(w) /\ EnforcedGuarded(w) /\ WritingGuarded(w)

Inv ==
  /\ TypeOK /\ Mutex /\ ProcKnows
  /\ OneExclusiveLock
  /\ \A p \in Procs : Safe(proc[p])

-----------------------------------------------------------------------------
(* Lemmas.                                                                 *)

\* grantLockTimeout never grants more than the maximum.
LEMMA GrantedTimeout ==
  \A r \in Requests : GrantLockTimeout(r.timeout) \in Nat /\ GrantLockTimeout(r.timeout) <= MaxTimeout
BY RequestAssumption, TimeoutAssumption, SMT DEF GrantLockTimeout, NoTimeout

\* What a request consists of.
LEMMA RequestType ==
  \A r \in Requests :
    /\ r.op \in LockOps \cup WriteOps /\ r.client \in Clients /\ r.name \in Names
    /\ r.scope \in Scopes /\ r.depth \in Depths
BY RequestAssumption

\* The initial states satisfy the invariant.
LEMMA InitInv == Init => Inv
<1> SUFFICES ASSUME Init PROVE Inv
  OBVIOUS
<1>1. RowsOK
  BY NameAssumption, SMT DEF Init, RowsOK, Names, Calendar, NoRow
<1>2. LocksOK /\ CountersOK
  <2>1. locks = {} /\ granted = {} /\ nextToken = 1 /\ now = 0 /\ sent = 0 /\ revived = {}
    BY DEF Init
  <2>2. 0 \in 0..MaxNow /\ 0 \in 0..MaxRequests /\ 1 \in Nat \ {0}
    BY BoundAssumption
  <2> QED BY <2>1, <2>2, Zenon DEF LocksOK, CountersOK
<1>3. ProcsOK
  <2>1. Idle \in ProcType
    BY SMT DEF Idle, ProcType, NoLock, Lock, LockType, NoRow, Scopes, Depths
  <2> QED BY <2>1 DEF Init, ProcsOK
<1>4. \A p \in Procs : proc[p].pc = "idle"
  BY DEF Init, Idle
<1>5. Mutex /\ ProcKnows /\ OneExclusiveLock /\ \A p \in Procs : Safe(proc[p])
  BY <1>4 DEF Mutex, Holding, ProcKnows, Knows, OneExclusiveLock, Safe, Checked, EnforcedGuarded,
              WritingGuarded, Init
<1> QED BY <1>1, <1>2, <1>3, <1>5 DEF Inv, TypeOK

-----------------------------------------------------------------------------
(* Types.                                                                  *)

LEMMA IdleType == Idle \in ProcType
BY SMT DEF Idle, ProcType, NoLock, Lock, LockType, NoRow, Scopes, Depths

LEMMA RowsAreNaturals == RowsOK => Rows \subseteq Nat /\ Members \subseteq Nat /\ \A name \in Names : row[name] \in Nat
BY SMT DEF RowsOK, Rows, Members

\* A step of LOCK, refresh or UNLOCK leaves the processes well typed.
LEMMA LockingProcs ==
  ASSUME TypeOK, ProcKnows, NEW p \in Procs, Locking(p)
  PROVE  ProcsOK'
<1> USE IdleType, RowsAreNaturals DEF TypeOK, ProcsOK
<1>0. proc[p] \in ProcType /\ p # Nobody
  BY ProcAssumption
<1>1. CASE LookupForLock(p)
  <2>1. PICK r \in Requests :
          /\ row[r.name] # NoRow
          /\ Begin(p, [Idle EXCEPT !.pc = "waiting", !.req = r, !.target = row[r.name],
                                   !.expires = now + GrantLockTimeout(r.timeout)])
    BY <1>1 DEF LookupForLock
  <2>2. row[r.name] \in Nat /\ now + GrantLockTimeout(r.timeout) \in Nat
    BY RequestType, GrantedTimeout DEF CountersOK
  <2>3. [Idle EXCEPT !.pc = "waiting", !.req = r, !.target = row[r.name],
                     !.expires = now + GrantLockTimeout(r.timeout)] \in ProcType
    BY <2>2 DEF ProcType
  <2> QED BY <2>1, <2>3 DEF Begin
<1>2. CASE Wait(p)
  <2>1. [proc[p] EXCEPT !.pc = "locked"] \in ProcType
    BY <1>0 DEF ProcType
  <2> QED BY <1>2, <2>1 DEF Wait, Continue, LockCalendarRow
<1>3. CASE CheckOwnLocks(p)
  <2>1. [proc[p] EXCEPT !.pc = "checking",
                        !.unchecked = IF LocksMembers(proc[p]) THEN Members ELSE {}] \in ProcType
    BY <1>0 DEF ProcType
  <2> QED BY <1>3, <2>1 DEF CheckOwnLocks, Continue
<1>4. CASE CheckMember(p)
  <2>1. PICK o : Continue(p, [proc[p] EXCEPT !.unchecked = proc[p].unchecked \ {o}])
    BY <1>4 DEF CheckMember
  <2>2. [proc[p] EXCEPT !.unchecked = proc[p].unchecked \ {o}] \in ProcType
    BY <1>0 DEF ProcType
  <2> QED BY <1>4, <2>1, <2>2 DEF CheckMember, Continue
<1>5. CASE Grant(p)
  BY <1>5 DEF Grant, Finish
<1>6. CASE LookupForToken(p)
  <2>1. PICK r \in Requests, t \in 1..(nextToken - 1) :
          Begin(p, [Idle EXCEPT !.pc = "found", !.req = r, !.tokens = {t}, !.target = row[r.name]])
    BY <1>6 DEF LookupForToken
  <2>2. row[r.name] \in Nat /\ t \in Nat
    BY RequestType DEF CountersOK
  <2>3. [Idle EXCEPT !.pc = "found", !.req = r, !.tokens = {t}, !.target = row[r.name]] \in ProcType
    BY <2>2 DEF ProcType
  <2> QED BY <1>6, <2>1, <2>3 DEF LookupForToken, Begin
<1>7. CASE MatchLock(p)
  <2>1. PICK l \in locks : Continue(p, [proc[p] EXCEPT !.pc = "matched", !.lock = l])
    BY <1>7 DEF MatchLock, EffectiveLocks
  <2>2. [proc[p] EXCEPT !.pc = "matched", !.lock = l] \in ProcType
    BY <1>0 DEF ProcType, LocksOK
  <2> QED BY <1>7, <2>1, <2>2 DEF MatchLock, Continue
<1>8. CASE Refresh(p) \/ Unlock(p)
  BY <1>8 DEF Refresh, Unlock, Finish
<1> QED
  BY <1>1, <1>2, <1>3, <1>4, <1>5, <1>6, <1>7, <1>8 DEF Locking

\* So does one of PUT or DELETE.
LEMMA ChangingProcs ==
  ASSUME TypeOK, ProcKnows, NEW p \in Procs, Changing(p)
  PROVE  ProcsOK'
<1> USE IdleType, RowsAreNaturals DEF TypeOK, ProcsOK
<1>0. proc[p] \in ProcType
  OBVIOUS
<1>1. CASE Enforce(p)
  <2>1. PICK r, tokens :
          /\ r \in Requests
          /\ tokens \in {{}, OwnTokens(r.client)}
          /\ Begin(p, [Idle EXCEPT !.pc = "enforced", !.req = r, !.tokens = tokens,
                                   !.seen = nextToken - 1, !.found = row[r.name]])
    BY <1>1 DEF Enforce
  <2>2. tokens \in SUBSET Nat
    <3>1. \A g \in granted : g[1] \in Nat
      BY DEF CountersOK
    <3> QED BY <2>1, <3>1 DEF OwnTokens
  <2>3. nextToken - 1 \in Nat /\ row[r.name] \in Nat
    BY <2>1, RequestType DEF CountersOK
  <2>4. [Idle EXCEPT !.pc = "enforced", !.req = r, !.tokens = tokens,
                     !.seen = nextToken - 1, !.found = row[r.name]] \in ProcType
    BY <2>1, <2>2, <2>3 DEF ProcType
  <2> QED BY <1>1, <2>1, <2>4 DEF Enforce, Begin
<1>2. CASE LookupForWrite(p)
  <2>1. row[proc[p].req.name] \in Nat
    BY <1>2, RequestType DEF LookupForWrite, ProcKnows, Knows
  <2>2. [proc[p] EXCEPT !.pc = "writing", !.target = row[proc[p].req.name]] \in ProcType
    BY <1>0, <2>1 DEF ProcType
  <2> QED BY <1>2, <2>2 DEF LookupForWrite, Continue
<1>3. CASE PutCreate(p) \/ PutOverwrite(p) \/ Delete(p) \/ DeleteCalendar(p)
  BY <1>3 DEF PutCreate, PutOverwrite, Delete, DeleteCalendar, CreateObject, RemoveObject, Finish
<1> QED
  BY <1>1, <1>2, <1>3 DEF Changing

\* The steps that touch no row of any table.
Reading(p) ==
  \/ LookupForLock(p) \/ Wait(p) \/ CheckOwnLocks(p) \/ CheckMember(p)
  \/ LookupForToken(p) \/ MatchLock(p) \/ Enforce(p) \/ LookupForWrite(p)
  \/ PutOverwrite(p) \/ GiveUp(p)

\* A reading step changes no table and not the clock.
LEMMA ReadingReads ==
  ASSUME NEW p \in Procs, Reading(p)
  PROVE  UNCHANGED <<row, nextRow, locks, granted, nextToken, now, revived>>
BY DEF Reading, LookupForLock, Wait, CheckOwnLocks, CheckMember, LookupForToken, MatchLock,
       Enforce, LookupForWrite, PutOverwrite, GiveUp, Begin, Continue, Finish

\* The rows stay well typed.
LEMMA RowsStep ==
  ASSUME RowsOK, ProcKnows, [Next]_vars
  PROVE  RowsOK'
<1>1. CASE UNCHANGED <<row, nextRow>>
  BY <1>1 DEF RowsOK
<1>2. ASSUME NEW name \in Objects, CreateObject(name) PROVE RowsOK'
  <2>1. name \in Names /\ name # CalendarName
    BY NameAssumption DEF Names
  <2> QED BY <1>2, <2>1 DEF RowsOK, CreateObject, Calendar, NoRow, Names
<1>3. ASSUME NEW id, RemoveObject(id) PROVE RowsOK'
  <2>1. \A name \in Names : row'[name] \in {row[name], NoRow}
    BY <1>3 DEF RemoveObject
  <2>2. row' \in [Names -> Nat] /\ nextRow' = nextRow
    BY <1>3 DEF RemoveObject, RowsOK, NoRow
  <2> QED BY <2>1, <2>2 DEF RowsOK, Names
<1>4. ASSUME NEW p \in Procs, DeleteCalendar(p) PROVE RowsOK'
  <2>1. \A name \in Names : row'[name] = NoRow
    BY <1>4 DEF DeleteCalendar
  <2>2. row' \in [Names -> Nat] /\ nextRow' = nextRow
    BY <1>4 DEF DeleteCalendar, NoRow
  <2> QED BY <2>1, <2>2 DEF RowsOK, Names
<1>5. ASSUME NEW p \in Procs, PutCreate(p) PROVE RowsOK'
  <2>1. proc[p].req.name \in Objects
    <3>1. proc[p].req.name \in Names
      BY <1>5, RequestType DEF PutCreate, Writing, ProcKnows, Knows
    <3> QED BY <1>5, <3>1 DEF PutCreate, Writing, Alive, CreateObject, Names, Calendar, NoRow
  <2> QED BY <1>2, <1>5, <2>1 DEF PutCreate
<1>6. ASSUME NEW p \in Procs, Delete(p) PROVE RowsOK'
  BY <1>3, <1>6 DEF Delete
<1>7. CASE Deliver
  BY <1>2, <1>3, <1>7 DEF Deliver
<1>8. ASSUME NEW p \in Procs, Grant(p) \/ Refresh(p) \/ Unlock(p) \/ Reading(p) PROVE RowsOK'
  BY <1>1, <1>8, ReadingReads DEF Grant, Refresh, Unlock
<1>9. CASE Tick \/ UNCHANGED vars
  BY <1>1, <1>9 DEF Tick, vars
<1> QED
  BY <1>4, <1>5, <1>6, <1>7, <1>8, <1>9 DEF Next, Locking, Changing, Reading

\* The tokens of locks were granted before.
LEMMA TokensAreOld ==
  ASSUME TypeOK
  PROVE  \A l \in locks : l.token \in Nat /\ l.token < nextToken
<1> SUFFICES ASSUME NEW l \in locks PROVE l.token \in Nat /\ l.token < nextToken
  OBVIOUS
<1>1. <<l.token, l.holder>> \in (1..(nextToken - 1)) \X Clients
  BY DEF TypeOK, LocksOK, CountersOK
<1>2. l.token \in 1..(nextToken - 1)
  BY <1>1
<1> QED BY <1>2 DEF TypeOK, CountersOK

\* The counters stay well typed.
LEMMA CountersStep ==
  ASSUME TypeOK, ProcKnows, [Next]_vars
  PROVE  CountersOK'
<1>0. CountersOK
  BY DEF TypeOK
<1> USE BoundAssumption, <1>0 DEF CountersOK
<1>1. ASSUME NEW p \in Procs, Grant(p) PROVE CountersOK'
  <2>1. proc[p].req.client \in Clients
    BY <1>1, RequestType DEF Grant, ProcKnows, Knows
  <2>2. nextToken' = nextToken + 1 /\ granted' = granted \cup {<<nextToken, proc[p].req.client>>}
    BY <1>1 DEF Grant
  <2>3. granted' \subseteq (1..(nextToken' - 1)) \X Clients
    BY <2>1, <2>2
  <2> QED BY <1>1, <2>2, <2>3 DEF Grant, Finish
<1>2. ASSUME NEW p \in Procs, Reading(p) PROVE CountersOK'
  <2>1. sent' = sent \/ (sent < MaxRequests /\ sent' = sent + 1)
    BY <1>2 DEF Reading, LookupForLock, Wait, CheckOwnLocks, CheckMember, LookupForToken,
                MatchLock, Enforce, LookupForWrite, PutOverwrite, GiveUp, Begin, Continue, Finish
  <2>2. sent' \in 0..MaxRequests
    BY <2>1
  <2>3. nextToken' = nextToken /\ granted' = granted /\ now' = now /\ revived' = revived
    BY <1>2, ReadingReads
  <2> QED BY <2>2, <2>3, Zenon
<1>3. ASSUME NEW p \in Procs, Refresh(p) \/ Unlock(p) PROVE CountersOK'
  <2>1. revived' \subseteq Nat
    <3>1. \A l \in locks : l.token \in Nat
      BY TokensAreOld
    <3>2. revived \subseteq Nat
      OBVIOUS
    <3> HIDE <1>0
    <3> QED BY <1>3, <3>1, <3>2 DEF Refresh, Unlock
  <2>2. nextToken' = nextToken /\ granted' = granted /\ now' = now /\ sent' = sent
    BY <1>3 DEF Refresh, Unlock, Finish
  <2> QED BY <2>1, <2>2, Zenon
<1>4. ASSUME NEW p \in Procs, PutCreate(p) \/ Delete(p) \/ DeleteCalendar(p) PROVE CountersOK'
  <2>1. UNCHANGED <<nextToken, granted, now, sent, revived>>
    BY <1>4 DEF PutCreate, Delete, DeleteCalendar, CreateObject, RemoveObject, Finish
  <2> QED BY <2>1, Zenon
<1>5. CASE Deliver \/ Tick \/ UNCHANGED vars
  <2>1. UNCHANGED <<nextToken, granted, sent, revived>>
    BY <1>5 DEF Deliver, CreateObject, RemoveObject, Tick, vars
  <2>2. now' \in 0..MaxNow
    BY <1>5 DEF Deliver, CreateObject, RemoveObject, Tick, vars
  <2> QED BY <2>1, <2>2, Zenon
<1> QED
  BY <1>1, <1>2, <1>3, <1>4, <1>5 DEF Next, Locking, Changing, Reading

\* So do the locks: each keeps its row, its holder and a token of its own.
LEMMA LocksStep ==
  ASSUME TypeOK, ProcKnows, [Next]_vars
  PROVE  LocksOK'
<1> USE DEF TypeOK
<1>1. ASSUME NEW p \in Procs, Grant(p) PROVE LocksOK'
  <2> DEFINE w == proc[p]
  <2>1. w \in ProcType /\ w.req \in Requests /\ w.expires <= now + MaxTimeout
    BY <1>1 DEF ProcsOK, ProcKnows, Knows, Grant
  <2>2. w.req.client \in Clients /\ w.req.scope \in Scopes /\ w.req.depth \in Depths
    BY <2>1, RequestType
  <2>3. w.target \in Nat /\ w.expires \in Nat /\ nextToken \in Nat
    BY <2>1 DEF ProcType, CountersOK
  <2>4. NewLock(w) \in LockType
    BY <2>2, <2>3 DEF NewLock, Lock, LockType, Depths
  <2>5. /\ NewLock(w).token = nextToken /\ NewLock(w).target = w.target
        /\ NewLock(w).holder = w.req.client /\ NewLock(w).expires = w.expires
    BY DEF NewLock, Lock
  <2>6. locks' = locks \cup {NewLock(w)} /\ w.target \in Rows
    BY <1>1 DEF Grant
  <2>7. granted' = granted \cup {<<nextToken, w.req.client>>} /\ now' = now /\ row' = row
    BY <1>1 DEF Grant, Finish
  <2>8. \A l \in locks : l.token # nextToken
    BY TokensAreOld
  <2>9. Rows' = Rows
    BY <2>7 DEF Rows
  <2>10. \A l \in locks' : /\ l.target \in Rows'
                           /\ <<l.token, l.holder>> \in granted'
                           /\ l.expires <= now' + MaxTimeout
    BY <2>1, <2>5, <2>6, <2>7, <2>9 DEF LocksOK
  <2>11. \A l, k \in locks' : l.token = k.token => l = k
    BY <2>5, <2>6, <2>8 DEF LocksOK
  <2> QED BY <2>4, <2>6, <2>10, <2>11 DEF LocksOK
<1>2. ASSUME NEW p \in Procs, Refresh(p) PROVE LocksOK'
  <2> DEFINE w == proc[p]
             until == now + GrantLockTimeout(w.req.timeout)
             new(l) == IF l.token = w.lock.token THEN [l EXCEPT !.expires = until] ELSE l
  <2>1. until \in Nat /\ until <= now + MaxTimeout
    BY <1>2, GrantedTimeout, TimeoutAssumption DEF Refresh, ProcKnows, Knows, CountersOK
  <2>2. locks' = {new(l) : l \in locks}
    BY <1>2 DEF Refresh, PersistRefreshedTimeout
  <2>3. row' = row /\ granted' = granted /\ now' = now
    BY <1>2 DEF Refresh, Finish
  <2>4. \A l \in locks : /\ new(l) \in LockType /\ new(l).token = l.token
                         /\ new(l).target = l.target /\ new(l).holder = l.holder
                         /\ new(l).expires \in {l.expires, until}
    BY <2>1 DEF LocksOK, LockType
  <2>5. Rows' = Rows
    BY <2>3 DEF Rows
  <2>6. \A l \in locks' : /\ l \in LockType /\ l.target \in Rows'
                          /\ <<l.token, l.holder>> \in granted'
                          /\ l.expires <= now' + MaxTimeout
    <3> SUFFICES ASSUME NEW k \in locks
                 PROVE  /\ new(k) \in LockType /\ new(k).target \in Rows'
                        /\ <<new(k).token, new(k).holder>> \in granted'
                        /\ new(k).expires <= now' + MaxTimeout
      BY <2>2
    <3> HIDE DEF new, until
    <3> QED BY <2>1, <2>3, <2>4, <2>5 DEF LocksOK
  <2>7. \A l, k \in locks' : l.token = k.token => l = k
    <3> HIDE DEF new
    <3> SUFFICES ASSUME NEW m \in locks', NEW n \in locks', m.token = n.token PROVE m = n
      OBVIOUS
    <3>1. PICK l \in locks, k \in locks : m = new(l) /\ n = new(k)
      BY <2>2
    <3>2. l.token = k.token
      BY <2>4, <3>1
    <3> QED BY <3>1, <3>2 DEF LocksOK
  <2> QED BY <2>6, <2>7 DEF LocksOK
<1>3. now \in Nat /\ \A l \in locks : l.target \in Rows
  <2>1. now \in Nat
    BY BoundAssumption DEF CountersOK
  <2> QED BY <2>1 DEF LocksOK
<1>4. ASSUME locks' \subseteq locks, granted' = granted, now' \in Nat, now <= now',
             \A l \in locks' : l.target \in Rows'
      PROVE  LocksOK'
  <2>1. \A l \in locks' : l.expires <= now' + MaxTimeout
    <3> SUFFICES ASSUME NEW l \in locks' PROVE l.expires <= now' + MaxTimeout
      OBVIOUS
    <3>1. l.expires \in Nat /\ l.expires <= now + MaxTimeout
      BY <1>4 DEF LocksOK, LockType
    <3> QED BY <1>4, <1>3, <3>1, TimeoutAssumption
  <2> QED BY <1>4, <2>1 DEF LocksOK
<1>5. ASSUME NEW id, RemoveObject(id), now' = now PROVE LocksOK'
  <2>1. \A l \in locks' : l \in locks /\ l.target # id
    BY <1>5 DEF RemoveObject
  <2>2. \A n \in Rows : n # id => n \in Rows'
    BY <1>5 DEF RemoveObject, Rows
  <2> QED BY <1>4, <1>3, <1>5, <2>1, <2>2 DEF RemoveObject
<1>6. ASSUME NEW name, CreateObject(name), now' = now PROVE LocksOK'
  <2>1. \A n \in Rows : n \in Rows'
    BY <1>6 DEF CreateObject, Rows, RowsOK
  <2> QED BY <1>4, <1>3, <1>6, <2>1 DEF CreateObject
<1>7. ASSUME NEW p \in Procs, Unlock(p) PROVE LocksOK'
  BY <1>4, <1>3, <1>7 DEF Unlock, Finish, Rows
<1>8. ASSUME NEW p \in Procs, DeleteCalendar(p) PROVE LocksOK'
  BY <1>4, <1>3, <1>8 DEF DeleteCalendar, Finish
<1>9. ASSUME NEW p \in Procs, PutCreate(p) \/ Delete(p) PROVE LocksOK'
  BY <1>5, <1>6, <1>9 DEF PutCreate, Delete, Finish
<1>10. CASE Deliver
  BY <1>5, <1>6, <1>10 DEF Deliver
<1>11. CASE UNCHANGED <<row, locks, granted, now>>
  BY <1>11 DEF LocksOK, Rows
<1>12. CASE Tick
  <2>1. now' \in Nat /\ now <= now' /\ locks' = locks /\ granted' = granted /\ Rows' = Rows
    BY <1>3, <1>12 DEF Tick, Rows
  <2> QED BY <1>4, <1>3, <2>1
<1>13. ASSUME NEW p \in Procs, Reading(p) PROVE LocksOK'
  BY <1>11, <1>13, ReadingReads
<1> QED
  BY <1>1, <1>2, <1>7, <1>8, <1>9, <1>10, <1>11, <1>12, <1>13
  DEF Next, Locking, Changing, Reading, vars

\* The processes stay well typed.
LEMMA ProcsStep ==
  ASSUME TypeOK, ProcKnows, [Next]_vars
  PROVE  ProcsOK'
<1>1. CASE \E p \in Procs : Locking(p)
  BY <1>1, LockingProcs
<1>2. CASE \E p \in Procs : Changing(p)
  BY <1>2, ChangingProcs
<1>3. ASSUME NEW p \in Procs, GiveUp(p) PROVE ProcsOK'
  BY <1>3, IdleType DEF GiveUp, Continue, TypeOK, ProcsOK
<1>4. CASE Deliver \/ Tick \/ UNCHANGED vars
  BY <1>4 DEF Deliver, CreateObject, RemoveObject, Tick, vars, TypeOK, ProcsOK
<1> QED
  BY <1>1, <1>2, <1>3, <1>4 DEF Next

\* The clock and the counters never go back.
LEMMA Monotone ==
  ASSUME TypeOK, [Next]_vars
  PROVE  /\ {now, now', nextToken, nextToken', nextRow, nextRow'} \subseteq Nat
         /\ now <= now' /\ nextToken <= nextToken' /\ nextRow <= nextRow'
<1>1. now \in Nat /\ nextToken \in Nat /\ nextRow \in Nat
  BY BoundAssumption DEF TypeOK, CountersOK, RowsOK
<1>2. now' \in {now, now + 1}
  BY DEF Next, Locking, Changing, LookupForLock, Wait, CheckOwnLocks, CheckMember, Grant,
         LookupForToken, MatchLock, Refresh, Unlock, Enforce, LookupForWrite, PutCreate,
         PutOverwrite, Delete, DeleteCalendar, GiveUp, Deliver, Tick, Begin, Continue, Finish, vars
<1>3. nextToken' \in {nextToken, nextToken + 1}
  BY DEF Next, Locking, Changing, LookupForLock, Wait, CheckOwnLocks, CheckMember, Grant,
         LookupForToken, MatchLock, Refresh, Unlock, Enforce, LookupForWrite, PutCreate,
         PutOverwrite, Delete, DeleteCalendar, GiveUp, Deliver, Tick, Begin, Continue,
         CreateObject, RemoveObject, vars
<1>4. nextRow' \in {nextRow, nextRow + 1}
  BY DEF Next, Locking, Changing, LookupForLock, Wait, CheckOwnLocks, CheckMember, Grant,
         LookupForToken, MatchLock, Refresh, Unlock, Enforce, LookupForWrite, PutCreate,
         PutOverwrite, Delete, DeleteCalendar, GiveUp, Deliver, Tick, Begin, Continue,
         CreateObject, RemoveObject, vars
<1> QED BY <1>1, <1>2, <1>3, <1>4

\* What a request knows of itself stays true, whoever takes a step.
LEMMA KnowsStep ==
  ASSUME TypeOK, ProcKnows, [Next]_vars
  PROVE  ProcKnows'
<1>1. \A p \in Procs : proc[p] \in ProcType /\ Knows(proc[p])
  BY DEF TypeOK, ProcsOK, ProcKnows
<1>2. \A w \in ProcType : Knows(w) => Knows(w)'
  BY Monotone, TimeoutAssumption DEF Knows, ProcType
<1>3. ASSUME NEW p \in Procs, NEW v, proc' = [proc EXCEPT ![p] = v], Knows(v)'
      PROVE  ProcKnows'
  BY <1>1, <1>2, <1>3 DEF ProcKnows, TypeOK, ProcsOK
<1>4. Knows(Idle)'
  BY DEF Knows, Idle
<1>5. CASE UNCHANGED proc
  BY <1>1, <1>2, <1>5 DEF ProcKnows, TypeOK, ProcsOK
<1>6. ASSUME NEW p \in Procs, LookupForLock(p) PROVE ProcKnows'
  <2>1. PICK r \in Requests :
          Begin(p, [Idle EXCEPT !.pc = "waiting", !.req = r, !.target = row[r.name],
                                !.expires = now + GrantLockTimeout(r.timeout)])
    BY <1>6 DEF LookupForLock
  <2> DEFINE v == [Idle EXCEPT !.pc = "waiting", !.req = r, !.target = row[r.name],
                               !.expires = now + GrantLockTimeout(r.timeout)]
  <2>2. now' = now /\ v.pc = "waiting" /\ v.req = r /\ v.expires <= now + MaxTimeout
    BY <2>1, GrantedTimeout, TimeoutAssumption, Monotone DEF Begin, Idle
  <2>3. Knows(v)'
    BY <2>2 DEF Knows
  <2> QED BY <1>3, <2>1, <2>3 DEF Begin
<1>7. ASSUME NEW p \in Procs, LookupForToken(p) PROVE ProcKnows'
  <2>1. PICK r, t :
          /\ r \in Requests
          /\ Begin(p, [Idle EXCEPT !.pc = "found", !.req = r, !.tokens = {t}, !.target = row[r.name]])
    BY <1>7 DEF LookupForToken
  <2>2. Knows([Idle EXCEPT !.pc = "found", !.req = r, !.tokens = {t}, !.target = row[r.name]])'
    BY <2>1 DEF Knows, Idle
  <2> QED BY <1>3, <2>1, <2>2 DEF Begin
<1>8. ASSUME NEW p \in Procs, Enforce(p) PROVE ProcKnows'
  <2>1. PICK r, tokens :
          /\ r \in Requests
          /\ Begin(p, [Idle EXCEPT !.pc = "enforced", !.req = r, !.tokens = tokens,
                                   !.seen = nextToken - 1, !.found = row[r.name]])
    BY <1>8 DEF Enforce
  <2> DEFINE v == [Idle EXCEPT !.pc = "enforced", !.req = r, !.tokens = tokens,
                               !.seen = nextToken - 1, !.found = row[r.name]]
  <2>2. v.pc = "enforced" /\ v.req = r /\ v.seen = nextToken - 1
    BY DEF Idle
  <2>3. Knows(v)'
    BY <2>1, <2>2, Monotone DEF Knows
  <2> QED BY <1>3, <2>1, <2>3 DEF Begin
<1>9. ASSUME NEW p \in Procs, NEW v, Continue(p, v), v.req = proc[p].req,
             v.expires = proc[p].expires, v.seen = proc[p].seen,
             \/ <<proc[p].pc, v.pc>> \in {<<"waiting", "locked">>, <<"locked", "checking">>,
                                          <<"checking", "checking">>, <<"enforced", "writing">>}
             \/ v.pc = "matched" /\ proc[p].pc = "found"
      PROVE  ProcKnows'
  <2>1. Knows(v)'
    BY <1>1, <1>2, <1>9 DEF Knows
  <2> QED BY <1>3, <1>9, <2>1 DEF Continue
<1>10. ASSUME NEW p \in Procs, Wait(p) \/ CheckOwnLocks(p) \/ CheckMember(p) \/ MatchLock(p)
                               \/ LookupForWrite(p)
       PROVE  ProcKnows'
  <2>0. proc[p] \in ProcType
    BY <1>1
  <2>1. CASE Wait(p)
    BY <1>9, <2>0, <2>1 DEF Wait, ProcType
  <2>2. CASE CheckOwnLocks(p)
    BY <1>9, <2>0, <2>2 DEF CheckOwnLocks, ProcType
  <2>3. CASE CheckMember(p)
    BY <1>9, <2>0, <2>3 DEF CheckMember, ProcType
  <2>4. CASE MatchLock(p)
    BY <1>9, <2>0, <2>4 DEF MatchLock, ProcType
  <2>5. CASE LookupForWrite(p)
    BY <1>9, <2>0, <2>5 DEF LookupForWrite, ProcType
  <2> QED BY <1>10, <2>1, <2>2, <2>3, <2>4, <2>5
<1>11. ASSUME NEW p \in Procs, GiveUp(p) \/ Grant(p) \/ Refresh(p) \/ Unlock(p) \/ PutCreate(p)
                               \/ PutOverwrite(p) \/ Delete(p) \/ DeleteCalendar(p)
       PROVE  ProcKnows'
  <2>1. proc' = [proc EXCEPT ![p] = Idle]
    BY <1>11 DEF GiveUp, Grant, Refresh, Unlock, PutCreate, PutOverwrite, Delete, DeleteCalendar,
                 Continue, Finish
  <2> QED BY <1>3, <1>4, <2>1
<1>12. CASE Deliver \/ Tick \/ UNCHANGED vars
  BY <1>5, <1>12 DEF Deliver, Tick, vars
<1> QED
  BY <1>6, <1>7, <1>8, <1>10, <1>11, <1>12 DEF Next, Locking, Changing

\* At most one request holds the calendar row.
LEMMA MutexStep ==
  ASSUME TypeOK, Mutex, [Next]_vars
  PROVE  Mutex'
<1> USE ProcAssumption DEF Holding
<1>1. proc \in [Procs -> ProcType]
  BY DEF TypeOK, ProcsOK
<1>2. ASSUME NEW p \in Procs, NEW v, proc' = [proc EXCEPT ![p] = v], UNCHANGED rowLock,
             v.pc \in {"locked", "checking"} => Holding(p)
      PROVE  Mutex'
  BY <1>1, <1>2 DEF Mutex
<1>3. ASSUME NEW p \in Procs, NEW v, proc' = [proc EXCEPT ![p] = v],
             v.pc \notin {"locked", "checking"},
             rowLock' = rowLock \/ rowLock \in {p, Nobody}
      PROVE  Mutex'
  BY <1>1, <1>3 DEF Mutex
<1>4. Idle.pc = "idle"
  BY DEF Idle
<1>5. ASSUME NEW p \in Procs, Wait(p) PROVE Mutex'
  <2>1. rowLock = Nobody /\ rowLock' = p /\ proc' = [proc EXCEPT ![p] = [proc[p] EXCEPT !.pc = "locked"]]
    BY <1>5 DEF Wait, LockCalendarRow, Continue
  <2> QED BY <1>1, <2>1 DEF Mutex
<1>6. ASSUME NEW p \in Procs, CheckOwnLocks(p) PROVE Mutex'
  BY <1>1, <1>2, <1>6 DEF CheckOwnLocks, Continue
<1>7. ASSUME NEW p \in Procs, CheckMember(p) PROVE Mutex'
  BY <1>1, <1>2, <1>7 DEF CheckMember, Continue
<1>8. ASSUME NEW p \in Procs, GiveUp(p) \/ Grant(p) PROVE Mutex'
  <2>1. proc' = [proc EXCEPT ![p] = Idle]
    BY <1>8 DEF GiveUp, Grant, Continue, Finish
  <2>2. rowLock' = rowLock \/ rowLock = p
    BY <1>8 DEF GiveUp, Grant, Mutex
  <2> QED BY <1>3, <1>4, <2>1, <2>2
<1>9. ASSUME NEW p \in Procs, Refresh(p) \/ Unlock(p) \/ PutCreate(p)
                              \/ PutOverwrite(p) \/ Delete(p) \/ DeleteCalendar(p)
      PROVE  Mutex'
  BY <1>3, <1>4, <1>9 DEF Refresh, Unlock, PutCreate, PutOverwrite, Delete, DeleteCalendar,
                          CreateObject, RemoveObject, Finish
<1>10. ASSUME NEW p \in Procs, MatchLock(p) \/ LookupForWrite(p) PROVE Mutex'
  <2>1. PICK v : proc' = [proc EXCEPT ![p] = v] /\ v.pc \in {"matched", "writing"} /\ rowLock' = rowLock
    <3>1. CASE MatchLock(p)
      <4>1. PICK l : proc' = [proc EXCEPT ![p] = [proc[p] EXCEPT !.pc = "matched", !.lock = l]]
        BY <3>1 DEF MatchLock, Continue
      <4>2. [proc[p] EXCEPT !.pc = "matched", !.lock = l].pc = "matched"
        BY <1>1 DEF ProcType
      <4> QED BY <3>1, <4>1, <4>2 DEF MatchLock
    <3>2. CASE LookupForWrite(p)
      BY <1>1, <3>2 DEF LookupForWrite, Continue, ProcType
    <3> QED BY <1>10, <3>1, <3>2
  <2> QED BY <1>2, <2>1
<1>11. ASSUME NEW p \in Procs, NEW v, Begin(p, v), v.pc \in {"waiting", "found", "enforced"}
       PROVE  Mutex'
  BY <1>2, <1>11 DEF Begin
<1>12. ASSUME NEW p \in Procs, LookupForLock(p) PROVE Mutex'
  <2>1. PICK r : Begin(p, [Idle EXCEPT !.pc = "waiting", !.req = r, !.target = row[r.name],
                                       !.expires = now + GrantLockTimeout(r.timeout)])
    BY <1>12 DEF LookupForLock
  <2> QED BY <1>11, <2>1 DEF Idle
<1>13. ASSUME NEW p \in Procs, LookupForToken(p) PROVE Mutex'
  <2>1. PICK r, t : Begin(p, [Idle EXCEPT !.pc = "found", !.req = r, !.tokens = {t},
                                          !.target = row[r.name]])
    BY <1>13 DEF LookupForToken
  <2> QED BY <1>11, <2>1 DEF Idle
<1>14. ASSUME NEW p \in Procs, Enforce(p) PROVE Mutex'
  <2>1. PICK r, tokens :
          Begin(p, [Idle EXCEPT !.pc = "enforced", !.req = r, !.tokens = tokens,
                                !.seen = nextToken - 1, !.found = row[r.name]])
    BY <1>14 DEF Enforce
  <2> QED BY <1>11, <2>1 DEF Idle
<1>15. CASE Deliver \/ Tick \/ UNCHANGED vars
  BY <1>15 DEF Deliver, CreateObject, RemoveObject, Tick, vars, Mutex
<1> QED
  BY <1>5, <1>6, <1>7, <1>8, <1>9, <1>10, <1>12, <1>13, <1>14, <1>15 DEF Next, Locking, Changing

-----------------------------------------------------------------------------
(* Locks and what they cover.                                              *)

Same(l, k) ==
  l.token = k.token /\ l.target = k.target /\ l.scope = k.scope /\ l.depth = k.depth

\* Once a lock is known to have been revived, it stays known.
LEMMA RevivedGrows ==
  ASSUME [Next]_vars
  PROVE  revived \subseteq revived'
<1>1. ASSUME NEW p \in Procs, Refresh(p) PROVE revived \subseteq revived'
  BY <1>1 DEF Refresh
<1>2. ASSUME NEW p \in Procs, Reading(p) PROVE revived \subseteq revived'
  BY <1>2, ReadingReads
<1>3. ASSUME NEW p \in Procs, Grant(p) \/ Unlock(p) \/ PutCreate(p) \/ Delete(p) \/ DeleteCalendar(p)
      PROVE  revived \subseteq revived'
  BY <1>3 DEF Grant, Unlock, PutCreate, Delete, DeleteCalendar, CreateObject, RemoveObject
<1>4. CASE Deliver \/ Tick \/ UNCHANGED vars
  BY <1>4 DEF Deliver, CreateObject, RemoveObject, Tick, vars
<1> QED
  BY <1>1, <1>2, <1>3, <1>4 DEF Next, Locking, Changing, Reading

\* A lock that stands after a step stood before it, or is the one it grants: a
\* refresh that finds a lock expired revives it.
LEMMA StepKeepsLocks ==
  ASSUME TypeOK, ProcKnows, [Next]_vars
  PROVE  \A l \in locks' : Standing(l)' =>
              \/ \E k \in locks : Standing(k) /\ Same(l, k)
              \/ \E p \in Procs : Grant(p) /\ l = NewLock(proc[p])
<1>1. \A l \in locks : l.expires \in Nat
  BY DEF TypeOK, LocksOK, LockType
<1>2. \A l : l \in locks /\ Standing(l)' => Standing(l)
  BY <1>1, Monotone, RevivedGrows DEF Standing, Active, IsActive
<1>3. ASSUME locks' \subseteq locks
      PROVE  \A l \in locks' : Standing(l)' => \E k \in locks : Standing(k) /\ Same(l, k)
  BY <1>2, <1>3 DEF Same
<1>4. ASSUME NEW p \in Procs, Grant(p)
      PROVE  \A l \in locks' : Standing(l)' =>
               (\E k \in locks : Standing(k) /\ Same(l, k)) \/ l = NewLock(proc[p])
  BY <1>2, <1>4 DEF Grant, Same
<1>5. ASSUME NEW p \in Procs, Refresh(p)
      PROVE  \A l \in locks' : Standing(l)' => \E k \in locks : Standing(k) /\ Same(l, k)
  <2> DEFINE until == now + GrantLockTimeout(proc[p].req.timeout)
             token == proc[p].lock.token
  <2>1. locks' = {IF l.token = token THEN [l EXCEPT !.expires = until] ELSE l : l \in locks}
    BY <1>5 DEF Refresh, PersistRefreshedTimeout
  <2>2. \A l \in locks : l.token = token => Active(l) \/ l.token \in revived'
    BY <1>5 DEF Refresh
  <2>3. SUFFICES ASSUME NEW l \in locks', Standing(l)' PROVE \E k \in locks : Standing(k) /\ Same(l, k)
    OBVIOUS
  <2>4. PICK k \in locks :
          l = IF k.token = token THEN [k EXCEPT !.expires = until] ELSE k
    BY <2>1
  <2>5. k \in LockType
    BY DEF TypeOK, LocksOK
  <2>6. Same(l, k)
    BY <2>4, <2>5 DEF Same, LockType
  <2>7. k.token \notin revived' /\ k.token \notin revived
    BY <2>3, <2>6, RevivedGrows DEF Standing, Same
  <2>8. CASE k.token = token
    BY <2>2, <2>6, <2>7, <2>8 DEF Standing
  <2>9. CASE k.token # token
    BY <1>2, <2>3, <2>4, <2>6, <2>9
  <2> QED BY <2>8, <2>9
<1>6. ASSUME NEW p \in Procs, Reading(p)
      PROVE  \A l \in locks' : Standing(l)' => \E k \in locks : Standing(k) /\ Same(l, k)
  BY <1>3, <1>6, ReadingReads
<1>7. ASSUME NEW p \in Procs, Unlock(p) \/ PutCreate(p) \/ Delete(p) \/ DeleteCalendar(p)
      PROVE  \A l \in locks' : Standing(l)' => \E k \in locks : Standing(k) /\ Same(l, k)
  BY <1>3, <1>7 DEF Unlock, PutCreate, Delete, DeleteCalendar, CreateObject, RemoveObject
<1>8. CASE Deliver \/ Tick \/ UNCHANGED vars
  BY <1>3, <1>8 DEF Deliver, CreateObject, RemoveObject, Tick, vars
<1> QED
  BY <1>4, <1>5, <1>6, <1>7, <1>8 DEF Next, Locking, Changing, Reading

\* A granted lock conflicts with no lock that stands.
LEMMA GrantIsHarmless ==
  ASSUME TypeOK, NEW p \in Procs, Grant(p), Checked(proc[p])
  PROVE  \A l \in locks : Standing(l) /\ Overlap(l, NewLock(proc[p])) =>
           "exclusive" \notin {l.scope, NewLock(proc[p]).scope}
<1> DEFINE w == proc[p]
           n == NewLock(w)
<1>1. /\ n.target = w.target /\ n.scope = w.req.scope
      /\ n.depth = "infinity" /\ n.target = Calendar => LocksMembers(w)
  BY DEF NewLock, Lock, LocksMembers
<1>2. w.pc = "checking" /\ w.unchecked = {}
  BY DEF Grant
<1>3. SUFFICES ASSUME NEW l \in locks, Standing(l), Overlap(l, n) PROVE LookedAt(l, w)
  BY <1>1, <1>2 DEF Checked, Harmless
<1> QED BY <1>1, <1>2, <1>3 DEF Overlap, LookedAt

\* Locks that stand keep excluding one another.
LEMMA ExclusiveStep ==
  ASSUME TypeOK, TypeOK', ProcKnows, [Next]_vars,
         OneExclusiveLock, \A p \in Procs : Safe(proc[p])
  PROVE  OneExclusiveLock'
<1> SUFFICES ASSUME NEW l \in locks', NEW k \in locks', Standing(l)', Standing(k)', l # k, Overlap(l, k)
             PROVE  "exclusive" \notin {l.scope, k.scope}
  BY DEF OneExclusiveLock, Overlap
<1>1. l.token # k.token
  BY DEF TypeOK, LocksOK
<1>2. CASE \E m, n \in locks : Standing(m) /\ Standing(n) /\ Same(l, m) /\ Same(k, n)
  <2>1. PICK m \in locks, n \in locks : Standing(m) /\ Standing(n) /\ Same(l, m) /\ Same(k, n)
    BY <1>2
  <2>2. m # n /\ Overlap(m, n)
    BY <1>1, <2>1 DEF Same, Overlap
  <2> QED BY <2>1, <2>2 DEF OneExclusiveLock, Same
<1>3. ASSUME NEW p \in Procs, Grant(p), NEW a, NEW b, NEW m \in locks, Standing(m), Same(a, m),
             b = NewLock(proc[p]), Overlap(a, b)
      PROVE  "exclusive" \notin {a.scope, b.scope}
  <2>1. Overlap(m, b)
    BY <1>3 DEF Same, Overlap
  <2> QED BY <1>3, <2>1, GrantIsHarmless DEF Same, Safe
<1>4. Overlap(k, l)
  BY DEF Overlap
<1>5. ASSUME NEW p \in Procs, NEW q \in Procs, Grant(p), Grant(q), l = NewLock(proc[p]), k = NewLock(proc[q])
      PROVE  FALSE
  BY <1>1, <1>5 DEF NewLock, Lock
<1> QED BY <1>2, <1>3, <1>4, <1>5, StepKeepsLocks

\* What tokens cover they go on covering: a lock granted since is newer than
\* the check.
LEMMA GuardedStep ==
  ASSUME TypeOK, ProcKnows, [Next]_vars, NEW w \in ProcType, w.seen < nextToken
  PROVE  \A id : Guarded(id, w) => Guarded(id, w)'
<1> SUFFICES ASSUME NEW id, Guarded(id, w), NEW l \in locks', Active(l)', Due(l, w, id)
             PROVE  Covered(l, w)'
  BY DEF Guarded, Due
<1>1. CASE \E k \in locks : Standing(k) /\ Same(l, k)
  <2>1. PICK k \in locks : Standing(k) /\ Same(l, k)
    BY <1>1
  <2>2. Active(k) /\ Due(k, w, id)
    BY <2>1 DEF Standing, Same, Due
  <2>3. Covered(k, w)
    BY <2>2 DEF Guarded
  <2> QED BY <2>1, <2>3, RevivedGrows DEF Covered, Same
<1>2. CASE \E p \in Procs : l = NewLock(proc[p])
  BY <1>2 DEF NewLock, Lock, ProcType, TypeOK, CountersOK, Covered
<1>3. CASE ~Standing(l)'
  BY <1>3 DEF Standing, Covered
<1> QED BY <1>1, <1>2, <1>3, StepKeepsLocks

\* Nor is there a lock on a row that is gone, or is made by this step.
LEMMA GuardedNewRow ==
  ASSUME TypeOK, ProcKnows, [Next]_vars, NEW w \in ProcType, w.seen < nextToken,
         NEW id, NEW new \in {NoRow, nextRow}, Guarded(id, w)
  PROVE  Guarded(new, w)'
<1>1. \A l \in locks : l.target \in Rows
  BY DEF TypeOK, LocksOK
<1>2. \A l \in locks : l.target # new
  BY <1>1 DEF Rows, TypeOK, RowsOK, Names, Calendar, NoRow
<1>3. Guarded(new, w)
  BY <1>2 DEF Guarded, Due
<1> QED BY <1>3, GuardedStep

\* A name keeps its row, loses it, or gets one that is newer than all others.
LEMMA RowsChange ==
  ASSUME TypeOK, [Next]_vars
  PROVE  \A name \in Names : row'[name] \in {row[name], NoRow, nextRow}
<1> USE DEF TypeOK, RowsOK
<1>1. ASSUME NEW name, CreateObject(name)
      PROVE  \A n \in Names : row'[n] \in {row[n], NoRow, nextRow}
  BY <1>1 DEF CreateObject
<1>2. ASSUME NEW id, RemoveObject(id)
      PROVE  \A n \in Names : row'[n] \in {row[n], NoRow, nextRow}
  BY <1>2 DEF RemoveObject
<1>3. CASE row' = row
  BY <1>3
<1>4. ASSUME NEW p \in Procs, Reading(p) \/ Grant(p) \/ Refresh(p) \/ Unlock(p) PROVE row' = row
  BY <1>4, ReadingReads DEF Grant, Refresh, Unlock
<1>5. ASSUME NEW p \in Procs, PutCreate(p) \/ Delete(p) \/ DeleteCalendar(p)
      PROVE  \A n \in Names : row'[n] \in {row[n], NoRow, nextRow}
  BY <1>1, <1>2, <1>5 DEF PutCreate, Delete, DeleteCalendar
<1>6. CASE Deliver \/ Tick \/ UNCHANGED vars
  BY <1>1, <1>2, <1>6 DEF Deliver, Tick, vars
<1> QED
  BY <1>3, <1>4, <1>5, <1>6 DEF Next, Locking, Changing, Reading

\* A request that takes no step stays safe: none is granted a lock while it
\* holds the calendar row, and a new row has no locks.
LEMMA SafeWhileWaiting ==
  ASSUME TypeOK, ProcKnows, Mutex, [Next]_vars,
         NEW p \in Procs, proc'[p] = proc[p], proc[p] # Idle, Safe(proc[p])
  PROVE  Safe(proc[p])'
<1> DEFINE w == proc[p]
<1>1. w \in ProcType /\ Knows(w) /\ w' = w
  BY DEF TypeOK, ProcsOK, ProcKnows
<1>2. Checked(w)'
  <2> SUFFICES ASSUME w.pc = "checking", NEW l \in locks', Standing(l)', LookedAt(l, w)
               PROVE  Harmless(l, w)
    BY <1>1 DEF Checked, LookedAt, LocksMembers, Harmless
  <2>1. ASSUME NEW q \in Procs, Grant(q) PROVE FALSE
    <3>1. Holding(p) /\ Holding(q)
      BY <2>1 DEF Holding, Grant
    <3>2. p = q
      BY <3>1 DEF Mutex
    <3> QED BY <1>1, <2>1, <3>2 DEF Grant, Finish, TypeOK, ProcsOK
  <2>2. PICK k \in locks : Standing(k) /\ Same(l, k)
    BY <2>1, StepKeepsLocks
  <2>3. LookedAt(k, w)
    BY <2>2 DEF LookedAt, Same
  <2> QED BY <2>2, <2>3 DEF Safe, Checked, Harmless, Same
<1>3. EnforcedGuarded(w)'
  <2> DEFINE id == row[w.req.name]
  <2>0. (w.pc = "enforced" => Guarded(id, w)') => EnforcedGuarded(w)'
    BY <1>1 DEF Safe, EnforcedGuarded
  <2> SUFFICES ASSUME w.pc = "enforced" PROVE Guarded(id, w)'
    BY <2>0
  <2>1. w.seen < nextToken /\ w.req.name \in Names /\ Guarded(id, w)
    BY <1>1, RequestType DEF Knows, Safe, EnforcedGuarded
  <2>2. id' \in {id, NoRow, nextRow}
    BY <2>1, RowsChange
  <2>3. CASE id' = id
    <3>1. Guarded(id, w)' <=> \A l \in locks' : Active(l)' /\ Due(l, w, id) => Covered(l, w)'
      BY <1>1, <2>3 DEF Guarded, Due, Covered
    <3> QED BY <1>1, <2>1, <3>1, GuardedStep DEF Guarded
  <2>4. CASE id' \in {NoRow, nextRow}
    <3>1. \A new \in {NoRow, nextRow} :
            id' = new => (Guarded(id, w)' <=> \A l \in locks' : Active(l)' /\ Due(l, w, new) => Covered(l, w)')
      BY <1>1 DEF Guarded, Due, Covered
    <3> QED BY <1>1, <2>1, <2>4, <3>1, GuardedNewRow DEF Guarded
  <2> QED BY <2>2, <2>3, <2>4
<1>4. WritingGuarded(w)'
  <2> SUFFICES ASSUME w.pc = "writing" PROVE Guarded(w.target, w)'
    BY <1>1 DEF Safe, WritingGuarded
  <2> QED BY <1>1, GuardedStep DEF Knows, Safe, WritingGuarded
<1> QED BY <1>2, <1>3, <1>4 DEF Safe

\* Every lock a request has found satisfied covers the row it is about.
LEMMA EnforceGuards ==
  ASSUME TypeOK, Alive, NEW r \in Requests, NEW w,
         w.req = r, w.found = row[r.name], r.op \in WriteOps, r.op = "PUT" => r.name \in Objects,
         \A id \in CheckedRows(r) : HasValidLockToken(EffectiveLocks(id), w.tokens)
  PROVE  Guarded(row[r.name], w)
<1> SUFFICES ASSUME NEW l \in locks, Active(l), Due(l, w, row[r.name])
             PROVE  l.token \in w.tokens
  BY DEF Guarded, Covered
<1>1. \A id \in CheckedRows(r) : l \in EffectiveLocks(id) => l.token \in w.tokens
  BY DEF HasValidLockToken
<1>2. l.target # NoRow
  BY DEF TypeOK, LocksOK, Rows
<1>3. l \in EffectiveLocks(l.target) /\ (l.target = Calendar /\ l.depth = "infinity" => \A id : l \in EffectiveLocks(id))
  BY DEF EffectiveLocks
<1>4. CASE r.op = "PUT"
  BY <1>1, <1>2, <1>3, <1>4 DEF CheckedRows, CheckedForPut, Due
<1>5. CASE r.op = "DELETE"
  <2>1. w.found # NoRow /\ l.target \in {row[r.name], Calendar}
    BY <1>2, <1>5 DEF Due
  <2>2. CheckedRows(r) = {row[r.name], Calendar}
    BY <1>5, <2>1, NameAssumption DEF CheckedRows, CheckedForDelete, Alive
  <2> QED BY <1>1, <1>3, <2>1, <2>2
<1> QED BY <1>4, <1>5 DEF WriteOps

\* A request that takes a step is safe after it: it has looked at what it says
\* it has.
LEMMA SafeAfterStep ==
  ASSUME TypeOK, ProcKnows, NEW p \in Procs, Safe(proc[p]),
         Locking(p) \/ Changing(p) \/ GiveUp(p)
  PROVE  Safe(proc[p])'
<1> DEFINE w == proc[p]
<1>0. proc \in [Procs -> ProcType] /\ w \in ProcType
  BY DEF TypeOK, ProcsOK
<1>1. ASSUME proc'[p].pc \notin {"checking", "enforced", "writing"} PROVE Safe(proc[p])'
  BY <1>1 DEF Safe, Checked, EnforcedGuarded, WritingGuarded
<1>2. CASE CheckOwnLocks(p)
  <2> DEFINE v == [w EXCEPT !.pc = "checking", !.unchecked = IF LocksMembers(w) THEN Members ELSE {}]
  <2>1. proc' = [proc EXCEPT ![p] = v] /\ ~WouldConflict(EffectiveLocks(w.target), w.req.scope)
    BY <1>2 DEF CheckOwnLocks, Continue
  <2>2. UNCHANGED <<row, locks, now, revived>>
    BY <1>2 DEF CheckOwnLocks, Continue
  <2>3. /\ v.pc = "checking" /\ v.req = w.req /\ v.target = w.target
        /\ LocksMembers(v) <=> LocksMembers(w)
        /\ LocksMembers(w) => v.unchecked = Members
    BY <1>0 DEF ProcType, LocksMembers
  <2>4. ASSUME NEW l \in locks, Standing(l), LookedAt(l, v) PROVE Harmless(l, v)
    <3>1. l.target \in Rows
      BY DEF TypeOK, LocksOK
    <3>2. l.target = w.target \/ (l.target = Calendar /\ l.depth = "infinity")
      BY <2>3, <2>4, <3>1 DEF LookedAt, Members
    <3> QED BY <2>1, <2>3, <2>4, <3>2 DEF WouldConflict, EffectiveLocks, Harmless, Standing
  <2>5. proc'[p] = v
    BY <1>0, <2>1
  <2> QED
    BY <2>2, <2>3, <2>4, <2>5 DEF Safe, Checked, EnforcedGuarded, WritingGuarded, Standing, Active,
                                 LookedAt, LocksMembers, Harmless
<1>3. CASE CheckMember(p)
  <2>1. PICK o \in w.unchecked :
          /\ ~WouldConflict(EffectiveLocks(o), w.req.scope)
          /\ Continue(p, [w EXCEPT !.unchecked = w.unchecked \ {o}])
    BY <1>3 DEF CheckMember
  <2> DEFINE v == [w EXCEPT !.unchecked = w.unchecked \ {o}]
  <2>2. UNCHANGED <<row, locks, now, revived>> /\ proc'[p] = v
    BY <1>0, <2>1 DEF Continue
  <2>3. /\ w.pc = "checking" /\ v.pc = w.pc /\ v.req = w.req /\ v.target = w.target
        /\ LocksMembers(v) <=> LocksMembers(w)
        /\ v.unchecked = w.unchecked \ {o}
    BY <1>0, <1>3 DEF CheckMember, ProcType, LocksMembers
  <2>4. ASSUME NEW l \in locks, Standing(l), LookedAt(l, v) PROVE Harmless(l, v)
    <3>1. LookedAt(l, w) \/ l.target = o
      BY <2>3, <2>4 DEF LookedAt
    <3>2. CASE LookedAt(l, w)
      BY <2>3, <2>4, <3>2 DEF Safe, Checked, Harmless
    <3>3. CASE l.target = o
      BY <2>1, <2>3, <2>4, <3>3 DEF WouldConflict, EffectiveLocks, Harmless, Standing
    <3> QED BY <3>1, <3>2, <3>3
  <2> QED
    BY <2>2, <2>3, <2>4 DEF Safe, Checked, EnforcedGuarded, WritingGuarded, Standing, Active,
                            LookedAt, LocksMembers, Harmless
<1>4. CASE Enforce(p)
  <2>1. PICK r, tokens :
          /\ r \in Requests
          /\ r.op \in WriteOps
          /\ r.op = "PUT" => r.name \in Objects
          /\ \A id \in CheckedRows(r) : HasValidLockToken(EffectiveLocks(id), tokens)
          /\ Begin(p, [Idle EXCEPT !.pc = "enforced", !.req = r, !.tokens = tokens,
                                   !.seen = nextToken - 1, !.found = row[r.name]])
    BY <1>4 DEF Enforce
  <2> DEFINE v == [Idle EXCEPT !.pc = "enforced", !.req = r, !.tokens = tokens,
                               !.seen = nextToken - 1, !.found = row[r.name]]
  <2>2. UNCHANGED <<row, locks, now, revived>> /\ proc'[p] = v
    BY <1>0, <2>1 DEF Begin
  <2>3. v.pc = "enforced" /\ v.req = r /\ v.tokens = tokens /\ v.found = row[r.name]
    BY DEF Idle
  <2>4. Guarded(row[r.name], v)
    <3> HIDE DEF v
    <3> QED BY <1>4, <2>1, <2>3, EnforceGuards DEF Enforce
  <2> HIDE DEF v
  <2>5. r.op # "DELETE" => r.name \in Objects
    BY <2>1 DEF WriteOps
  <2> QED
    BY <2>2, <2>3, <2>4, <2>5 DEF Safe, Checked, EnforcedGuarded, WritingGuarded, Guarded,
                                  Active, Due, Covered
<1>5. CASE LookupForWrite(p)
  <2> DEFINE id == row[w.req.name]
             v == [w EXCEPT !.pc = "writing", !.target = id]
  <2>1. UNCHANGED <<row, locks, now, revived>> /\ proc'[p] = v
    BY <1>0, <1>5 DEF LookupForWrite, Continue
  <2>2. /\ w.pc = "enforced"
        /\ v.pc = "writing" /\ v.req = w.req /\ v.target = id /\ v.tokens = w.tokens
        /\ v.seen = w.seen /\ v.found = w.found
    BY <1>0, <1>5 DEF LookupForWrite, ProcType
  <2>3. Guarded(id, w) /\ (w.req.op # "DELETE" => w.req.name \in Objects)
    BY <2>2 DEF Safe, EnforcedGuarded
  <2>4. \A name \in Objects : row[name] # Calendar
    BY DEF TypeOK, RowsOK, Calendar, NoRow
  <2> HIDE DEF v
  <2> QED
    BY <2>1, <2>2, <2>3, <2>4 DEF Safe, Checked, EnforcedGuarded, WritingGuarded, Guarded,
                                  Active, Due, Covered
<1>6. CASE \/ GiveUp(p) \/ Grant(p) \/ Refresh(p) \/ Unlock(p) \/ PutCreate(p)
           \/ PutOverwrite(p) \/ Delete(p) \/ DeleteCalendar(p)
  <2>1. proc'[p] = Idle
    BY <1>0, <1>6 DEF GiveUp, Grant, Refresh, Unlock, PutCreate, PutOverwrite, Delete, DeleteCalendar,
                      Continue, Finish
  <2> QED BY <1>1, <2>1 DEF Idle
<1>7. CASE Wait(p) \/ MatchLock(p)
  <2>1. proc'[p].pc \in {"locked", "matched"}
    BY <1>0, <1>7 DEF Wait, MatchLock, Continue, ProcType
  <2> QED BY <1>1, <2>1
<1>8. CASE LookupForLock(p) \/ LookupForToken(p)
  <2>1. proc'[p].pc \in {"waiting", "found"}
    BY <1>0, <1>8 DEF LookupForLock, LookupForToken, Begin, Idle
  <2> QED BY <1>1, <2>1
<1> QED
  BY <1>2, <1>3, <1>4, <1>5, <1>6, <1>7, <1>8 DEF Locking, Changing

-----------------------------------------------------------------------------
(* The invariant.                                                          *)

Step(p) == Locking(p) \/ Changing(p) \/ GiveUp(p)

\* A step is one request's.
LEMMA OthersWait ==
  ASSUME TypeOK, NEW p \in Procs, Step(p), NEW q \in Procs, q # p
  PROVE  proc'[q] = proc[q]
<1>1. proc \in [Procs -> ProcType]
  BY DEF TypeOK, ProcsOK
<1>2. ASSUME NEW v, proc' = [proc EXCEPT ![p] = v] PROVE proc'[q] = proc[q]
  BY <1>1, <1>2
<1>3. CASE LookupForLock(p) \/ LookupForToken(p) \/ Enforce(p)
  BY <1>2, <1>3 DEF LookupForLock, LookupForToken, Enforce, Begin
<1>4. CASE Wait(p) \/ CheckOwnLocks(p) \/ CheckMember(p) \/ MatchLock(p) \/ LookupForWrite(p) \/ GiveUp(p)
  BY <1>2, <1>4 DEF Wait, CheckOwnLocks, CheckMember, MatchLock, LookupForWrite, GiveUp, Continue
<1>5. CASE \/ Grant(p) \/ Refresh(p) \/ Unlock(p) \/ PutCreate(p) \/ PutOverwrite(p) \/ Delete(p)
           \/ DeleteCalendar(p)
  BY <1>2, <1>5 DEF Grant, Refresh, Unlock, PutCreate, PutOverwrite, Delete, DeleteCalendar, Finish
<1> QED
  BY <1>3, <1>4, <1>5 DEF Step, Locking, Changing

\* Every request stays safe.
LEMMA SafeStep ==
  ASSUME TypeOK, ProcKnows, Mutex, [Next]_vars, \A p \in Procs : Safe(proc[p])
  PROVE  \A p \in Procs : Safe(proc[p])'
<1> SUFFICES ASSUME NEW p \in Procs PROVE Safe(proc[p])'
  OBVIOUS
<1>1. CASE proc'[p] = proc[p] /\ proc[p] # Idle
  BY <1>1, SafeWhileWaiting
<1>2. CASE proc'[p] = Idle
  BY <1>2 DEF Idle, Safe, Checked, EnforcedGuarded, WritingGuarded
<1>3. CASE Step(p)
  BY <1>3, SafeAfterStep DEF Step
<1>4. CASE \E q \in Procs : q # p /\ Step(q)
  BY <1>1, <1>2, <1>4, OthersWait
<1>5. CASE Deliver \/ Tick \/ UNCHANGED vars
  BY <1>1, <1>2, <1>5 DEF Deliver, Tick, vars
<1> QED BY <1>3, <1>4, <1>5 DEF Next, Step

\* Every step keeps the invariant.
LEMMA InvStep == Inv /\ [Next]_vars => Inv'
<1> SUFFICES ASSUME Inv, [Next]_vars PROVE Inv'
  OBVIOUS
<1>1. TypeOK /\ Mutex /\ ProcKnows
  BY DEF Inv
<1>2. ProcsOK'
  <2>1. ASSUME NEW p \in Procs, GiveUp(p) PROVE ProcsOK'
    BY <1>1, <2>1, IdleType DEF GiveUp, Continue, TypeOK, ProcsOK
  <2>2. CASE Deliver \/ Tick \/ UNCHANGED vars
    BY <1>1, <2>2 DEF Deliver, CreateObject, RemoveObject, Tick, vars, TypeOK, ProcsOK
  <2> QED BY <1>1, <2>1, <2>2, LockingProcs, ChangingProcs DEF Next
<1>3. TypeOK'
  BY <1>1, <1>2, RowsStep, LocksStep, CountersStep DEF TypeOK
<1>4. Mutex' /\ ProcKnows'
  BY <1>1, MutexStep, KnowsStep
<1>5. OneExclusiveLock'
  BY <1>1, <1>3, ExclusiveStep DEF Inv
<1>6. \A p \in Procs : Safe(proc[p])'
  BY <1>1, SafeStep DEF Inv
<1> QED BY <1>3, <1>4, <1>5, <1>6 DEF Inv

\* The invariant holds of every behaviour.
THEOREM Inductive == Spec => []Inv
BY InitInv, InvStep, PTL DEF Spec

-----------------------------------------------------------------------------
(* Theorems.                                                               *)

\* Rows, locks and requests stay of their types: among them that a lock is
\* always on a row that exists, that a token is one lock's, and that none lasts
\* longer than MAX_LOCK_TIMEOUT_SECONDS.
THEOREM TypeCorrect == Spec => []TypeOK
<1>1. Inv => TypeOK
  BY DEF Inv
<1> QED BY <1>1, Inductive, PTL

\* The check and the insert of a LOCK are one unit (caldav/lock.route.ts): locks
\* that have been in effect since they were granted never conflict.
THEOREM OneIsGranted == Spec => []OneExclusiveLock
<1>1. Inv => OneExclusiveLock
  BY DEF Inv
<1> QED BY <1>1, Inductive, PTL

\* PUT and DELETE, which check locks before their transaction and look the object
\* up again after it, show a token for every lock on what they write, on the
\* calendar a PUT creates in as well: all that escapes them is a lock on the
\* calendar when the object a DELETE did not find was made meanwhile, or a flat
\* one when the object a PUT found was removed meanwhile.
THEOREM NoneOverlooked == Spec => []NothingOverlooked
<1>1. Inv => NothingOverlooked
  <2> SUFFICES ASSUME Inv, NEW p \in Procs, proc[p].pc = "writing",
                      NEW l \in Overlooked(proc[p])
               PROVE  Missed(l, proc[p])
    BY DEF NothingOverlooked
  <2> DEFINE w == proc[p]
  <2>1. Guarded(w.target, w) /\ (w.req.op # "DELETE" => w.target # Calendar)
    BY DEF Inv, Safe, WritingGuarded
  <2>2. PICK id \in Written(w) : l \in EffectiveLocks(id)
    BY DEF Overlooked
  <2>3. l \in locks /\ Active(l) /\ l.depth \in Depths /\ l.target # NoRow
    BY <2>2 DEF EffectiveLocks, Inv, TypeOK, LocksOK, LockType, Rows
  <2>4. ~Due(l, w, w.target)
    BY <2>1, <2>3 DEF Overlooked, Guarded
  <2>5. l.target = id \/ (l.target = Calendar /\ l.depth = "infinity")
    BY <2>2 DEF EffectiveLocks
  <2>6. id \in {w.target, Calendar} /\ (id = Calendar => w.req.op = "DELETE" \/ w.target = NoRow)
    BY <2>1, <2>2 DEF Written
  <2>7. l.target = Calendar
    BY <2>4, <2>5, <2>6 DEF Due
  <2>8. CASE w.req.op = "DELETE"
    BY <2>4, <2>7, <2>8 DEF Due, Missed
  <2>9. CASE w.req.op # "DELETE"
    <3>1. w.found # NoRow /\ l.depth = "zero"
      BY <2>3, <2>4, <2>7, <2>9 DEF Due, Depths
    <3>2. w.target = NoRow
      BY <2>5, <2>6, <2>7, <2>9, <3>1
    <3> QED BY <2>7, <2>9, <3>1, <3>2 DEF Missed
  <2> QED BY <2>8, <2>9
<1> QED BY <1>1, Inductive, PTL

\* A refresh is an UPDATE: it brings back no lock that was removed meanwhile.
THEOREM NoReturn == Spec => LocksNeverReturn
<1> DEFINE Kept(l) == \E k \in locks : l = [k EXCEPT !.expires = l.expires]
           Stays == \A l \in locks' : l.token >= nextToken \/ Kept(l)
<1>1. Inv /\ [Next]_vars => Stays
  <2> SUFFICES ASSUME Inv, [Next]_vars PROVE Stays
    OBVIOUS
  <2>1. locks \subseteq LockType
    BY DEF Inv, TypeOK, LocksOK
  <2>2. \A l \in locks : Kept(l)
    <3> SUFFICES ASSUME NEW l \in locks PROVE l = [l EXCEPT !.expires = l.expires]
      OBVIOUS
    <3> QED BY <2>1 DEF LockType
  <2>3. ASSUME locks' \subseteq locks PROVE Stays
    BY <2>2, <2>3
  <2>4. ASSUME NEW p \in Procs, Grant(p) PROVE Stays
    <3>1. locks' = locks \cup {NewLock(proc[p])} /\ NewLock(proc[p]).token = nextToken
      BY <2>4 DEF Grant, NewLock, Lock
    <3>2. nextToken >= nextToken
      BY DEF Inv, TypeOK, CountersOK
    <3> QED BY <2>2, <3>1, <3>2
  <2>5. ASSUME NEW p \in Procs, Refresh(p) PROVE Stays
    <3> DEFINE until == now + GrantLockTimeout(proc[p].req.timeout)
    <3>1. locks' = {IF l.token = proc[p].lock.token THEN [l EXCEPT !.expires = until] ELSE l : l \in locks}
      BY <2>5 DEF Refresh, PersistRefreshedTimeout
    <3> SUFFICES ASSUME NEW l \in locks' PROVE Kept(l)
      OBVIOUS
    <3>2. PICK k \in locks :
            l = IF k.token = proc[p].lock.token THEN [k EXCEPT !.expires = until] ELSE k
      BY <3>1
    <3>3. k \in LockType
      BY <2>1
    <3>4. l = [k EXCEPT !.expires = l.expires]
      BY <3>2, <3>3 DEF LockType
    <3> QED BY <3>4
  <2>6. ASSUME NEW p \in Procs, Reading(p) \/ Unlock(p) \/ PutCreate(p) \/ Delete(p) \/ DeleteCalendar(p)
        PROVE  Stays
    <3>1. locks' \subseteq locks
      BY <2>6, ReadingReads DEF Unlock, PutCreate, Delete, DeleteCalendar, CreateObject, RemoveObject
    <3> QED BY <2>3, <3>1
  <2>7. CASE Deliver \/ Tick \/ UNCHANGED vars
    <3>1. locks' \subseteq locks
      BY <2>7 DEF Deliver, CreateObject, RemoveObject, Tick, vars
    <3> QED BY <2>3, <3>1
  <2> HIDE DEF Stays
  <2> QED
    BY <2>4, <2>5, <2>6, <2>7 DEF Next, Locking, Changing, Reading
<1>2. Inv /\ [Next]_vars =>
        [\A l \in locks' :
           \/ l.token >= nextToken
           \/ \E k \in locks : l = [k EXCEPT !.expires = l.expires]]_vars
  BY <1>1
<1> HIDE DEF Kept, Stays
<1> QED BY <1>2, Inductive, PTL DEF Spec, LocksNeverReturn
=============================================================================
