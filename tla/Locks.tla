--------------------------------- MODULE Locks ---------------------------------
(***************************************************************************)
(* WebDAV locks on the file tree: LOCK, its refresh and UNLOCK, and the    *)
(* check that PUT, MKCOL, DELETE, COPY and MOVE make before they write.    *)
(*                                                                         *)
(* Nothing joins a check to the write it is for: LOCK reads the locks of   *)
(* the target, then those of its subtree, then inserts; a refresh or an    *)
(* UNLOCK reads a lock and later updates or deletes it by id; a writer     *)
(* reads locks and later writes.  Each of these reads and writes is a step.*)
(* Bodies, quota and the change log are left out (FileTree has them).      *)
(***************************************************************************)
EXTENDS LockRules, FiniteSets, Sequences, SequencesExt, Functions

CONSTANTS Clients,
          Unlockers,       \* clients with the privilege DAV:unlock
          Procs,           \* requests the server works on at a time
          Requests,        \* requests clients may send
          InitialTree,
          MaxNow,          \* bound on the clock
          MaxRequests      \* bound on the requests sent

Root == 1
NoParent == 0
None == [kind |-> "none"]

ASSUME ClientAssumption == Unlockers \subseteq Clients
ASSUME RequestAssumption ==
  \A r \in Requests :
    /\ r.client \in Clients
    /\ r.scope \in Scopes /\ r.depth \in Depths
    /\ r.timeout \in Nat \cup {NoTimeout}
    /\ r.path \in Seq(STRING) /\ r.dest \in Seq(STRING)
ASSUME TreeAssumption ==
  LET last == Cardinality(DOMAIN InitialTree) IN
  /\ last \in Nat /\ DOMAIN InitialTree = 1..last /\ Root \in 1..last
  /\ InitialTree[Root].parent = NoParent
  /\ \A n \in 1..last :
       /\ InitialTree[n] \in [kind : {"coll", "file"}, parent : Nat, name : STRING]
       /\ n # Root => InitialTree[n].parent \in 1..last
ASSUME BoundsAssumption == MaxNow \in Nat /\ MaxRequests \in Nat

VARIABLES tree,     \* rows of collections and files: id -> [kind, parent, name]
          nextNode, \* the next id
          locks,    \* rows of collection_locks and file_locks
          granted,  \* granted[t]: the client that was sent token t
          now,      \* the clock
          proc,     \* the requests in progress
          sent,     \* how many requests were sent
          raced,    \* history: a step relied on a check that no longer held
          carried   \* history: a MOVE took along a lock of somebody else

tables == <<tree, nextNode, locks, granted>>
history == <<raced, carried>>
vars == <<tables, now, proc, sent, history>>

-----------------------------------------------------------------------------
(* The tree.                                                               *)

Node(kind, parent, name) == [kind |-> kind, parent |-> parent, name |-> name]

\* A row as a handler holds it.
Row(t, n) == [id |-> n, kind |-> t[n].kind, row |-> t[n]]

\* A child of that name: a collection before a file.
ChildrenAt(t, c, name) ==
  LET named == {n \in DOMAIN t : t[n].parent = c /\ t[n].name = name}
      colls == {n \in named : t[n].kind = "coll"}
  IN IF named = {} THEN {None}
     ELSE {Row(t, n) : n \in IF colls # {} THEN colls ELSE named}

\* What ResourcePathResolver.resolve() may return.
Resolve(t, path) ==
  LET at[i \in 0..Len(path)] ==
        IF i = 0 THEN {Row(t, Root)}
        ELSE UNION {IF x.kind = "coll" THEN ChildrenAt(t, x.id, path[i]) ELSE {None} :
                      x \in at[i - 1]}
  IN at[Len(path)]

Existing(t, path) == Resolve(t, path) \ {None}
ResolveColl(t, path) == {x \in Resolve(t, path) : x.kind = "coll"}

\* c and the collections above it; the walk is guarded against a cycle.
Upwards(t, c) ==
  LET up[i \in 0..Cardinality(DOMAIN t)] ==
        IF i = 0 THEN {c} \ {NoParent}
        ELSE up[i - 1] \cup ({t[x].parent : x \in up[i - 1] \cap DOMAIN t} \ {NoParent})
  IN up[Cardinality(DOMAIN t)]

\* n and everything below it.
Subtree(t, n) == {x \in DOMAIN t : n \in Upwards(t, x)}

-----------------------------------------------------------------------------
(* Lock evaluation.                                                        *)

Active(l) == IsActive(l, now)

\* getEffectiveWebDavLocks of a row at hand: its own locks, and the locks of
\* infinite depth of the collections above the parent the row names.
EffectiveLocks(x) ==
  {l \in locks :
     /\ Active(l)
     /\ l.target = x.id \/ (l.depth = "infinity" /\ l.target \in Upwards(tree, x.row.parent))}

\* A collection on the way up is gone: findOneByOrFail throws, a 500.
Evaluable(x) == Upwards(tree, x.row.parent) \subseteq DOMAIN tree

SubtreeHasConflict(x, scope) ==
  \E n \in Subtree(tree, x.id) \ {x.id} :
    WouldConflict(EffectiveLocks(Row(tree, n)), scope)

\* checkLockEnforcement: every lock in effect is covered by a token.
Covered(resources, tokens) ==
  \A x \in resources :
    Evaluable(x) /\ HasValidLockToken(EffectiveLocks(x), tokens)

\* The rest of the If header, one list per token: some token is really held.
\* The middleware goes on without a look at it when it has nothing to check.
IfHeaderHolds(resources, tokens) ==
  resources = {} \/ tokens = {} \/ \E x \in resources : \E l \in EffectiveLocks(x) : l.token \in tokens

-----------------------------------------------------------------------------
(* Requests: [op, client, path, dest, scope, depth, timeout, overwrite].   *)
(* A client submits no token or all it was ever granted; REFRESH and       *)
(* UNLOCK name one token, which anybody can read from DAV:lockdiscovery.   *)

Tokens == DOMAIN granted
OwnTokens(c) == {t \in Tokens : granted[t] = c}

Submissions(r) ==
  IF r.op \in {"REFRESH", "UNLOCK"} THEN {{t} : t \in Tokens} ELSE {{}, OwnTokens(r.client)}

Idle == [pc |-> "idle"]
Work(pc, r, tokens) ==
  [pc |-> pc, req |-> r, tokens |-> tokens, target |-> None, parent |-> None,
   existing |-> None, lock |-> None, createdEmptyResource |-> FALSE]

Begin(p, w) ==
  /\ proc' = [proc EXCEPT ![p] = w]
  /\ sent' = sent + 1
  /\ UNCHANGED <<tables, now, history>>

Continue(p, w) ==
  /\ proc' = [proc EXCEPT ![p] = w]
  /\ UNCHANGED <<tables, now, sent, history>>

\* The last step of a request.
Finish(p, stale) ==
  /\ proc' = [proc EXCEPT ![p] = Idle]
  /\ raced' = (raced \/ stale)
  /\ UNCHANGED <<now, sent>>

\* A refusal, an error, a lost connection or a crash.
GiveUp(p) == proc[p] # Idle /\ Continue(p, Idle)

-----------------------------------------------------------------------------
(* LOCK, refresh and UNLOCK.                                               *)

\* An unmapped URL, with what is checked before a file is made for it.
Reservations(r, tokens) ==
  IF r.path # <<>> /\ None \in Resolve(tree, r.path)
  THEN {[Work("reserve", r, tokens) EXCEPT !.parent = c] :
          c \in {c \in ResolveColl(tree, Front(r.path)) : Covered({c}, tokens)}}
  ELSE {}

Lookup(p) ==
  /\ proc[p] = Idle /\ sent < MaxRequests
  /\ \E r \in Requests : \E tokens \in Submissions(r) :
       /\ r.op \in {"LOCK", "REFRESH", "UNLOCK"}
       /\ \/ \E x \in Existing(tree, r.path) :
               Begin(p, [Work("found", r, tokens) EXCEPT !.target = x])
          \/ r.op = "LOCK" /\ \E w \in Reservations(r, tokens) : Begin(p, w)

Insert(node) ==
  /\ node.parent \in DOMAIN tree
  \* unique on the names of files in a collection, not on those of collections
  /\ node.kind = "file" => node \notin Range(tree)
  /\ tree' = [n \in DOMAIN tree \cup {nextNode} |-> IF n = nextNode THEN node ELSE tree[n]]
  /\ nextNode' = nextNode + 1

\* The empty file is committed before its lock is looked into.
Reserve(p) ==
  LET w == proc[p]
      node == Node("file", w.parent.id, Last(w.req.path))
  IN /\ w.pc = "reserve"
     /\ Insert(node)
     /\ proc' = [proc EXCEPT ![p] =
                   [w EXCEPT !.pc = "found", !.parent = None, !.createdEmptyResource = TRUE,
                             !.target = [id |-> nextNode, kind |-> "file", row |-> node]]]
     /\ raced' = (raced \/ w \notin Reservations(w.req, w.tokens))
     /\ UNCHANGED <<locks, granted, now, sent, carried>>

LocksSubtree(w) == w.req.depth = "infinity" /\ w.target.kind = "coll"

OwnLocksAllow(w) ==
  Evaluable(w.target) /\ ~WouldConflict(EffectiveLocks(w.target), w.req.scope)

SubtreeAllows(w) ==
  LocksSubtree(w) => ~SubtreeHasConflict(w.target, w.req.scope)

CheckOwnLocks(p) ==
  /\ proc[p].pc = "found" /\ proc[p].req.op = "LOCK"
  /\ OwnLocksAllow(proc[p])
  /\ Continue(p, [proc[p] EXCEPT !.pc = IF LocksSubtree(proc[p]) THEN "subtree" ELSE "free"])

CheckSubtree(p) ==
  /\ proc[p].pc = "subtree"
  /\ SubtreeAllows(proc[p])
  /\ Continue(p, [proc[p] EXCEPT !.pc = "free"])

\* A foreign key refuses a lock on a row that is gone.
Grant(p) ==
  LET w == proc[p]
      depth == IF w.target.kind = "coll" THEN w.req.depth ELSE "zero"
      lock == Lock(Len(granted) + 1, w.target.id, w.req.client, w.req.scope, depth,
                   now + GrantLockTimeout(w.req.timeout))
  IN /\ w.pc = "free"
     /\ w.target.id \in DOMAIN tree
     /\ locks' = locks \cup {lock}
     /\ granted' = Append(granted, w.req.client)
     /\ Finish(p, ~(tree[w.target.id] = w.target.row /\ OwnLocksAllow(w) /\ SubtreeAllows(w)))
     /\ UNCHANGED <<tree, nextNode, carried>>

\* Of the locks in effect on the target the one that is named: only its holder
\* may refresh it, others may remove it with the privilege to.
MatchLock(p) ==
  LET w == proc[p] IN
  /\ w.pc = "found" /\ w.req.op \in {"REFRESH", "UNLOCK"}
  /\ Evaluable(w.target)
  /\ \E l \in EffectiveLocks(w.target) :
       /\ l.token \in w.tokens
       /\ \/ l.holder = w.req.client
          \/ w.req.op = "UNLOCK" /\ w.req.client \in Unlockers
       /\ Continue(p, [w EXCEPT !.pc = "matched", !.lock = l])

\* save() of the lock at hand would insert it when it is gone.
PersistRefreshedTimeout_Mutant(l, expires) ==
  {k \in locks : k.token # l.token} \cup {[l EXCEPT !.expires = expires]}

\* UPDATE by id.
PersistRefreshedTimeout(l, expires) ==
  {IF k.token = l.token THEN [k EXCEPT !.expires = expires] ELSE k : k \in locks}

Refresh(p) ==
  LET w == proc[p] IN
  /\ w.pc = "matched" /\ w.req.op = "REFRESH"
  /\ locks' = PersistRefreshedTimeout(w.lock, now + GrantLockTimeout(w.req.timeout))
  /\ Finish(p, \E k \in locks : k.token = w.lock.token /\ ~Active(k))
  /\ UNCHANGED <<tree, nextNode, granted, carried>>

\* DELETE by id.
Unlock(p) ==
  LET w == proc[p] IN
  /\ w.pc = "matched" /\ w.req.op = "UNLOCK"
  /\ locks' = {k \in locks : k.token # w.lock.token}
  /\ Finish(p, FALSE)
  /\ UNCHANGED <<tree, nextNode, granted, carried>>

-----------------------------------------------------------------------------
(* The writers.                                                            *)

ParentsOf(t, x) == {Row(t, c) : c \in {x.row.parent} \cap DOMAIN t}

CheckedForDelete_Mutant(x) == {x}

CheckedForDelete(x) == {x} \cup ParentsOf(tree, x)

\* The collection a new member is for; nothing is checked when there is none.
CheckedForCreation(r) == {{c} \ {None} : c \in Resolve(tree, Front(r.path))}

\* What the lock-enforcement middleware checks: the alternatives are those of
\* the path's resolution.
CheckedByMiddleware(r) ==
  CASE r.op = "PUT" ->
         {{x} : x \in Existing(tree, r.path)}
         \cup IF None \in Resolve(tree, r.path) THEN CheckedForCreation(r) ELSE {}
    [] r.op = "MKCOL" -> CheckedForCreation(r)
    [] r.op = "DELETE" ->
         {IF x = None \/ x.id = Root THEN {} ELSE CheckedForDelete(x) :
            x \in Resolve(tree, r.path)}
    [] OTHER -> {}

Holding(w, x, c, e) == [w EXCEPT !.target = x, !.parent = c, !.existing = e]

\* COPY and MOVE check in the handler, which goes on with the rows it has.
Sources(r, tokens) ==
  {x \in Existing(tree, r.path) :
     r.op = "MOVE" => x.id # Root /\ Covered({x} \cup ParentsOf(tree, x), tokens)}

Parents(r, tokens) == {c \in ResolveColl(tree, Front(r.dest)) : Covered({c}, tokens)}

Destinations(r, tokens) ==
  {e \in Resolve(tree, r.dest) : e # None => r.overwrite /\ Covered({e}, tokens)}

DestinationChecks(r, tokens) ==
  IF r.op \notin {"COPY", "MOVE"} \/ r.dest = <<>> \/ IsPrefix(r.path, r.dest) THEN {}
  ELSE {Holding(Work("enforced", r, tokens), x, c, e) :
          x \in Sources(r, tokens), c \in Parents(r, tokens), e \in Destinations(r, tokens)}

Enforced(r, tokens) ==
  (IF \E checked \in CheckedByMiddleware(r) :
        Covered(checked, tokens) /\ IfHeaderHolds(checked, tokens)
   THEN {Work("enforced", r, tokens)} ELSE {})
  \cup DestinationChecks(r, tokens)

Enforce(p) ==
  /\ proc[p] = Idle /\ sent < MaxRequests
  /\ \E r \in Requests : \E tokens \in Submissions(r) :
       /\ r.op \in {"PUT", "MKCOL", "DELETE", "COPY", "MOVE"}
       /\ \E w \in Enforced(r, tokens) : Begin(p, w)

Enforcing(p, op) == proc[p].pc = "enforced" /\ proc[p].req.op = op

\* The check would not let the request through now, or with other rows.
Stale(p) == proc[p] \notin Enforced(proc[p].req, proc[p].tokens)

PutOverwrite(p) ==
  /\ Enforcing(p, "PUT")
  /\ \E x \in Existing(tree, proc[p].req.path) : x.kind = "file"
  /\ Finish(p, Stale(p))
  /\ UNCHANGED <<tables, carried>>

Create(p, op, kind) ==
  LET path == proc[p].req.path IN
  /\ Enforcing(p, op)
  /\ None \in Resolve(tree, path)
  /\ \E c \in ResolveColl(tree, Front(path)) : Insert(Node(kind, c.id, Last(path)))
  /\ Finish(p, Stale(p))
  /\ UNCHANGED <<locks, granted, carried>>

PutCreate(p) == Create(p, "PUT", "file")
Mkcol(p) == Create(p, "MKCOL", "coll")

\* ON DELETE CASCADE, for every row that goes.
LocksWithout(gone) == {l \in locks : l.target \notin gone}

Delete(p) ==
  /\ Enforcing(p, "DELETE")
  /\ \E x \in Existing(tree, proc[p].req.path) :
       /\ x.id # Root
       /\ tree' = Restrict(tree, DOMAIN tree \ Subtree(tree, x.id))
       /\ locks' = LocksWithout(Subtree(tree, x.id))
  /\ Finish(p, Stale(p))
  /\ UNCHANGED <<nextNode, granted, carried>>

\* What an overwritten destination takes with it.
Cleared(w) == IF w.existing = None THEN {} ELSE Subtree(tree, w.existing.id)

\* COPY of a file, or of a collection with Depth 0.
Copy(p) ==
  LET w == proc[p]
      copy == Node(w.target.kind, w.parent.id, Last(w.req.dest))
      kept == DOMAIN tree \ Cleared(w)
  IN /\ Enforcing(p, "COPY")
     /\ w.target.id \in kept \/ w.target.kind = "coll"
     /\ w.parent.id \in kept
     /\ copy.kind = "file" => \A n \in kept : tree[n] # copy
     /\ tree' = [n \in kept \cup {nextNode} |-> IF n = nextNode THEN copy ELSE tree[n]]
     /\ nextNode' = nextNode + 1
     /\ locks' = LocksWithout(Cleared(w))
     /\ Finish(p, Stale(p))
     /\ UNCHANGED <<granted, carried>>

\* The moved row, found by id, keeps its locks and everything below it theirs.
Move(p) ==
  LET w == proc[p]
      kept == DOMAIN tree \ Cleared(w)
      moved == Node(w.target.kind, w.parent.id, Last(w.req.dest))
  IN /\ Enforcing(p, "MOVE")
     /\ {w.target.row.parent, w.parent.id} \subseteq kept
     /\ moved.kind = "file" => \A n \in kept \ {w.target.id} : tree[n] # moved
     /\ tree' = [n \in kept |-> IF n = w.target.id THEN moved ELSE tree[n]]
     /\ locks' = LocksWithout(Cleared(w))
     /\ carried' = (carried \/ \E l \in locks' :
                      /\ Active(l) /\ l.token \notin w.tokens
                      /\ l.target \in Subtree(tree, w.target.id))
     /\ Finish(p, Stale(p))
     /\ UNCHANGED <<nextNode, granted>>

-----------------------------------------------------------------------------
Tick ==
  /\ now < MaxNow
  /\ now' = now + 1
  /\ UNCHANGED <<tables, proc, sent, history>>

Init ==
  /\ tree = InitialTree
  /\ nextNode = Cardinality(DOMAIN InitialTree) + 1
  /\ locks = {}
  /\ granted = <<>>
  /\ now = 0
  /\ proc = [p \in Procs |-> Idle]
  /\ sent = 0
  /\ raced = FALSE
  /\ carried = FALSE

Locking(p) ==
  \/ Lookup(p) \/ Reserve(p)
  \/ CheckOwnLocks(p) \/ CheckSubtree(p) \/ Grant(p)
  \/ MatchLock(p) \/ Refresh(p) \/ Unlock(p)

Writing(p) ==
  \/ Enforce(p)
  \/ PutOverwrite(p) \/ PutCreate(p) \/ Mkcol(p)
  \/ Delete(p) \/ Copy(p) \/ Move(p)

Next == Tick \/ \E p \in Procs : Locking(p) \/ Writing(p) \/ GiveUp(p)

Spec == Init /\ [][Next]_vars

-----------------------------------------------------------------------------
(* Properties.                                                             *)

TypeOK ==
  /\ Root \in DOMAIN tree /\ DOMAIN tree \subseteq 1..(nextNode - 1)
  /\ \A n \in DOMAIN tree : tree[n].kind \in {"coll", "file"}
  /\ \A l \in locks :
       /\ l.target \in DOMAIN tree
       /\ l.token \in Tokens /\ l.holder = granted[l.token]
       /\ l.scope \in Scopes /\ l.depth \in Depths
       /\ l.expires \in 0..(MaxNow + MaxTimeout)
  /\ \A l, k \in locks : l.token = k.token => l = k
  /\ now \in 0..MaxNow /\ sent \in 0..MaxRequests
  /\ raced \in BOOLEAN /\ carried \in BOOLEAN

\* A lock that was removed, or went with its resource, never comes back, and of
\* a lock nothing ever changes but the time it expires: a refresh is an UPDATE
\* by id of two columns, whatever became of the lock since it was read.
LocksNeverReturn ==
  [][\A l \in locks' :
       \/ l.token \notin Tokens
       \/ \E k \in locks : l = [k EXCEPT !.expires = l.expires]]_vars

\* By RFC 4918 and LockDepth, not by the walk of the code.
InScope(l, n) == l.target = n \/ (l.depth = "infinity" /\ n \in Subtree(tree, l.target))

\* No two clients hold locks on a resource, one of them exclusive
\* (LockScope: an exclusive lock "excludes every other lock holder").
NoConflict ==
  \A l, k \in {l \in locks : Active(l)} :
    l.scope = "exclusive" /\ l.holder # k.holder =>
      \A n \in DOMAIN tree : ~(InScope(l, n) /\ InScope(k, n))

\* Locks come to conflict in no way but two: two requests race, or a MOVE
\* takes along locks it has no token for.
ConflictsExplained == raced \/ carried \/ NoConflict

\* Unless raced, nobody adds, removes or replaces a member of a collection
\* while a lock on the collection, its own or from above, is not covered by the
\* tokens of the request (the resources each method has checked).
Members(t, c) == {n \in DOMAIN t : t[n].parent = c}
MembershipGuarded ==
  [][raced' \/ \A c \in DOMAIN tree \cap DOMAIN tree' :
       Members(tree, c) # Members(tree', c) =>
         \E p \in Procs :
           /\ proc'[p] # proc[p]
           /\ \A l \in locks : Active(l) /\ InScope(l, c) => l.token \in proc[p].tokens]_vars

-----------------------------------------------------------------------------
(* What comments of the code say and the code does not do.                 *)

\* lock.route.ts: a conflict "rejects the whole request with 423 Locked"
\* "before anything is written"; but a file is made for an unmapped URL.
RefusedBeforeWritten ==
  \A p \in Procs :
    proc[p].pc = "found" /\ proc[p].req.op = "LOCK" =>
      OwnLocksAllow(proc[p]) \/ ~proc[p].createdEmptyResource

\* move.route.ts and copy.route.ts: an overwritten destination needs covering
\* tokens, so that no lock is silently dropped with it.
NoSilentDrop ==
  [][\A p \in Procs : Copy(p) \/ Move(p) =>
       \A l \in locks :
         Active(l) /\ l.target \in Cleared(proc[p]) => l.token \in proc[p].tokens]_vars
=============================================================================
