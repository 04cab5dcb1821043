------------------------------- MODULE FileTree -------------------------------
(***************************************************************************)
(* The WebDAV file tree under /dav/{tenant}/files: PUT, MKCOL, DELETE,     *)
(* COPY and MOVE by concurrent requests, with the change log and the quota *)
(* counters they keep.                                                     *)
(*                                                                         *)
(* A handler first looks its paths up, outside any transaction, and takes  *)
(* every decision (404, 405, 409, 412) on the rows it gets.  It then runs  *)
(* one transaction that works with those rows, however old they are by     *)
(* then.  DELETE and COPY read once more inside it, before the UPDATE of   *)
(* the tenant row that makes the other charging transactions wait.  So a   *)
(* request is: lookup, (sum,) commit.                                      *)
(*                                                                         *)
(* A transaction is a function from the database to the database; it       *)
(* commits if its guards and the schema's constraints hold, and may always *)
(* roll back (507, 500, a lost connection, a crash), which changes nothing.*)
(***************************************************************************)
EXTENDS Integers, FiniteSets, Sequences, FiniteSetsExt, SequencesExt, Functions

CONSTANTS Users,
          Bodies,       \* file contents; the ETag of a body is the body
          Size,         \* Size[b]: bytes of body b
          UserLimit,    \* UserLimit[u]: quota_limit_bytes of u
          TenantLimit,
          Procs,        \* requests the server works on at a time
          Requests,     \* requests clients may send
          MaxRequests   \* bound on the requests sent

ASSUME UserAssumption == IsFiniteSet(Users)
ASSUME SizeAssumption == Size \in [Bodies -> Nat]
ASSUME RequestAssumption ==
  \A r \in Requests :
    /\ r.op \in {"PUT", "MKCOL", "DELETE", "COPY", "MOVE"}
    /\ r.user \in Users
    /\ r.path \in Seq(STRING) /\ r.dest \in Seq(STRING)
    /\ r.body \in Bodies
    /\ r.overwrite \in BOOLEAN /\ r.recursive \in BOOLEAN
ASSUME LimitAssumption == UserLimit \in [Users -> Nat] /\ TenantLimit \in Nat
ASSUME BoundsAssumption == MaxRequests \in Nat

Root == 1
None == [kind |-> "none"]
NoSums == [u \in {} |-> 0]

VARIABLES db,      \* the tables, see TypeOK
          proc,    \* the requests in progress
          sent,    \* how many requests were sent
          raced    \* history: some transaction committed on a stale lookup

vars == <<db, proc, sent, raced>>

-----------------------------------------------------------------------------
(* The tables.  A collection row is [parent, name], a file row [parent,    *)
(* name, etag, size, owner]; an id is never used twice.  d.log[c] is the   *)
(* change log of c in the order of seq, so c.syncSeq is its length.        *)

With(f, x, v) == [y \in DOMAIN f \cup {x} |-> IF y = x THEN v ELSE f[y]]
WithAll(f, g) == [y \in DOMAIN f \cup DOMAIN g |-> IF y \in DOMAIN g THEN g[y] ELSE f[y]]
Without(f, S) == Restrict(f, DOMAIN f \ S)

CollRow(parent, name) == [parent |-> parent, name |-> name]
FileRow(parent, name, body, size, owner) ==
  [parent |-> parent, name |-> name, etag |-> body, size |-> size, owner |-> owner]

\* A row as a handler holds it.
Coll(d, c) == [kind |-> "coll", id |-> c, row |-> d.colls[c]]
File(d, f) == [kind |-> "file", id |-> f, row |-> d.files[f]]

SubColls(d, c) == {x \in DOMAIN d.colls : d.colls[x].parent = c}
SubFiles(d, c) == {f \in DOMAIN d.files : d.files[f].parent = c}

\* The collections of the subtree of c, c included.
Subtree(d, c) ==
  LET depth == Cardinality(DOMAIN d.colls)
      upto[k \in 0..depth] ==
        IF k = 0 THEN {c} \cap DOMAIN d.colls
        ELSE upto[k - 1] \cup UNION {SubColls(d, x) : x \in upto[k - 1]}
  IN upto[depth]

FilesBelow(d, c) == UNION {SubFiles(d, x) : x \in Subtree(d, c)}

-----------------------------------------------------------------------------
(* ResourcePathResolver.                                                   *)

\* A child of that name: a collection before a file.
ChildrenAt(d, c, name) ==
  LET colls == {x \in SubColls(d, c) : d.colls[x].name = name}
      files == {f \in SubFiles(d, c) : d.files[f].name = name}
  IN CASE colls # {} -> {Coll(d, x) : x \in colls}
       [] colls = {} /\ files # {} -> {File(d, f) : f \in files}
       [] OTHER -> {None}

\* What resolve() may return: siblings of one name are possible.
Resolve(d, path) ==
  LET at[i \in 0..Len(path)] ==
        IF i = 0 THEN {Coll(d, Root)}
        ELSE UNION {IF t.kind = "coll" THEN ChildrenAt(d, t.id, path[i]) ELSE {None} :
                      t \in at[i - 1]}
  IN at[Len(path)]

ResolveColl(d, path) == {t \in Resolve(d, path) : t.kind = "coll"}
ResolveFile(d, path) == {t \in Resolve(d, path) : t.kind = "file"}

-----------------------------------------------------------------------------
(* Quota: applyQuotaDelta, and sumFileSizesByOwner.                        *)

QuotaAdmits_Mutant(d, u, delta) == d.used[u] <= UserLimit[u]

\* The guard of the two conditional UPDATEs.
QuotaAdmits(d, u, delta) ==
  delta <= 0 \/ (d.used[u] + delta <= UserLimit[u] /\ d.tenantUsed + delta <= TenantLimit)

\* GREATEST(..., 0)
Floor(n) == IF n < 0 THEN 0 ELSE n

ApplyQuotaDelta(d, u, delta) ==
  [d EXCEPT !.used = With(d.used, u, Floor(d.used[u] + delta)),
            !.tenantUsed = Floor(d.tenantUsed + delta)]

FileBytes(d, S) == MapThenSumSet(LAMBDA f : d.files[f].size, S)
OwnedBy(d, S, u) == {f \in S : d.files[f].owner = u}

\* Of a file the row at hand, of a collection what is below it now.
SumFileSizesByOwner(d, t) ==
  IF t.kind = "file" THEN [u \in Users |-> IF u = t.row.owner THEN t.row.size ELSE 0]
  ELSE [u \in Users |-> FileBytes(d, OwnedBy(d, FilesBelow(d, t.id), u))]

Total(sums) == MapThenSumSet(LAMBDA u : sums[u], DOMAIN sums)

\* One negative applyQuotaDelta per owner.
CreditOwners(d, sums) ==
  [d EXCEPT !.used = [u \in Users |-> Floor(d.used[u] - sums[u])],
            !.tenantUsed = Floor(d.tenantUsed - Total(sums))]

-----------------------------------------------------------------------------
(* The other pieces transactions are made of.                              *)

\* Without the increment the row takes the place of the last one.
RecordChange_Mutant(d, c, name, action) ==
  [d EXCEPT !.log[c] = Append(IF @ = <<>> THEN @ ELSE Front(@),
                              [name |-> name, action |-> action])]

RecordChange(d, c, name, action) ==
  [d EXCEPT !.log = With(d.log, c, Append(d.log[c], [name |-> name, action |-> action]))]

\* recordChange fails, and the transaction with it, if the row is gone.
Recordable(d, c) == c \in DOMAIN d.log

\* deleteRecursively of a resource, by its id.
DeleteRecursively(d, t) ==
  IF t.kind = "file"
  THEN [d EXCEPT !.files = Without(d.files, {t.id}), !.content = Without(d.content, {t.id})]
  ELSE LET colls == Subtree(d, t.id)
           files == FilesBelow(d, t.id)
       IN [d EXCEPT !.colls = Without(d.colls, colls), !.log = Without(d.log, colls),
                    !.files = Without(d.files, files), !.content = Without(d.content, files)]

InsertColl(d, parent, name) ==
  [d EXCEPT !.colls = With(d.colls, d.nextColl, CollRow(parent, name)),
            !.log = With(d.log, d.nextColl, <<>>),
            !.nextColl = d.nextColl + 1]

InsertFile(d, row, body) ==
  [d EXCEPT !.files = With(d.files, d.nextFile, row),
            !.content = With(d.content, d.nextFile, body),
            !.nextFile = d.nextFile + 1]

\* The k-th of the new ids goes to the k-th of the old ones.
NewId(next, S, x) == next + Cardinality({y \in S : y < x})

\* copyRecursively of a collection: rows for it and, unless Depth is 0, for
\* everything that is below it now; the copies are the requester's.
CopyCollection(d, c, parent, name, user, recursive) ==
  LET colls == IF recursive THEN Subtree(d, c) \cup {c} ELSE {c}
      files == IF recursive THEN FilesBelow(d, c) ELSE {}
      coll(x) == NewId(d.nextColl, colls, x)
      file(f) == NewId(d.nextFile, files, f)
      newColls == [y \in {coll(x) : x \in colls} |->
                     LET x == CHOOSE x \in colls : coll(x) = y IN
                     IF x = c THEN CollRow(parent, name)
                     ELSE CollRow(coll(d.colls[x].parent), d.colls[x].name)]
      oldFile(g) == CHOOSE f \in files : file(f) = g
      newFiles == [g \in {file(f) : f \in files} |->
                     LET f == oldFile(g) IN
                     FileRow(coll(d.files[f].parent), d.files[f].name,
                             d.content[f], d.files[f].size, user)]
  IN [d EXCEPT !.colls = WithAll(d.colls, newColls),
               !.log = WithAll(d.log, [y \in DOMAIN newColls |-> <<>>]),
               !.files = WithAll(d.files, newFiles),
               !.content = WithAll(d.content, [g \in DOMAIN newFiles |-> d.content[oldFile(g)]]),
               !.nextColl = d.nextColl + Cardinality(colls),
               !.nextFile = d.nextFile + Cardinality(files)]

\* Of a file: the size of the row at hand, the content of now.
CopyTo(d, t, parent, name, user, recursive) ==
  IF t.kind = "coll" THEN CopyCollection(d, t.id, parent, name, user, recursive)
  ELSE InsertFile(d, FileRow(parent, name, d.content[t.id], t.row.size, user),
                  d.content[t.id])

\* copyRecursively reads the content of every file it copies.
Copyable(d, t, recursive) ==
  IF t.kind = "file" THEN t.id \in DOMAIN d.content
  ELSE recursive => FilesBelow(d, t.id) \subseteq DOMAIN d.content

\* Foreign keys, and the unique index on (collection_id, name) of files.
\* There is none on the names of collections.
ConstraintsHold(d) ==
  /\ \A c \in DOMAIN d.colls \ {Root} : d.colls[c].parent \in DOMAIN d.colls
  /\ \A f \in DOMAIN d.files : d.files[f].parent \in DOMAIN d.colls
  /\ \A f, g \in DOMAIN d.files :
       d.files[f].parent = d.files[g].parent /\ d.files[f].name = d.files[g].name => f = g

-----------------------------------------------------------------------------
(* Lookups.  A request is [op, user, path, dest, body, ifMatch, overwrite, *)
(* recursive]; Lookups(d, r) are the states of work its handler may go on  *)
(* with, none if it answers with an error.                                 *)

NoMatch == "no If-Match header"

Found(r, target, parent, existing) ==
  [pc |-> "found", req |-> r, target |-> target, parent |-> parent,
   existing |-> existing, sums |-> NoSums]
Idle == [pc |-> "idle"]

IfMatchSatisfied(r, t) == r.ifMatch = NoMatch \/ r.ifMatch = t.row.etag

DestinationWithinSource_Mutant(r) == r.path = r.dest

\* isDestinationWithinSource
DestinationWithinSource(r) == IsPrefix(r.path, r.dest)

PutLookups(d, r) ==
  {Found(r, t, None, None) : t \in {t \in ResolveFile(d, r.path) : IfMatchSatisfied(r, t)}}
  \cup IF None \in Resolve(d, r.path)
       THEN {Found(r, None, c, None) : c \in ResolveColl(d, Front(r.path))}
       ELSE {}

MkcolLookups(d, r) ==
  IF None \in Resolve(d, r.path)
  THEN {Found(r, None, c, None) : c \in ResolveColl(d, Front(r.path))}
  ELSE {}

DeleteLookups(d, r) ==
  {Found(r, t, None, None) :
     t \in {t \in Resolve(d, r.path) \ {None} : t # Coll(d, Root)}}

\* The destination of COPY and MOVE: its parent, and what is there now.
DestinationLookups(d, r, sources) ==
  IF r.dest = <<>> \/ DestinationWithinSource(r) THEN {}
  ELSE {Found(r, s, c, x) :
          s \in sources,
          c \in ResolveColl(d, Front(r.dest)),
          x \in {x \in Resolve(d, r.dest) : x # None => r.overwrite}}

CopyLookups(d, r) ==
  DestinationLookups(d, r, Resolve(d, r.path) \ {None})

MoveLookups(d, r) ==
  DestinationLookups(d, r, {t \in Resolve(d, r.path) \ {None} : t # Coll(d, Root)})

Lookups(d, r) ==
  CASE r.op = "PUT" -> PutLookups(d, r)
    [] r.op = "MKCOL" -> MkcolLookups(d, r)
    [] r.op = "DELETE" -> DeleteLookups(d, r)
    [] r.op = "COPY" -> CopyLookups(d, r)
    [] r.op = "MOVE" -> MoveLookups(d, r)

Lookup(p) ==
  /\ proc[p] = Idle
  /\ sent < MaxRequests
  /\ \E r \in Requests : \E w \in Lookups(db, r) : proc' = [proc EXCEPT ![p] = w]
  /\ sent' = sent + 1
  /\ UNCHANGED <<db, raced>>

-----------------------------------------------------------------------------
(* Transactions.                                                           *)

\* What DELETE and COPY sum before the first UPDATE of their transaction: of
\* an overwriting COPY the destination, otherwise what is deleted or copied.
Summed(w) == IF w.existing # None THEN w.existing ELSE w.target

SumsNow(d, w) == SumFileSizesByOwner(d, Summed(w))

SumFileSizes(p) ==
  /\ proc[p].pc = "found"
  /\ proc[p].req.op \in {"DELETE", "COPY"}
  /\ proc' = [proc EXCEPT ![p].pc = "summed", ![p].sums = SumsNow(db, proc[p])]
  /\ UNCHANGED <<db, sent, raced>>

\* The lookup, and the sum, would come out the same now.
Fresh(w) ==
  /\ [w EXCEPT !.pc = "found", !.sums = NoSums] \in Lookups(db, w.req)
  /\ w.pc = "summed" => w.sums = SumsNow(db, w)

Commit(p, d) ==
  /\ ConstraintsHold(d)
  /\ db' = d
  /\ proc' = [proc EXCEPT ![p] = Idle]
  /\ raced' = (raced \/ ~Fresh(proc[p]))
  /\ UNCHANGED sent

PutDelta_Mutant(t, body) == 0

PutDelta(t, body) == Size[body] - t.row.size

SaveFile_Mutant(d, t, body) ==
  [d EXCEPT !.files[t.id].size = Size[body], !.content[t.id] = body]

\* save() of the row at hand: an UPDATE of every column in which it differs
\* from the stored row, an INSERT when that is gone.  The content row is
\* updated, never inserted.
SaveFile(d, t, body) ==
  LET row == FileRow(t.row.parent, t.row.name, body, Size[body], t.row.owner)
  IN [d EXCEPT !.files = With(d.files, t.id, row),
               !.content = IF t.id \in DOMAIN d.content THEN With(d.content, t.id, body)
                           ELSE d.content]

\* PUT over a file, charged to the owner of the file.
PutOverwrite(p) ==
  LET w == proc[p]
      t == w.target
      body == w.req.body
      charged == ApplyQuotaDelta(db, t.row.owner, PutDelta(t, body))
      saved == SaveFile(charged, t, body)
  IN /\ w.pc = "found" /\ w.req.op = "PUT" /\ t # None
     /\ QuotaAdmits(db, t.row.owner, PutDelta(t, body))
     /\ Recordable(saved, t.row.parent)
     /\ Commit(p, RecordChange(saved, t.row.parent, Last(w.req.path), "modified"))

\* PUT of a new file, charged to the requester.
PutCreate(p) ==
  LET w == proc[p]
      body == w.req.body
      c == w.parent.id
      name == Last(w.req.path)
      charged == ApplyQuotaDelta(db, w.req.user, Size[body])
      made == InsertFile(charged, FileRow(c, name, body, Size[body], w.req.user), body)
  IN /\ w.pc = "found" /\ w.req.op = "PUT" /\ w.target = None
     /\ QuotaAdmits(db, w.req.user, Size[body])
     /\ Recordable(made, c)
     /\ Commit(p, RecordChange(made, c, name, "added"))

Mkcol(p) ==
  LET w == proc[p]
      c == w.parent.id
      name == Last(w.req.path)
      made == InsertColl(db, c, name)
  IN /\ w.pc = "found" /\ w.req.op = "MKCOL"
     /\ Recordable(made, c)
     /\ Commit(p, RecordChange(made, c, name, "added"))

\* The parent and the name are those of the row that was looked up.
Delete(p) ==
  LET w == proc[p]
      t == w.target
      gone == DeleteRecursively(CreditOwners(db, w.sums), t)
  IN /\ w.pc = "summed" /\ w.req.op = "DELETE"
     /\ Recordable(gone, t.row.parent)
     /\ Commit(p, RecordChange(gone, t.row.parent, t.row.name, "deleted"))

\* An existing destination is credited and deleted, then the source summed;
\* without one the source was summed before.
Copy(p) ==
  LET w == proc[p]
      t == w.target
      recursive == w.req.recursive
      name == Last(w.req.dest)
      cleared == IF w.existing = None THEN db
                 ELSE DeleteRecursively(CreditOwners(db, w.sums), w.existing)
      added == IF t.kind = "coll" /\ ~recursive THEN 0
               ELSE IF w.existing = None THEN Total(w.sums)
               ELSE Total(SumFileSizesByOwner(cleared, t))
      charged == ApplyQuotaDelta(cleared, w.req.user, added)
      action == IF w.existing = None THEN "added" ELSE "modified"
  IN /\ w.pc = "summed" /\ w.req.op = "COPY"
     /\ QuotaAdmits(cleared, w.req.user, added)
     /\ Copyable(charged, t, recursive)
     /\ Recordable(charged, w.parent.id)
     /\ Commit(p, RecordChange(
                    CopyTo(charged, t, w.parent.id, name, w.req.user, recursive),
                    w.parent.id, name, action))

\* The row of the moved resource, if it is still there, gets a new parent and
\* name.
Relocate(d, t, parent, name) ==
  CASE t.kind = "coll" /\ t.id \in DOMAIN d.colls ->
         [d EXCEPT !.colls = With(d.colls, t.id, CollRow(parent, name))]
    [] t.kind = "file" /\ t.id \in DOMAIN d.files ->
         LET f == d.files[t.id]
         IN [d EXCEPT !.files =
               With(d.files, t.id, FileRow(parent, name, f.etag, f.size, f.owner))]
    [] OTHER -> d

Relogged_Mutant(d, w) ==
  RecordChange(d, w.parent.id, Last(w.req.dest), "added")

\* Two rows: one for the old parent, one for the new one.
Relogged(d, w) ==
  RecordChange(RecordChange(d, w.target.row.parent, w.target.row.name, "deleted"),
               w.parent.id, Last(w.req.dest), "added")

\* An existing destination is deleted; no quota counter is touched.
Move(p) ==
  LET w == proc[p]
      t == w.target
      cleared == IF w.existing = None THEN db ELSE DeleteRecursively(db, w.existing)
      moved == Relocate(cleared, t, w.parent.id, Last(w.req.dest))
  IN /\ w.pc = "found" /\ w.req.op = "MOVE"
     /\ Recordable(moved, t.row.parent) /\ Recordable(moved, w.parent.id)
     /\ Commit(p, Relogged(moved, w))

\* 507, 500, a lost connection or a crash: the transaction leaves nothing.
RollBack(p) ==
  /\ proc[p] # Idle
  /\ proc' = [proc EXCEPT ![p] = Idle]
  /\ UNCHANGED <<db, sent, raced>>

-----------------------------------------------------------------------------
\* A tenant as bootstrap leaves it: an empty root collection.
NewTenant ==
  [colls |-> [c \in {Root} |-> CollRow(0, "")],
   files |-> [f \in {} |-> None],
   content |-> [f \in {} |-> None],
   log |-> [c \in {Root} |-> <<>>],
   used |-> [u \in Users |-> 0],
   tenantUsed |-> 0,
   nextColl |-> Root + 1,
   nextFile |-> 1]

InitWith(d) ==
  /\ db = d
  /\ proc = [p \in Procs |-> Idle]
  /\ sent = 0
  /\ raced = FALSE

Init == InitWith(NewTenant)

Step(p) ==
  \/ Lookup(p)
  \/ SumFileSizes(p)
  \/ PutOverwrite(p)
  \/ PutCreate(p)
  \/ Mkcol(p)
  \/ Delete(p)
  \/ Copy(p)
  \/ Move(p)
  \/ RollBack(p)

Next == \E p \in Procs : Step(p)

Spec == Init /\ [][Next]_vars

-----------------------------------------------------------------------------
(* Properties.  "Unless raced" confines one to executions in which every   *)
(* transaction finds what its lookup found: requests overlap, but commit   *)
(* as if each had been alone.  The others hold whatever was raced.         *)

CollIds == 1..(db.nextColl - 1)
FileIds == 1..(db.nextFile - 1)

TypeOK ==
  /\ Root \in DOMAIN db.colls /\ DOMAIN db.colls \subseteq CollIds
  /\ \A c \in DOMAIN db.colls : db.colls[c].parent \in CollIds \cup {0}
  /\ DOMAIN db.log = DOMAIN db.colls
  /\ DOMAIN db.files \subseteq FileIds
  /\ \A f \in DOMAIN db.files :
       /\ db.files[f].parent \in CollIds
       /\ db.files[f].etag \in Bodies
       /\ db.files[f].size \in Nat
       /\ db.files[f].owner \in Users
  /\ DOMAIN db.content \subseteq DOMAIN db.files
  /\ db.used \in [Users -> Nat] /\ db.tenantUsed \in Nat
  /\ \A p \in Procs : proc[p] = Idle \/ proc[p].pc \in {"found", "summed"}
  /\ sent \in 0..MaxRequests
  /\ raced \in BOOLEAN

\* No limit is ever exceeded and no counter falls below zero, however requests
\* interleave: the check is the WHERE of the UPDATE that charges, and a credit
\* given twice stops at zero (applyQuotaDelta).
WithinLimit ==
  /\ \A u \in Users : db.used[u] \in 0..UserLimit[u]
  /\ db.tenantUsed \in 0..TenantLimit

StoredBytes(u) == FileBytes(db, OwnedBy(db, DOMAIN db.files, u))

\* Unless raced, no stored byte is uncharged, and the tenant's counter is the
\* sum of its users' (what the handlers charge and credit against what they
\* store; a user may be charged too much, see QuotaExact).
QuotaCoversStored ==
  raced \/ /\ \A u \in Users : StoredBytes(u) <= db.used[u]
           /\ db.tenantUsed = Total(db.used)

\* Who has the name n in collection c, with the version a client would see.
Holders(d, c, n) ==
  {Coll(d, x) : x \in {x \in SubColls(d, c) : d.colls[x].name = n}}
  \cup {File(d, f) : f \in {f \in SubFiles(d, c) : d.files[f].name = n}}

MemberNames(d, c) ==
  {d.colls[x].name : x \in SubColls(d, c)} \cup {d.files[f].name : f \in SubFiles(d, c)}

RowsOf(d, c, n) == {i \in DOMAIN d.log[c] : d.log[c][i].name = n}

DeletedLast(d, c, n) ==
  RowsOf(d, c, n) # {} /\ d.log[c][Max(RowsOf(d, c, n))].action = "deleted"

LoggedNames(d, c) == {d.log[c][i].name : i \in DOMAIN d.log[c]}

\* Unless raced, the last row of a name says "deleted" exactly if the
\* collection has no such member: what a sync report answers from.
LogAgrees ==
  raced \/ \A c \in DOMAIN db.colls : \A n \in LoggedNames(db, c) :
              DeletedLast(db, c, n) <=> n \notin MemberNames(db, c)

\* Unless raced, no member of a collection comes, goes, is replaced or gets
\* another ETag without a new row of its name in that collection's log.
MembershipLogged ==
  [][raced' \/ \A c \in DOMAIN db.colls \cap DOMAIN db'.colls :
        \A n \in MemberNames(db, c) \cup MemberNames(db', c) :
          Holders(db, c, n) # Holders(db', c, n) =>
            \E i \in RowsOf(db', c, n) : i > Len(db.log[c])]_vars

\* Unless raced, the resources form one tree: each is below the root and no
\* two members of a collection share a name, so a path has one meaning
\* (isDestinationWithinSource, the 405 of MKCOL, Overwrite).
TreeIsSound ==
  raced \/ /\ Subtree(db, Root) = DOMAIN db.colls
           /\ \A c \in DOMAIN db.colls : \A n \in MemberNames(db, c) :
                Cardinality(Holders(db, c, n)) = 1

\* Unless raced, the ETag and the size of every file are those of the content
\* it has.
ContentsMatch ==
  raced \/ \A f \in DOMAIN db.files :
              /\ f \in DOMAIN db.content
              /\ db.files[f].etag = db.content[f]
              /\ db.files[f].size = Size[db.content[f]]

-----------------------------------------------------------------------------
(* What comments of the code say and the code does not do.                 *)

\* copy.route.ts: "The source is untouched."
CopyKeepsSource ==
  [][\A p \in Procs : Copy(p) /\ proc[p].target.kind = "coll" =>
        LET c == proc[p].target.id IN
        /\ Subtree(db, c) \subseteq DOMAIN db'.colls
        /\ FilesBelow(db, c) \subseteq DOMAIN db'.files]_vars

\* apply-quota-delta.ts: every delete of resource content calls it.
QuotaExact ==
  raced \/ \A u \in Users : db.used[u] = StoredBytes(u)

\* put.route.ts: If-Match prevents a lost update from concurrent writers.
NoLostUpdate ==
  [][\A p \in Procs : PutOverwrite(p) /\ proc[p].req.ifMatch # NoMatch =>
        LET f == proc[p].target.id IN
        f \in DOMAIN db.files /\ db.files[f].etag = proc[p].req.ifMatch]_vars

\* sync-collection-report.ts: a changed member that exists is reported with
\* its live state.
DeletedMeansGone ==
  \A c \in DOMAIN db.colls : \A n \in MemberNames(db, c) : ~DeletedLast(db, c, n)
=============================================================================
