---------------------------- MODULE SyncCollection ----------------------------
(***************************************************************************)
(* The {DAV:}sync-collection REPORT of one collection path, run against    *)
(* concurrent writers.  The handler is not one transaction: it reads the   *)
(* collection row (id and syncSeq), later the members, later the change    *)
(* log, and answers with the token of the first read.  A writer's          *)
(* transaction is one step, because recordChange's UPDATE of the           *)
(* collection row holds that row's lock until the commit.                  *)
(*                                                                         *)
(* The client is external: it keeps the last token, replaces its copy by   *)
(* the answer to an empty token and merges every other answer into it.     *)
(***************************************************************************)
EXTENDS Integers

CONSTANTS Segments, \* path segments of the collection's direct children
          Etags,    \* versions of a child
          Absent,   \* no child of that name (a 404 response)
          Clients,
          Colls,    \* ids a collection row may get
          NoColl,   \* no collection at the path
          MaxSeq    \* bound on syncSeq: writers stop there

ASSUME AbsentAssumption == Absent \notin Etags
ASSUME NoCollAssumption == NoColl \notin Colls
ASSUME MaxSeqAssumption == MaxSeq \in Nat

VARIABLES home,     \* id of the collection row at the path, or NoColl
          issued,   \* ids ever given to a collection row
          member,   \* the children: name -> etag
          syncSeq,  \* collection.syncSeq
          changes,  \* the rows of the change-log table of this collection
          pc,       \* where the report of a client is
          target,   \* the collection row as the report read it
          listed,   \* the members as the report read them
          token,    \* the client's sync token
          view      \* the client's copy of the collection

store == <<home, issued, member, syncSeq, changes>>
request == <<pc, target, listed>>
replica == <<token, view>>
syncVars == <<store, request, replica>>

Actions == {"added", "modified", "deleted"}
Rows == [seq : Nat \ {0}, name : Segments, action : Actions]
Tokens == [coll : Colls \cup {NoColl}, seq : Nat]
EmptyToken == [coll |-> NoColl, seq |-> 0]
Contents == [Segments -> Etags \cup {Absent}]
Empty == [n \in Segments |-> Absent]

SyncInit ==
  /\ home = NoColl
  /\ issued = {}
  /\ member = Empty
  /\ syncSeq = 0
  /\ changes = {}
  /\ pc = [c \in Clients |-> "idle"]
  /\ target = [c \in Clients |-> EmptyToken]
  /\ listed = [c \in Clients |-> Empty]
  /\ token = [c \in Clients |-> EmptyToken]
  /\ view = [c \in Clients |-> Empty]

-----------------------------------------------------------------------------
(* Writers.  A definition whose name ends in _Mutant is a plausible error   *)
(* of the one that follows it; nothing but mutation testing uses it.       *)

LogRow(seq, n, action) == [seq |-> seq, name |-> n, action |-> action]

\* recordChange, `count` times, for `rows`.
RecordChanges(rows, count) ==
  /\ home # NoColl
  /\ syncSeq + count <= MaxSeq
  /\ syncSeq' = syncSeq + count
  /\ changes' = changes \cup rows

\* PUT, COPY, MKCOL or a MOVE from elsewhere makes a child.
AddMember(n, e) ==
  /\ member[n] = Absent
  /\ RecordChanges({LogRow(syncSeq + 1, n, "added")}, 1)
  /\ member' = [member EXCEPT ![n] = e]
  /\ UNCHANGED <<home, issued, request, replica>>

\* PUT or COPY over a child.
ModifyMember(n, e) ==
  /\ member[n] # Absent
  /\ RecordChanges({LogRow(syncSeq + 1, n, "modified")}, 1)
  /\ member' = [member EXCEPT ![n] = e]
  /\ UNCHANGED <<home, issued, request, replica>>

\* DELETE of a child, or a MOVE of it to elsewhere.
RemoveMember(n) ==
  /\ member[n] # Absent
  /\ RecordChanges({LogRow(syncSeq + 1, n, "deleted")}, 1)
  /\ member' = [member EXCEPT ![n] = Absent]
  /\ UNCHANGED <<home, issued, request, replica>>

\* The two rows of a MOVE within the collection.
RenameRows(n, m) ==
  {LogRow(syncSeq + 1, n, "deleted"), LogRow(syncSeq + 2, m, "added")}

RenameMember(n, m) ==
  /\ n # m
  /\ member[n] # Absent
  /\ RecordChanges(RenameRows(n, m), 2)
  /\ member' = [member EXCEPT ![m] = member[n], ![n] = Absent]
  /\ UNCHANGED <<home, issued, request, replica>>

\* MKCOL of the path: a row with a new id, an empty log and syncSeq 0.
MakeCollection(k) ==
  /\ home = NoColl
  /\ k \notin issued
  /\ home' = k
  /\ issued' = issued \cup {k}
  /\ UNCHANGED <<member, syncSeq, changes, request, replica>>

\* DELETE of the path takes the children and the log with it.
DeleteCollection ==
  /\ home # NoColl
  /\ home' = NoColl
  /\ member' = Empty
  /\ syncSeq' = 0
  /\ changes' = {}
  /\ UNCHANGED <<issued, request, replica>>

-----------------------------------------------------------------------------
(* The report.                                                             *)

ValidateSyncToken_Mutant(t, id, current) == t.seq <= current

ValidateSyncToken(t, id, current) ==
  t = EmptyToken \/ (t.coll = id /\ t.seq <= current)

\* resolveTarget and validateSyncToken; a path with no collection is 404.
ResolveTarget(c) ==
  /\ pc[c] = "idle"
  /\ home # NoColl
  /\ ValidateSyncToken(token[c], home, syncSeq)
  /\ target' = [target EXCEPT ![c] = [coll |-> home, seq |-> syncSeq]]
  /\ pc' = [pc EXCEPT ![c] = "resolved"]
  /\ UNCHANGED <<store, listed, replica>>

\* 403 valid-sync-token: the client starts over with an empty token.
RejectToken(c) ==
  /\ pc[c] = "idle"
  /\ home # NoColl
  /\ ~ValidateSyncToken(token[c], home, syncSeq)
  /\ token' = [token EXCEPT ![c] = EmptyToken]
  /\ UNCHANGED <<store, request, view>>

\* listMembers of the row that was resolved, which may be gone by now.
ListMembers(c) ==
  /\ pc[c] = "resolved"
  /\ listed' = [listed EXCEPT ![c] =
                  IF home = target[c].coll THEN member ELSE Empty]
  /\ pc' = [pc EXCEPT ![c] = "listed"]
  /\ UNCHANGED <<store, target, replica>>

IsInitialSync_Mutant(c) == token[c].seq = 0

\* The raw request value decides, not the sequence number it decodes to.
IsInitialSync(c) == token[c] = EmptyToken

ChangesSince(c) ==
  IF home = target[c].coll THEN {r \in changes : r.seq > token[c].seq} ELSE {}

\* The last row of n in `rows` is a deletion.
DeletedLast(rows, n) ==
  \E r \in rows : /\ r.name = n
                  /\ r.action = "deleted"
                  /\ \A q \in rows : q.name = n => q.seq <= r.seq

\* The names the multistatus has a response for.
ReportedNames(c) ==
  IF IsInitialSync(c)
  THEN {n \in Segments : listed[c][n] # Absent}
  ELSE {r.name : r \in ChangesSince(c)}

\* Its response: 404 (Absent), or 200 with the properties that were listed.
Response(c, n) ==
  IF ~IsInitialSync(c) /\ DeletedLast(ChangesSince(c), n)
  THEN Absent
  ELSE listed[c][n]

\* The counter as it is once the log was read.
IssuedTokenLate_Mutant(c) == [coll |-> target[c].coll, seq |-> syncSeq]

\* The token of the answer: that of the row the report read first.
IssuedToken(c) == target[c]

\* loadChangesSince, the multistatus, and the client taking it in: also of a
\* collection that is gone by now, whose log rows went with it.
AnswerChanges(c) ==
  /\ pc[c] = "listed"
  /\ view' = [view EXCEPT ![c] =
                [n \in Segments |->
                   IF n \in ReportedNames(c) THEN Response(c, n)
                   ELSE IF token[c] = EmptyToken THEN Absent
                   ELSE view[c][n]]]
  /\ token' = [token EXCEPT ![c] = IssuedToken(c)]
  /\ pc' = [pc EXCEPT ![c] = "idle"]
  /\ UNCHANGED <<store, target, listed>>

\* A dropped connection, a timeout, or in the file tree's domain a 500 because
\* the hrefs of a collection that is gone cannot be resolved.
LoseAnswer(c) ==
  /\ pc[c] # "idle"
  /\ pc' = [pc EXCEPT ![c] = "idle"]
  /\ UNCHANGED <<store, target, listed, replica>>

-----------------------------------------------------------------------------
WriteMembers ==
  \/ \E n \in Segments, e \in Etags : AddMember(n, e) \/ ModifyMember(n, e)
  \/ \E n \in Segments : RemoveMember(n)
  \/ \E n, m \in Segments : RenameMember(n, m)
  \/ \E k \in Colls : MakeCollection(k)
  \/ DeleteCollection

Report(c) ==
  ResolveTarget(c) \/ RejectToken(c) \/ ListMembers(c) \/ AnswerChanges(c)

SyncNext == WriteMembers \/ \E c \in Clients : Report(c) \/ LoseAnswer(c)

\* A client keeps asking and the server keeps working; reports may fail and
\* answers get lost, but not all of them.
Fairness ==
  \A c \in Clients :
    /\ WF_syncVars(ResolveTarget(c) \/ RejectToken(c))
    /\ SF_syncVars(ListMembers(c))
    /\ SF_syncVars(AnswerChanges(c))

SyncSpec == SyncInit /\ [][SyncNext]_syncVars
FairSpec == SyncSpec /\ Fairness

-----------------------------------------------------------------------------
(* Properties.                                                             *)

TypeOK ==
  /\ home \in Colls \cup {NoColl}
  /\ issued \in SUBSET Colls
  /\ member \in Contents
  /\ syncSeq \in Nat
  /\ changes \in SUBSET Rows
  /\ pc \in [Clients -> {"idle", "resolved", "listed"}]
  /\ target \in [Clients -> Tokens]
  /\ listed \in [Clients -> Contents]
  /\ token \in [Clients -> Tokens]
  /\ view \in [Clients -> Contents]

\* The log numbers its rows 1..syncSeq with no gap and no duplicate, which is
\* what makes a token of a sequence number a position in it (recordChange).
LogIsDense ==
  /\ \A r \in changes : r.seq <= syncSeq
  /\ \A s \in 1..syncSeq : \E r \in changes : r.seq = s
  /\ \A r, q \in changes : r.seq = q.seq => r = q

\* The last row of a name says "deleted" only when there is no such child.
\* handle() answers 404 on that row without a look at the members.
DeletedMeansGone ==
  \A n \in Segments : DeletedLast(changes, n) => member[n] = Absent

\* n changed after token t was issued, by the log; a token that is not of the
\* collection at the path vouches for nothing.
ChangedSince(n, t) ==
  \/ home = NoColl \/ t.coll # home
  \/ \E r \in changes : r.name = n /\ r.seq > t.seq

\* No change is ever missed: where a client's copy and the collection differ,
\* the client's token still lets the next report say so, whatever was written
\* between the three reads of the reports it made so far.
NoMissedChange ==
  \A c \in Clients, n \in Segments :
    view[c][n] # member[n] => ChangedSince(n, token[c])

\* A token never moves back within one collection (encodeSyncToken).
TokensAdvance ==
  [][\A c \in Clients :
       token'[c].coll = token[c].coll => token[c].seq <= token'[c].seq]_syncVars

\* When writing stops every client ends up with the collection as it is.
EventuallyInSync ==
  \A c \in Clients : <>[](home # NoColl => view[c] = member)

\* The promise, with what is owed read off the token and the log.
Owed == [c \in Clients |-> {n \in Segments : ChangedSince(n, token[c])}]
Promise == INSTANCE SyncPromise
             WITH member <- member, view <- view, owed <- Owed
KeepsPromise == Promise!Spec
=============================================================================
