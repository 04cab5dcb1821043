-------------------------- MODULE ReportsProofs --------------------------
(***************************************************************************)
(* Proofs about the REPORT handlers, for all names, ids, objects, clients  *)
(* and bounds.                                                             *)
(*                                                                         *)
(* sync-collection (SyncCollection).  NoMissedChange is not inductive: it  *)
(* needs to know of a report in flight that its token is no younger than   *)
(* its listing, and of the log that a 404 for a deleted name is the truth. *)
(*                                                                         *)
(* calendar-query, calendar-multiget and free-busy-query (CalendarQuery).  *)
(* That a prefilter hides nothing and an expansion leaves nothing out are  *)
(* facts about Recurrence; a report rests on them at each page.  What      *)
(* paging loses or repeats is accounted for, page by page, by what left    *)
(* and what joined the rows before the offset (Paging); what has been      *)
(* accounted for once stays so while the answer is sent (Explained); busy  *)
(* time is that of the rows found (Busied).                                *)
(***************************************************************************)
EXTENDS CalendarQuery, SyncCollection, FiniteSetTheorems, NaturalsInduction, WellFoundedInduction,
        SequenceTheorems, TLAPS

-----------------------------------------------------------------------------
(* The report of changes.                                                  *)

\* No collection at the path: nothing of it is left in the store.
NothingLeftBehind ==
  home = NoColl => member = Empty /\ changes = {} /\ syncSeq = 0

\* Ids are never used again: every id a client or a report holds was issued.
IdsIssued ==
  /\ home # NoColl => home \in issued
  /\ \A c \in Clients :
       /\ token[c].coll # NoColl => token[c].coll \in issued
       /\ target[c].coll # NoColl => target[c].coll \in issued

\* A token of the collection at the path is not ahead of its counter, and only
\* the empty token is of no collection.
TokensBounded ==
  \A c \in Clients :
    /\ token[c].coll = home /\ home # NoColl => token[c].seq <= syncSeq
    /\ token[c].coll = NoColl => token[c] = EmptyToken

\* A report in flight answers for the collection of the token it was sent,
\* and from no later a point than the counter stands at.
ReportsBounded ==
  \A c \in Clients : pc[c] # "idle" =>
    /\ target[c].coll # NoColl
    /\ target[c].coll = home => target[c].seq <= syncSeq
    /\ \/ token[c] = EmptyToken
       \/ token[c].coll = target[c].coll /\ token[c].seq <= target[c].seq

\* What a report listed differs from the members only where the log has a row
\* after the counter the report read.
ListingsCovered ==
  \A c \in Clients, n \in Segments :
    pc[c] = "listed" /\ listed[c][n] # member[n] => ChangedSince(n, target[c])

\* The inductive invariant of the report of changes.
IInv ==
  /\ TypeOK
  /\ NothingLeftBehind
  /\ LogIsDense
  /\ DeletedMeansGone
  /\ IdsIssued
  /\ TokensBounded
  /\ ReportsBounded
  /\ ListingsCovered
  /\ NoMissedChange

-----------------------------------------------------------------------------
\* What every transaction on the collection's children does to the store.
Grow ==
  /\ home # NoColl
  /\ home' = home
  /\ issued' = issued
  /\ syncSeq' \in Nat
  /\ syncSeq <= syncSeq'
  /\ changes \subseteq changes'
  /\ \A r \in changes' : r \in changes \/ r.seq > syncSeq
  /\ \A n \in Segments : member'[n] # member[n] =>
       \E r \in changes' : r.name = n /\ r.seq > syncSeq
  /\ UNCHANGED <<request, replica>>

\* It holds at first.
LEMMA InitInv == SyncInit => IInv
<1> SUFFICES ASSUME SyncInit PROVE IInv
  OBVIOUS
<1> USE DEF SyncInit, EmptyToken, Empty
<1>1. TypeOK
  BY DEF TypeOK, Contents, Tokens, Rows
<1>2. LogIsDense /\ DeletedMeansGone
  BY DEF LogIsDense, DeletedMeansGone, DeletedLast
<1>3. NothingLeftBehind /\ IdsIssued /\ TokensBounded
  BY DEF NothingLeftBehind, IdsIssued, TokensBounded
<1>4. ReportsBounded /\ ListingsCovered /\ NoMissedChange
  BY DEF ReportsBounded, ListingsCovered, NoMissedChange, ChangedSince
<1> QED
  BY <1>1, <1>2, <1>3, <1>4 DEF IInv

\* Adding rows that number on from syncSeq keeps the log dense.
LEMMA DenseStep1 ==
  ASSUME TypeOK, LogIsDense, NEW n \in Segments, NEW a \in Actions,
         RecordChanges({LogRow(syncSeq + 1, n, a)}, 1)
  PROVE  LogIsDense' /\ changes' \in SUBSET Rows /\ syncSeq' \in Nat
<1>1. /\ syncSeq' = syncSeq + 1
      /\ changes' = changes \cup {LogRow(syncSeq + 1, n, a)}
      /\ syncSeq \in Nat
  BY DEF RecordChanges, TypeOK
<1>2. LogRow(syncSeq + 1, n, a) \in Rows /\ LogRow(syncSeq + 1, n, a).seq = syncSeq + 1
  BY <1>1 DEF LogRow, Rows, Actions
<1>3. \A r \in changes : r.seq \in Nat /\ r.seq <= syncSeq
  BY DEF LogIsDense, TypeOK, Rows
<1>4. \A s \in 1..syncSeq' : \E r \in changes' : r.seq = s
  <2> SUFFICES ASSUME NEW s \in 1..(syncSeq + 1) PROVE \E r \in changes' : r.seq = s
    BY <1>1
  <2>1. CASE s = syncSeq + 1
    BY <2>1, <1>1, <1>2
  <2>2. CASE s \in 1..syncSeq
    BY <2>2, <1>1 DEF LogIsDense
  <2> QED
    BY <2>1, <2>2, <1>1
<1>5. \A r \in changes' : r.seq <= syncSeq'
  BY <1>1, <1>2, <1>3
<1>6. \A r, q \in changes' : r.seq = q.seq => r = q
  BY <1>1, <1>2, <1>3 DEF LogIsDense
<1> QED
  BY <1>1, <1>2, <1>4, <1>5, <1>6 DEF LogIsDense, TypeOK

\* The same of a rename, which adds two rows.
LEMMA DenseStep2 ==
  ASSUME TypeOK, LogIsDense, NEW n \in Segments, NEW m \in Segments,
         RecordChanges(RenameRows(n, m), 2)
  PROVE  LogIsDense' /\ changes' \in SUBSET Rows /\ syncSeq' \in Nat
<1> DEFINE r1 == LogRow(syncSeq + 1, n, "deleted")
           r2 == LogRow(syncSeq + 2, m, "added")
<1>1. /\ syncSeq' = syncSeq + 2
      /\ changes' = changes \cup {r1, r2}
      /\ syncSeq \in Nat
  BY DEF RecordChanges, RenameRows, TypeOK
<1>2. /\ r1 \in Rows /\ r1.seq = syncSeq + 1
      /\ r2 \in Rows /\ r2.seq = syncSeq + 2
  BY <1>1 DEF LogRow, Rows, Actions
<1> HIDE DEF r1, r2
<1>3. \A r \in changes : r.seq \in Nat /\ r.seq <= syncSeq
  BY DEF LogIsDense, TypeOK, Rows
<1>4. \A s \in 1..syncSeq' : \E r \in changes' : r.seq = s
  <2> SUFFICES ASSUME NEW s \in 1..(syncSeq + 2) PROVE \E r \in changes' : r.seq = s
    BY <1>1
  <2>1. CASE s = syncSeq + 1
    BY <2>1, <1>1, <1>2
  <2>2. CASE s = syncSeq + 2
    BY <2>2, <1>1, <1>2
  <2>3. CASE s \in 1..syncSeq
    BY <2>3, <1>1 DEF LogIsDense
  <2> QED
    BY <2>1, <2>2, <2>3, <1>1
<1>5. \A r \in changes' : r.seq <= syncSeq'
  BY <1>1, <1>2, <1>3
<1>6. \A r, q \in changes' : r.seq = q.seq => r = q
  BY <1>1, <1>2, <1>3 DEF LogIsDense
<1> QED
  BY <1>1, <1>2, <1>4, <1>5, <1>6 DEF LogIsDense, TypeOK

\* A row younger than the log decides what the last row of its name is, and
\* leaves the other names alone.
LEMMA NewRowIsLast ==
  ASSUME TypeOK, LogIsDense, NEW n \in Segments, NEW a \in Actions,
         NEW s \in Nat, s > syncSeq, NEW m \in Segments,
         DeletedLast(changes \cup {LogRow(s, n, a)}, m)
  PROVE  IF m = n THEN a = "deleted" ELSE DeletedLast(changes, m)
<1> DEFINE new == LogRow(s, n, a)
<1>1. new.seq = s /\ new.name = n /\ new.action = a
  BY DEF LogRow
<1> HIDE DEF new
<1>2. \A q \in changes : q.seq \in Nat /\ q.seq < s
  BY DEF LogIsDense, TypeOK, Rows
<1>3. PICK r \in changes \cup {new} :
        /\ r.name = m /\ r.action = "deleted"
        /\ \A q \in changes \cup {new} : q.name = m => q.seq <= r.seq
  BY DEF DeletedLast, new
<1>4. CASE m = n
  BY <1>1, <1>2, <1>3, <1>4
<1>5. CASE m # n
  BY <1>1, <1>3, <1>5 DEF DeletedLast
<1> QED
  BY <1>4, <1>5

-----------------------------------------------------------------------------
(* Each writer's transaction grows the store and keeps the log honest.     *)

\* What the transactions on the children need of the store.
StoreInv == TypeOK /\ LogIsDense /\ DeletedMeansGone

\* A PUT of a new name only grows the log, and keeps it right.
LEMMA AddStep ==
  ASSUME StoreInv, NEW n \in Segments, NEW e \in Etags, AddMember(n, e)
  PROVE  StoreInv' /\ Grow
<1> USE DEF StoreInv
<1>1. LogIsDense' /\ changes' \in SUBSET Rows /\ syncSeq' \in Nat
  BY DenseStep1 DEF AddMember, Actions
<1>2. /\ syncSeq' = syncSeq + 1 /\ syncSeq \in Nat
      /\ changes' = changes \cup {LogRow(syncSeq + 1, n, "added")}
      /\ member' = [member EXCEPT ![n] = e]
      /\ home # NoColl
      /\ UNCHANGED <<home, issued, pc, target, listed, token, view>>
  BY DEF AddMember, RecordChanges, TypeOK, request, replica
<1>3. member' \in Contents /\ \A m \in Segments : m # n => member'[m] = member[m]
  BY <1>2 DEF TypeOK, Contents
<1>4. TypeOK'
  BY <1>1, <1>2, <1>3 DEF TypeOK
<1>5. ASSUME NEW m \in Segments, DeletedLast(changes', m) PROVE member'[m] = Absent
  <2>1. IF m = n THEN "added" = "deleted" ELSE DeletedLast(changes, m)
    BY <1>2, <1>5, NewRowIsLast DEF Actions
  <2> QED
    BY <2>1, <1>3 DEF DeletedMeansGone
<1>6. \A m \in Segments : member'[m] # member[m] =>
         \E r \in changes' : r.name = m /\ r.seq > syncSeq
  <2> LogRow(syncSeq + 1, n, "added") \in changes' /\ syncSeq + 1 > syncSeq
    BY <1>2
  <2> QED
    BY <1>3 DEF LogRow
<1>7. \A r \in changes' : r \in changes \/ r.seq > syncSeq
  BY <1>2 DEF LogRow
<1>8. /\ syncSeq <= syncSeq' /\ changes \subseteq changes'
      /\ home' = home /\ issued' = issued
  BY <1>2
<1>9. UNCHANGED <<request, replica>>
  BY <1>2 DEF request, replica
<1>10. Grow
  BY <1>1, <1>2, <1>6, <1>7, <1>8, <1>9 DEF Grow
<1> QED
  BY <1>1, <1>4, <1>5, <1>10 DEF DeletedMeansGone

\* So does a PUT over a child,
LEMMA ModifyStep ==
  ASSUME StoreInv, NEW n \in Segments, NEW e \in Etags, ModifyMember(n, e)
  PROVE  StoreInv' /\ Grow
<1> USE DEF StoreInv
<1>1. LogIsDense' /\ changes' \in SUBSET Rows /\ syncSeq' \in Nat
  BY DenseStep1 DEF ModifyMember, Actions
<1>2. /\ syncSeq' = syncSeq + 1 /\ syncSeq \in Nat
      /\ changes' = changes \cup {LogRow(syncSeq + 1, n, "modified")}
      /\ member' = [member EXCEPT ![n] = e]
      /\ home # NoColl
      /\ UNCHANGED <<home, issued, pc, target, listed, token, view>>
  BY DEF ModifyMember, RecordChanges, TypeOK, request, replica
<1>3. member' \in Contents /\ \A m \in Segments : m # n => member'[m] = member[m]
  BY <1>2 DEF TypeOK, Contents
<1>4. TypeOK'
  BY <1>1, <1>2, <1>3 DEF TypeOK
<1>5. ASSUME NEW m \in Segments, DeletedLast(changes', m) PROVE member'[m] = Absent
  <2>1. IF m = n THEN "modified" = "deleted" ELSE DeletedLast(changes, m)
    BY <1>2, <1>5, NewRowIsLast DEF Actions
  <2> QED
    BY <2>1, <1>3 DEF DeletedMeansGone
<1>6. \A m \in Segments : member'[m] # member[m] =>
         \E r \in changes' : r.name = m /\ r.seq > syncSeq
  <2> LogRow(syncSeq + 1, n, "modified") \in changes' /\ syncSeq + 1 > syncSeq
    BY <1>2
  <2> QED
    BY <1>3 DEF LogRow
<1>7. \A r \in changes' : r \in changes \/ r.seq > syncSeq
  BY <1>2 DEF LogRow
<1>8. /\ syncSeq <= syncSeq' /\ changes \subseteq changes'
      /\ home' = home /\ issued' = issued
  BY <1>2
<1>9. UNCHANGED <<request, replica>>
  BY <1>2 DEF request, replica
<1>10. Grow
  BY <1>1, <1>2, <1>6, <1>7, <1>8, <1>9 DEF Grow
<1> QED
  BY <1>1, <1>4, <1>5, <1>10 DEF DeletedMeansGone

\* a DELETE,
LEMMA RemoveStep ==
  ASSUME StoreInv, NEW n \in Segments, RemoveMember(n)
  PROVE  StoreInv' /\ Grow
<1> USE DEF StoreInv
<1>1. LogIsDense' /\ changes' \in SUBSET Rows /\ syncSeq' \in Nat
  BY DenseStep1 DEF RemoveMember, Actions
<1>2. /\ syncSeq' = syncSeq + 1 /\ syncSeq \in Nat
      /\ changes' = changes \cup {LogRow(syncSeq + 1, n, "deleted")}
      /\ member' = [member EXCEPT ![n] = Absent]
      /\ home # NoColl
      /\ UNCHANGED <<home, issued, pc, target, listed, token, view>>
  BY DEF RemoveMember, RecordChanges, TypeOK, request, replica
<1>3. /\ member' \in Contents /\ member'[n] = Absent
      /\ \A m \in Segments : m # n => member'[m] = member[m]
  BY <1>2 DEF TypeOK, Contents
<1>4. TypeOK'
  BY <1>1, <1>2, <1>3 DEF TypeOK
<1>5. ASSUME NEW m \in Segments, DeletedLast(changes', m) PROVE member'[m] = Absent
  <2>1. m # n => DeletedLast(changes, m)
    BY <1>2, <1>5, NewRowIsLast DEF Actions
  <2> QED
    BY <2>1, <1>3 DEF DeletedMeansGone
<1>6. \A m \in Segments : member'[m] # member[m] =>
         \E r \in changes' : r.name = m /\ r.seq > syncSeq
  <2> LogRow(syncSeq + 1, n, "deleted") \in changes' /\ syncSeq + 1 > syncSeq
    BY <1>2
  <2> QED
    BY <1>3 DEF LogRow
<1>7. \A r \in changes' : r \in changes \/ r.seq > syncSeq
  BY <1>2 DEF LogRow
<1>8. /\ syncSeq <= syncSeq' /\ changes \subseteq changes'
      /\ home' = home /\ issued' = issued
  BY <1>2
<1>9. UNCHANGED <<request, replica>>
  BY <1>2 DEF request, replica
<1>10. Grow
  BY <1>1, <1>2, <1>6, <1>7, <1>8, <1>9 DEF Grow
<1> QED
  BY <1>1, <1>4, <1>5, <1>10 DEF DeletedMeansGone

\* and a MOVE, whose row for the old name says deleted.
LEMMA RenameStep ==
  ASSUME StoreInv, NEW n \in Segments, NEW m \in Segments, RenameMember(n, m)
  PROVE  StoreInv' /\ Grow
<1> USE DEF StoreInv
<1> DEFINE r1 == LogRow(syncSeq + 1, n, "deleted")
           r2 == LogRow(syncSeq + 2, m, "added")
<1>1. LogIsDense' /\ changes' \in SUBSET Rows /\ syncSeq' \in Nat
  BY DenseStep2 DEF RenameMember
<1>2. /\ syncSeq' = syncSeq + 2 /\ syncSeq \in Nat
      /\ changes' = changes \cup {r1, r2}
      /\ member' = [member EXCEPT ![m] = member[n], ![n] = Absent]
      /\ home # NoColl /\ n # m
      /\ UNCHANGED <<home, issued, pc, target, listed, token, view>>
  BY DEF RenameMember, RenameRows, RecordChanges, TypeOK, request, replica
<1>3. /\ member' \in Contents /\ member'[n] = Absent
      /\ \A k \in Segments : k # n /\ k # m => member'[k] = member[k]
  BY <1>2 DEF TypeOK, Contents
<1>4. TypeOK'
  BY <1>1, <1>2, <1>3 DEF TypeOK
<1>5. /\ r1.seq = syncSeq + 1 /\ r1.name = n /\ r1.action = "deleted"
      /\ r2.seq = syncSeq + 2 /\ r2.name = m /\ r2.action = "added"
  BY DEF LogRow
<1>6. \A q \in changes : q.seq \in Nat /\ q.seq <= syncSeq
  BY DEF LogIsDense, TypeOK, Rows
<1> HIDE DEF r1, r2
<1>7. ASSUME NEW k \in Segments, DeletedLast(changes', k) PROVE member'[k] = Absent
  <2>1. PICK r \in changes \cup {r1, r2} :
          /\ r.name = k /\ r.action = "deleted"
          /\ \A q \in changes \cup {r1, r2} : q.name = k => q.seq <= r.seq
    BY <1>2, <1>7 DEF DeletedLast
  <2>2. k # m
    BY <2>1, <1>2, <1>5, <1>6
  <2>3. CASE k = n
    BY <2>3, <1>3
  <2>4. CASE k # n
    <3>1. DeletedLast(changes, k)
      BY <2>1, <2>2, <2>4, <1>5 DEF DeletedLast
    <3> QED
      BY <3>1, <2>2, <2>4, <1>3 DEF DeletedMeansGone
  <2> QED
    BY <2>3, <2>4
<1>8. \A k \in Segments : member'[k] # member[k] =>
         \E r \in changes' : r.name = k /\ r.seq > syncSeq
  BY <1>2, <1>3, <1>5
<1>9. /\ syncSeq <= syncSeq' /\ changes \subseteq changes'
      /\ \A r \in changes' : r \in changes \/ r.seq > syncSeq
  BY <1>2, <1>5
<1>10. UNCHANGED <<request, replica>>
  BY <1>2 DEF request, replica
<1>11. Grow
  BY <1>1, <1>2, <1>8, <1>9, <1>10 DEF Grow
<1> QED
  BY <1>1, <1>4, <1>7, <1>11 DEF DeletedMeansGone

-----------------------------------------------------------------------------
\* Growing the store takes nothing from what tokens and reports vouch for.
LEMMA GrowKeepsInv ==
  ASSUME IInv, Grow, StoreInv'
  PROVE  IInv'
<1> USE DEF IInv, StoreInv
<1>1. /\ home' = home /\ home # NoColl /\ issued' = issued
      /\ pc' = pc /\ target' = target /\ listed' = listed
      /\ token' = token /\ view' = view
      /\ syncSeq \in Nat /\ syncSeq' \in Nat /\ syncSeq <= syncSeq'
      /\ changes \subseteq changes'
  BY DEF Grow, request, replica, TypeOK
<1>2. ASSUME NEW n \in Segments, NEW t \in Tokens,
             t.coll = home => t.seq <= syncSeq,
             ChangedSince(n, t) \/ member'[n] # member[n]
      PROVE  ChangedSince(n, t)'
  <2>1. CASE ChangedSince(n, t)
    BY <2>1, <1>1 DEF ChangedSince
  <2>2. CASE member'[n] # member[n] /\ t.coll = home
    <3>1. PICK r \in changes' : r.name = n /\ r.seq > syncSeq
      BY <2>2 DEF Grow
    <3>2. r.seq \in Nat /\ t.seq \in Nat
      BY DEF TypeOK, Rows, Tokens
    <3>3. r.seq > t.seq
      BY <3>1, <3>2, <2>2, <1>1, <1>2
    <3> QED
      BY <3>1, <3>3 DEF ChangedSince
  <2>3. CASE t.coll # home
    BY <2>3, <1>1 DEF ChangedSince
  <2> QED
    BY <1>2, <2>1, <2>2, <2>3
<1>3. \A c \in Clients : token[c] \in Tokens /\ target[c] \in Tokens
  BY DEF TypeOK
<1>4. NothingLeftBehind' /\ IdsIssued'
  BY <1>1 DEF NothingLeftBehind, IdsIssued
<1>5. TokensBounded'
  BY <1>1, <1>3 DEF TokensBounded, Tokens
<1>6. ReportsBounded'
  BY <1>1, <1>3 DEF ReportsBounded, Tokens, EmptyToken
<1>7. ListingsCovered'
  <2> SUFFICES ASSUME NEW c \in Clients, NEW n \in Segments,
                      pc[c] = "listed", listed[c][n] # member'[n]
               PROVE  ChangedSince(n, target[c])'
    BY <1>1 DEF ListingsCovered, ChangedSince
  <2>1. target[c].coll = home => target[c].seq <= syncSeq
    BY DEF ReportsBounded
  <2>2. ChangedSince(n, target[c]) \/ member'[n] # member[n]
    BY DEF ListingsCovered
  <2>3. \A t \in Tokens : (t.coll = home => t.seq <= syncSeq)
            /\ (ChangedSince(n, t) \/ member'[n] # member[n]) => ChangedSince(n, t)'
    BY <1>2
  <2> QED
    BY <2>1, <2>2, <2>3, <1>1, <1>3 DEF ChangedSince
<1>8. NoMissedChange'
  <2> SUFFICES ASSUME NEW c \in Clients, NEW n \in Segments, view[c][n] # member'[n]
               PROVE  ChangedSince(n, token[c])'
    BY <1>1 DEF NoMissedChange, ChangedSince
  <2>1. token[c].coll = home => token[c].seq <= syncSeq
    BY <1>1 DEF TokensBounded
  <2>2. ChangedSince(n, token[c]) \/ member'[n] # member[n]
    BY DEF NoMissedChange
  <2>3. \A t \in Tokens : (t.coll = home => t.seq <= syncSeq)
            /\ (ChangedSince(n, t) \/ member'[n] # member[n]) => ChangedSince(n, t)'
    BY <1>2
  <2> QED
    BY <2>1, <2>2, <2>3, <1>1, <1>3 DEF ChangedSince
<1> QED
  BY <1>4, <1>5, <1>6, <1>7, <1>8

-----------------------------------------------------------------------------
\* A new collection at the path starts with an id no token has.
LEMMA MakeCollectionKeepsInv ==
  ASSUME IInv, NEW k \in Colls, MakeCollection(k)
  PROVE  IInv'
<1> USE DEF IInv
<1>1. /\ home = NoColl /\ home' = k /\ k # NoColl /\ k \notin issued
      /\ issued' = issued \cup {k}
      /\ member = Empty /\ changes = {} /\ syncSeq = 0
      /\ UNCHANGED <<member, syncSeq, changes, pc, target, listed, token, view>>
  BY NoCollAssumption DEF MakeCollection, NothingLeftBehind, request, replica
<1>2. \A c \in Clients : token[c].coll # k /\ target[c].coll # k
  BY <1>1 DEF IdsIssued
<1>3. TypeOK'
  BY <1>1 DEF TypeOK
<1>4. NothingLeftBehind' /\ LogIsDense' /\ DeletedMeansGone'
  BY <1>1 DEF NothingLeftBehind, LogIsDense, DeletedMeansGone, DeletedLast
<1>5. IdsIssued' /\ TokensBounded'
  BY <1>1, <1>2 DEF IdsIssued, TokensBounded
<1>6. ReportsBounded'
  BY <1>1, <1>2 DEF ReportsBounded
<1>7. ListingsCovered' /\ NoMissedChange'
  BY <1>1, <1>2 DEF ListingsCovered, NoMissedChange, ChangedSince
<1> QED
  BY <1>3, <1>4, <1>5, <1>6, <1>7

\* Deleting it takes its children and its log along.
LEMMA DeleteCollectionKeepsInv ==
  ASSUME IInv, DeleteCollection
  PROVE  IInv'
<1> USE DEF IInv
<1>1. /\ home # NoColl /\ home' = NoColl
      /\ member' = Empty /\ changes' = {} /\ syncSeq' = 0
      /\ UNCHANGED <<issued, pc, target, listed, token, view>>
  BY DEF DeleteCollection, request, replica
<1>2. TypeOK'
  BY <1>1 DEF TypeOK, Contents, Empty
<1>3. NothingLeftBehind' /\ LogIsDense' /\ DeletedMeansGone'
  BY <1>1 DEF NothingLeftBehind, LogIsDense, DeletedMeansGone, DeletedLast
<1>4. IdsIssued' /\ TokensBounded'
  BY <1>1 DEF IdsIssued, TokensBounded
<1>5. ReportsBounded'
  BY <1>1 DEF ReportsBounded
<1>6. ListingsCovered' /\ NoMissedChange'
  BY <1>1 DEF ListingsCovered, NoMissedChange, ChangedSince
<1> QED
  BY <1>2, <1>3, <1>4, <1>5, <1>6

\* Whatever a writer does keeps the invariant.
LEMMA WriteKeepsInv ==
  ASSUME IInv, WriteMembers
  PROVE  IInv'
<1>1. StoreInv
  BY DEF IInv, StoreInv
<1>2. ASSUME NEW n \in Segments, NEW e \in Etags, AddMember(n, e) PROVE IInv'
  BY <1>1, <1>2, AddStep, GrowKeepsInv
<1>3. ASSUME NEW n \in Segments, NEW e \in Etags, ModifyMember(n, e) PROVE IInv'
  BY <1>1, <1>3, ModifyStep, GrowKeepsInv
<1>4. ASSUME NEW n \in Segments, RemoveMember(n) PROVE IInv'
  BY <1>1, <1>4, RemoveStep, GrowKeepsInv
<1>5. ASSUME NEW n \in Segments, NEW m \in Segments, RenameMember(n, m) PROVE IInv'
  BY <1>1, <1>5, RenameStep, GrowKeepsInv
<1>6. ASSUME NEW k \in Colls, MakeCollection(k) PROVE IInv'
  BY <1>6, MakeCollectionKeepsInv
<1>7. CASE DeleteCollection
  BY <1>7, DeleteCollectionKeepsInv
<1> QED
  BY <1>2, <1>3, <1>4, <1>5, <1>6, <1>7 DEF WriteMembers

-----------------------------------------------------------------------------
(* The steps of a report leave the store alone.                            *)

\* A step of a report leaves what is said of the store alone.
LEMMA StoreUnchanged ==
  ASSUME UNCHANGED store
  PROVE  /\ LogIsDense => LogIsDense'
         /\ DeletedMeansGone => DeletedMeansGone'
         /\ NothingLeftBehind => NothingLeftBehind'
         /\ \A n, t : ChangedSince(n, t)' = ChangedSince(n, t)
BY DEF store, LogIsDense, DeletedMeansGone, DeletedLast, NothingLeftBehind, ChangedSince

\* A report reads the collection's row.
LEMMA ResolveKeepsInv ==
  ASSUME IInv, NEW c \in Clients, ResolveTarget(c)
  PROVE  IInv'
<1> USE DEF IInv
<1>1. /\ pc[c] = "idle" /\ home # NoColl
      /\ ValidateSyncToken(token[c], home, syncSeq)
      /\ target' = [target EXCEPT ![c] = [coll |-> home, seq |-> syncSeq]]
      /\ pc' = [pc EXCEPT ![c] = "resolved"]
      /\ UNCHANGED store
      /\ UNCHANGED <<home, issued, member, syncSeq, changes, listed, token, view>>
  BY DEF ResolveTarget, store, replica
<1>2. TypeOK'
  BY <1>1 DEF TypeOK, Tokens
<1>3. NothingLeftBehind' /\ LogIsDense' /\ DeletedMeansGone'
  BY <1>1, StoreUnchanged
<1>4. IdsIssued' /\ TokensBounded'
  BY <1>1 DEF IdsIssued, TokensBounded, TypeOK
<1>5. ReportsBounded'
  BY <1>1 DEF ReportsBounded, ValidateSyncToken, EmptyToken, TypeOK, Tokens
<1>6. ListingsCovered' /\ NoMissedChange'
  BY <1>1 DEF ListingsCovered, NoMissedChange, ChangedSince, TypeOK
<1> QED
  BY <1>2, <1>3, <1>4, <1>5, <1>6

\* A token that does not fit starts the client over.
LEMMA RejectKeepsInv ==
  ASSUME IInv, NEW c \in Clients, RejectToken(c)
  PROVE  IInv'
<1> USE DEF IInv
<1>1. /\ pc[c] = "idle" /\ home # NoColl
      /\ token' = [token EXCEPT ![c] = EmptyToken]
      /\ UNCHANGED store
      /\ UNCHANGED <<home, issued, member, syncSeq, changes, pc, target, listed, view>>
  BY DEF RejectToken, store, request
<1>2. TypeOK'
  BY <1>1 DEF TypeOK, Tokens, EmptyToken
<1>3. NothingLeftBehind' /\ LogIsDense' /\ DeletedMeansGone'
  BY <1>1, StoreUnchanged
<1>4. IdsIssued' /\ TokensBounded'
  BY <1>1 DEF IdsIssued, TokensBounded, TypeOK, EmptyToken
<1>5. ReportsBounded'
  BY <1>1 DEF ReportsBounded, EmptyToken, TypeOK, Tokens
<1>6. ListingsCovered' /\ NoMissedChange'
  BY <1>1 DEF ListingsCovered, NoMissedChange, ChangedSince, TypeOK, EmptyToken
<1> QED
  BY <1>2, <1>3, <1>4, <1>5, <1>6

\* The members are read after the counter, so what differs has a later row.
LEMMA ListKeepsInv ==
  ASSUME IInv, NEW c \in Clients, ListMembers(c)
  PROVE  IInv'
<1> USE DEF IInv
<1>1. /\ pc[c] = "resolved"
      /\ listed' = [listed EXCEPT ![c] =
                      IF home = target[c].coll THEN member ELSE Empty]
      /\ pc' = [pc EXCEPT ![c] = "listed"]
      /\ UNCHANGED store
      /\ UNCHANGED <<home, issued, member, syncSeq, changes, target, token, view>>
  BY DEF ListMembers, store, replica
<1>2. TypeOK'
  BY <1>1 DEF TypeOK, Contents, Empty
<1>3. NothingLeftBehind' /\ LogIsDense' /\ DeletedMeansGone'
  BY <1>1, StoreUnchanged
<1>4. IdsIssued' /\ TokensBounded'
  BY <1>1 DEF IdsIssued, TokensBounded
<1>5. ReportsBounded'
  BY <1>1 DEF ReportsBounded, TypeOK
<1>6. ListingsCovered' /\ NoMissedChange'
  BY <1>1 DEF ListingsCovered, NoMissedChange, ChangedSince, TypeOK
<1> QED
  BY <1>2, <1>3, <1>4, <1>5, <1>6

\* What an answer puts into the client's copy is right, or was changed after
\* the counter the report read.
LEMMA AnswerIsRight ==
  ASSUME IInv, NEW c \in Clients, AnswerChanges(c), NEW n \in Segments
  PROVE  view'[c][n] # member[n] => ChangedSince(n, target[c])
<1> USE DEF IInv
<1>1. /\ pc[c] = "listed"
      /\ view'[c][n] = IF n \in ReportedNames(c) THEN Response(c, n)
                       ELSE IF token[c] = EmptyToken THEN Absent
                       ELSE view[c][n]
  BY DEF AnswerChanges, TypeOK
<1>2. SUFFICES ASSUME target[c].coll = home, home # NoColl, listed[c][n] = member[n]
               PROVE  view'[c][n] # member[n] => ChangedSince(n, target[c])
  BY <1>1 DEF ListingsCovered, ChangedSince
<1>3. CASE token[c] = EmptyToken
  BY <1>1, <1>2, <1>3 DEF ReportedNames, Response, IsInitialSync
<1>4. CASE token[c] # EmptyToken
  <2>1. token[c].coll = home
    BY <1>1, <1>2, <1>4 DEF ReportsBounded
  <2>2. ChangesSince(c) = {r \in changes : r.seq > token[c].seq}
    BY <1>2 DEF ChangesSince
  <2>3. CASE n \notin ReportedNames(c)
    <3>1. ~ChangedSince(n, token[c])
      BY <2>1, <2>2, <2>3, <1>2, <1>4 DEF ReportedNames, IsInitialSync, ChangedSince
    <3> QED
      BY <3>1, <2>3, <1>1, <1>4 DEF NoMissedChange
  <2>4. CASE n \in ReportedNames(c) /\ DeletedLast(ChangesSince(c), n)
    <3>1. PICK r \in ChangesSince(c) :
            /\ r.name = n /\ r.action = "deleted"
            /\ \A q \in ChangesSince(c) : q.name = n => q.seq <= r.seq
      BY <2>4 DEF DeletedLast
    <3>2. \A q \in changes : q.seq \in Nat
      BY DEF TypeOK, Rows
    <3>3. token[c].seq \in Nat
      BY DEF TypeOK, Tokens
    <3>4. DeletedLast(changes, n)
      BY <3>1, <3>2, <3>3, <2>2 DEF DeletedLast
    <3>5. view'[c][n] = Absent
      BY <2>4, <1>1, <1>4 DEF Response, IsInitialSync
    <3> QED
      BY <3>4, <3>5 DEF DeletedMeansGone
  <2>5. CASE n \in ReportedNames(c) /\ ~DeletedLast(ChangesSince(c), n)
    BY <2>5, <1>1, <1>2 DEF Response
  <2> QED
    BY <2>3, <2>4, <2>5
<1> QED
  BY <1>3, <1>4

\* The answer reads the log after the listing, and hands out the counter.
LEMMA AnswerKeepsInv ==
  ASSUME IInv, NEW c \in Clients, AnswerChanges(c)
  PROVE  IInv'
<1> USE DEF IInv
<1>1. /\ pc[c] = "listed"
      /\ token' = [token EXCEPT ![c] = target[c]]
      /\ pc' = [pc EXCEPT ![c] = "idle"]
      /\ UNCHANGED store
      /\ UNCHANGED <<home, issued, member, syncSeq, changes, target, listed>>
      /\ \A d \in Clients : d # c => view'[d] = view[d]
  BY DEF AnswerChanges, IssuedToken, store, TypeOK
<1>2. view'[c] \in Contents
  <2>1. \A n \in Segments : Response(c, n) \in Etags \cup {Absent}
    BY DEF Response, TypeOK, Contents
  <2> QED
    BY <2>1 DEF AnswerChanges, TypeOK, Contents
<1>3. TypeOK'
  <2>1. view' \in [Clients -> Contents]
    BY <1>1, <1>2 DEF AnswerChanges, TypeOK
  <2> QED
    BY <1>1, <2>1 DEF TypeOK
<1>4. NothingLeftBehind' /\ LogIsDense' /\ DeletedMeansGone'
  BY <1>1, StoreUnchanged
<1>5. IdsIssued' /\ TokensBounded'
  BY <1>1 DEF IdsIssued, TokensBounded, ReportsBounded, TypeOK
<1>6. ReportsBounded'
  BY <1>1 DEF ReportsBounded, TypeOK
<1>7. ListingsCovered'
  BY <1>1 DEF ListingsCovered, ChangedSince, TypeOK
<1>8. NoMissedChange'
  <2> SUFFICES ASSUME NEW d \in Clients, NEW n \in Segments, view'[d][n] # member[n]
               PROVE  ChangedSince(n, token'[d])
    BY <1>1 DEF NoMissedChange, ChangedSince
  <2>1. CASE d = c
    BY <2>1, <1>1, AnswerIsRight DEF TypeOK
  <2>2. CASE d # c
    BY <2>2, <1>1 DEF NoMissedChange, TypeOK
  <2> QED
    BY <2>1, <2>2
<1> QED
  BY <1>3, <1>4, <1>5, <1>6, <1>7, <1>8

\* An answer that is lost changes nothing but the request.
LEMMA LoseKeepsInv ==
  ASSUME IInv, NEW c \in Clients, LoseAnswer(c)
  PROVE  IInv'
<1> USE DEF IInv
<1>1. /\ pc' = [pc EXCEPT ![c] = "idle"]
      /\ UNCHANGED store
      /\ UNCHANGED <<home, issued, member, syncSeq, changes, target, listed, token, view>>
  BY DEF LoseAnswer, store, replica
<1>2. TypeOK'
  BY <1>1 DEF TypeOK
<1>3. NothingLeftBehind' /\ LogIsDense' /\ DeletedMeansGone'
  BY <1>1, StoreUnchanged
<1>4. IdsIssued' /\ TokensBounded'
  BY <1>1 DEF IdsIssued, TokensBounded
<1>5. ReportsBounded'
  BY <1>1 DEF ReportsBounded, TypeOK
<1>6. ListingsCovered' /\ NoMissedChange'
  BY <1>1 DEF ListingsCovered, NoMissedChange, ChangedSince, TypeOK
<1> QED
  BY <1>2, <1>3, <1>4, <1>5, <1>6

\* Nothing happens.
LEMMA StutterKeepsInv ==
  ASSUME IInv, UNCHANGED syncVars
  PROVE  IInv'
BY DEF IInv, syncVars, store, request, replica, TypeOK, NothingLeftBehind, LogIsDense,
       DeletedMeansGone, DeletedLast, IdsIssued, TokensBounded, ReportsBounded,
       ListingsCovered, NoMissedChange, ChangedSince

\* Every step keeps the invariant.
LEMMA NextKeepsInv ==
  ASSUME IInv, [SyncNext]_syncVars
  PROVE  IInv'
<1>1. CASE WriteMembers
  BY <1>1, WriteKeepsInv
<1>2. ASSUME NEW c \in Clients, Report(c) \/ LoseAnswer(c) PROVE IInv'
  BY <1>2, ResolveKeepsInv, RejectKeepsInv, ListKeepsInv, AnswerKeepsInv, LoseKeepsInv
     DEF Report
<1>3. CASE UNCHANGED syncVars
  BY <1>3, StutterKeepsInv
<1> QED
  BY <1>1, <1>2, <1>3 DEF SyncNext

-----------------------------------------------------------------------------
\* The strengthened invariant holds in every reachable state.
THEOREM SyncInductive == SyncSpec => []IInv
<1>1. SyncInit => IInv
  BY InitInv
<1>2. IInv /\ [SyncNext]_syncVars => IInv'
  BY NextKeepsInv
<1> QED
  BY <1>1, <1>2, PTL DEF SyncSpec

\* Every variable of the report and its collection keeps its type.
THEOREM TypeCorrect == SyncSpec => []TypeOK
<1>1. IInv => TypeOK
  BY DEF IInv
<1> QED
  BY <1>1, SyncInductive, PTL

\* recordChange's numbering: the log is 1..syncSeq, each number once.
THEOREM DenseLog == SyncSpec => []LogIsDense
<1>1. IInv => LogIsDense
  BY DEF IInv
<1> QED
  BY <1>1, SyncInductive, PTL

\* A name whose last row says "deleted" names no child, which is what lets
\* the report answer 404 for it without a look.
THEOREM DeletedIsGone == SyncSpec => []DeletedMeansGone
<1>1. IInv => DeletedMeansGone
  BY DEF IInv
<1> QED
  BY <1>1, SyncInductive, PTL

\* Whatever is written between the reads of a report, no change is lost to
\* the client: its token still covers every name that differs.
THEOREM NothingMissed == SyncSpec => []NoMissedChange
<1>1. IInv => NoMissedChange
  BY DEF IInv
<1> QED
  BY <1>1, SyncInductive, PTL

-----------------------------------------------------------------------------
\* A step leaves a client's token where it is or moves it on.
LEMMA StepAdvances ==
  ASSUME IInv, [SyncNext]_syncVars, NEW c \in Clients, token'[c].coll = token[c].coll
  PROVE  token[c].seq <= token'[c].seq
<1> USE DEF IInv
<1>1. token[c] \in Tokens /\ token[c].seq \in Nat
  BY DEF TypeOK, Tokens
<1>2. CASE token' = token
  BY <1>1, <1>2
<1>3. ASSUME NEW d \in Clients, RejectToken(d) PROVE token[c].seq <= token'[c].seq
  <2>1. CASE d = c
    BY <2>1, <1>1, <1>3 DEF RejectToken, TokensBounded, EmptyToken, TypeOK
  <2>2. CASE d # c
    BY <2>2, <1>1, <1>3 DEF RejectToken, TypeOK
  <2> QED
    BY <2>1, <2>2
<1>4. ASSUME NEW d \in Clients, AnswerChanges(d) PROVE token[c].seq <= token'[c].seq
  <2>1. CASE d = c
    <3>1. token'[c] = target[c] /\ target[c] \in Tokens
      BY <2>1, <1>4 DEF AnswerChanges, IssuedToken, TypeOK
    <3> QED
      BY <3>1, <2>1, <1>1, <1>4 DEF AnswerChanges, ReportsBounded, EmptyToken, Tokens
  <2>2. CASE d # c
    BY <2>2, <1>1, <1>4 DEF AnswerChanges, TypeOK
  <2> QED
    BY <2>1, <2>2
<1>5. \/ token' = token
      \/ \E d \in Clients : RejectToken(d) \/ AnswerChanges(d)
  BY DEF SyncNext, WriteMembers, Report, AddMember, ModifyMember, RemoveMember, RenameMember,
         MakeCollection, DeleteCollection, ResolveTarget, ListMembers, LoseAnswer,
         syncVars, replica
<1> QED
  BY <1>2, <1>3, <1>4, <1>5

\* No report hands out a token that is behind the one it was sent.
THEOREM TokensNeverGoBack == SyncSpec => TokensAdvance
<1>1. IInv /\ [SyncNext]_syncVars =>
        [\A c \in Clients :
           token'[c].coll = token[c].coll => token[c].seq <= token'[c].seq]_syncVars
  BY StepAdvances
<1> QED
  BY <1>1, SyncInductive, PTL DEF SyncSpec, TokensAdvance

-----------------------------------------------------------------------------
(* SyncCollection implements SyncPromise.                                  *)

\* The initial states are ones of SyncPromise.
LEMMA PromiseInit == SyncInit => Promise!Init
BY DEF SyncInit, Promise!Init, Owed, ChangedSince, Empty

\* A transaction on the children owes every client the names of its rows.
LEMMA GrowIsChange ==
  ASSUME IInv, Grow, TypeOK'
  PROVE  Promise!Next
<1> USE DEF IInv
<1> DEFINE S == {n \in Segments : \E r \in changes' : r.name = n /\ r.seq > syncSeq}
<1>1. /\ home' = home /\ home # NoColl /\ changes \subseteq changes'
      /\ token' = token /\ view' = view /\ syncSeq \in Nat
      /\ \A r \in changes' : r \in changes \/ r.seq > syncSeq
  BY DEF Grow, replica, TypeOK
<1>2. ASSUME NEW c \in Clients, NEW n \in Segments
      PROVE  ChangedSince(n, token[c])' <=> ChangedSince(n, token[c]) \/ n \in S
  <2>1. CASE token[c].coll # home
    BY <2>1, <1>1 DEF ChangedSince
  <2>2. CASE token[c].coll = home
    <3>1. token[c].seq <= syncSeq /\ token[c].seq \in Nat
      BY <2>2, <1>1 DEF TokensBounded, TypeOK, Tokens
    <3>2. \A r \in changes' : r.seq \in Nat
      BY DEF TypeOK, Rows
    <3>3. n \in S => ChangedSince(n, token[c])'
      BY <3>1, <3>2, <1>1 DEF ChangedSince
    <3>4. ChangedSince(n, token[c]) => ChangedSince(n, token[c])'
      BY <1>1 DEF ChangedSince
    <3>5. ChangedSince(n, token[c])' => ChangedSince(n, token[c]) \/ n \in S
      BY <2>2, <1>1 DEF ChangedSince
    <3> QED
      BY <3>3, <3>4, <3>5
  <2> QED
    BY <2>1, <2>2
<1>3. Owed' = [c \in Clients |-> Owed[c] \cup S]
  BY <1>1, <1>2 DEF Owed
<1>4. member' \in Promise!Contents
  BY DEF TypeOK, Contents, Promise!Contents
<1>5. \A n \in Segments \ S : member'[n] = member[n]
  BY DEF Grow
<1>6. Promise!Change(S)
  BY <1>1, <1>3, <1>4, <1>5 DEF Promise!Change
<1> QED
  BY <1>6 DEF Promise!Next

\* Another collection at the path, or none, owes every client every name.
LEMMA ResetIsChange ==
  ASSUME IInv, IInv', UNCHANGED <<token, view>>,
         home' = NoColl \/ \A c \in Clients : token[c].coll # home'
  PROVE  Promise!Next
<1>1. Owed' = [c \in Clients |-> Owed[c] \cup Segments]
  BY DEF Owed, ChangedSince
<1>2. member' \in Promise!Contents
  BY DEF IInv, TypeOK, Contents, Promise!Contents
<1>3. Promise!Change(Segments)
  BY <1>1, <1>2 DEF Promise!Change
<1> QED
  BY <1>3 DEF Promise!Next

\* An answer settles every name that did not change after its token.
LEMMA AnswerIsSync ==
  ASSUME IInv, IInv', NEW c \in Clients, AnswerChanges(c)
  PROVE  Promise!Next
<1> USE DEF IInv
<1> DEFINE D == {n \in Segments : ChangedSince(n, target[c])}
<1>1. /\ token' = [token EXCEPT ![c] = target[c]]
      /\ UNCHANGED <<home, member, changes>>
      /\ \A d \in Clients : d # c => view'[d] = view[d]
      /\ pc[c] = "listed"
  BY DEF AnswerChanges, IssuedToken, store, TypeOK
<1>2. \A n, t : ChangedSince(n, t)' = ChangedSince(n, t)
  BY <1>1 DEF ChangedSince
<1>3. Owed' = [Owed EXCEPT ![c] = D]
  <2>1. Owed' = [d \in Clients |-> {n \in Segments : ChangedSince(n, token'[d])}]
    BY <1>1 DEF Owed, ChangedSince
  <2>2. token'[c] = target[c] /\ \A d \in Clients : d # c => token'[d] = token[d]
    BY <1>1 DEF TypeOK
  <2>3. Owed' = [d \in Clients |-> IF d = c THEN D
                                   ELSE {n \in Segments : ChangedSince(n, token[d])}]
    BY <2>1, <2>2
  <2> QED
    BY <2>3 DEF Owed
<1>4. D \subseteq Owed[c]
  <2> SUFFICES ASSUME NEW n \in Segments, ChangedSince(n, target[c])
               PROVE  ChangedSince(n, token[c])
    BY DEF Owed
  <2>1. CASE token[c].coll # home \/ home = NoColl
    BY <2>1 DEF ChangedSince
  <2>2. CASE token[c].coll = home /\ home # NoColl
    <3>1. token[c].coll = target[c].coll /\ token[c].seq <= target[c].seq
      BY <2>2, <1>1 DEF ReportsBounded, EmptyToken
    <3>2. token[c].seq \in Nat /\ target[c].seq \in Nat
      BY DEF TypeOK, Tokens
    <3>3. \A r \in changes : r.seq \in Nat
      BY DEF TypeOK, Rows
    <3> QED
      BY <3>1, <3>2, <3>3, <2>2 DEF ChangedSince
  <2> QED
    BY <2>1, <2>2
<1>5. view' \in [Clients -> Promise!Contents]
  BY DEF TypeOK, Contents, Promise!Contents
<1>6. \A n \in Segments \ D : view'[c][n] = member[n]
  BY AnswerIsRight
<1>7. Promise!Sync(c, D)
  BY <1>1, <1>3, <1>4, <1>5, <1>6 DEF Promise!Sync
<1> QED
  BY <1>7 DEF Promise!Next

\* Every step is one of SyncPromise, or a stutter of it.
LEMMA PromiseStep ==
  ASSUME IInv, IInv', [SyncNext]_syncVars
  PROVE  [Promise!Next]_(Promise!vars)
<1>1. StoreInv /\ TypeOK'
  BY DEF IInv, StoreInv
<1>2. ASSUME NEW n \in Segments, NEW e \in Etags, AddMember(n, e) \/ ModifyMember(n, e)
      PROVE  Promise!Next
  BY <1>1, <1>2, AddStep, ModifyStep, GrowIsChange
<1>3. ASSUME NEW n \in Segments, NEW m \in Segments, RemoveMember(n) \/ RenameMember(n, m)
      PROVE  Promise!Next
  BY <1>1, <1>3, RemoveStep, RenameStep, GrowIsChange
<1>4. ASSUME NEW k \in Colls, MakeCollection(k) PROVE Promise!Next
  <2>1. \A c \in Clients : token[c].coll # home'
    BY <1>4, NoCollAssumption DEF MakeCollection, IInv, IdsIssued
  <2> QED
    BY <2>1, <1>4, ResetIsChange DEF MakeCollection, replica
<1>5. CASE DeleteCollection
  BY <1>5, ResetIsChange DEF DeleteCollection, replica
<1>6. ASSUME NEW c \in Clients, AnswerChanges(c) PROVE Promise!Next
  BY <1>6, AnswerIsSync
<1>7. ASSUME NEW c \in Clients, RejectToken(c) PROVE UNCHANGED Promise!vars
  <2>1. /\ UNCHANGED <<home, member, changes, view>> /\ home # NoColl
        /\ token' = [token EXCEPT ![c] = EmptyToken]
        /\ ~ValidateSyncToken(token[c], home, syncSeq)
    BY <1>7 DEF RejectToken, store
  <2>2. token[c].coll # home /\ EmptyToken.coll # home
    BY <2>1 DEF IInv, TokensBounded, ValidateSyncToken, EmptyToken
  <2>3. Owed' = Owed
    BY <2>1, <2>2 DEF Owed, ChangedSince, IInv, TypeOK
  <2> QED
    BY <2>1, <2>3 DEF Promise!vars
<1>8. CASE UNCHANGED <<home, member, changes, token, view>>
  BY <1>8 DEF Promise!vars, Owed, ChangedSince
<1>9. \/ \E n \in Segments, e \in Etags : AddMember(n, e) \/ ModifyMember(n, e)
      \/ \E n, m \in Segments : RemoveMember(n) \/ RenameMember(n, m)
      \/ \E k \in Colls : MakeCollection(k)
      \/ DeleteCollection
      \/ \E c \in Clients : AnswerChanges(c) \/ RejectToken(c)
      \/ UNCHANGED <<home, member, changes, token, view>>
  BY DEF SyncNext, WriteMembers, Report, ResolveTarget, ListMembers, LoseAnswer,
         syncVars, store, replica
<1> QED
  BY <1>2, <1>3, <1>4, <1>5, <1>6, <1>7, <1>8, <1>9

\* The report, run against concurrent writers, is the abstract synchronisation
\* in which a client is never owed less than what differs.
THEOREM Refinement == SyncSpec => KeepsPromise
<1>1. SyncInit => Promise!Init
  BY PromiseInit
<1>2. IInv /\ IInv' /\ [SyncNext]_syncVars => [Promise!Next]_(Promise!vars)
  BY PromiseStep
<1> QED
  BY <1>1, <1>2, SyncInductive, PTL DEF SyncSpec, KeepsPromise, Promise!Spec

-----------------------------------------------------------------------------
(* Finite sets in order. *)

\* less orders S: whatever is before what.
Orders(less, S) ==
  /\ \A x \in S : <<x, x>> \notin less
  /\ \A x, y, z \in S : <<x, y>> \in less /\ <<y, z>> \in less => <<x, z>> \in less
  /\ \A x, y \in S : x = y \/ <<x, y>> \in less \/ <<y, x>> \in less

\* How many of S are before x.
Rank(S, less, x) == Cardinality({y \in S : <<y, x>> \in less})

\* What is before x ranks below it; no two rank alike.
LEMMA RankLess ==
  ASSUME NEW S, NEW less, IsFiniteSet(S), Orders(less, S), NEW x \in S
  PROVE  /\ Rank(S, less, x) \in 0..(Cardinality(S) - 1)
         /\ \A y \in S : <<x, y>> \in less <=> Rank(S, less, x) < Rank(S, less, y)
         /\ \A y \in S : Rank(S, less, x) = Rank(S, less, y) => x = y
<1> DEFINE Pre(y) == {z \in S : <<z, y>> \in less}
<1>1. \A y \in S : IsFiniteSet(Pre(y)) /\ Cardinality(Pre(y)) \in Nat
  <2>1. \A y \in S : Pre(y) \in SUBSET S
    OBVIOUS
  <2> HIDE DEF Pre
  <2> QED
    BY <2>1, FS_Subset, FS_CardinalityType
<1>2. \A u, v \in S : <<u, v>> \in less => Cardinality(Pre(u)) < Cardinality(Pre(v))
  <2>1. SUFFICES ASSUME NEW u \in S, NEW v \in S, <<u, v>> \in less
                 PROVE  Cardinality(Pre(u)) < Cardinality(Pre(v))
    OBVIOUS
  <2>2. Pre(u) \in SUBSET Pre(v) /\ u \in Pre(v) /\ u \notin Pre(u)
    BY <2>1 DEF Orders
  <2> HIDE DEF Pre
  <2>3. Cardinality(Pre(u)) <= Cardinality(Pre(v)) /\ Cardinality(Pre(v)) # Cardinality(Pre(u))
    BY <1>1, <2>2, FS_Subset
  <2> QED
    BY <1>1, <2>3
<1>3. Cardinality(Pre(x)) < Cardinality(S)
  <2>1. Pre(x) \in SUBSET S /\ x \notin Pre(x)
    BY DEF Orders
  <2> HIDE DEF Pre
  <2>2. Cardinality(Pre(x)) <= Cardinality(S) /\ Cardinality(Pre(x)) # Cardinality(S) /\ Cardinality(S) \in Nat
    BY <2>1, FS_Subset, FS_CardinalityType
  <2> QED
    BY <1>1, <2>2
<1>4. Cardinality(S) \in Nat
  BY FS_CardinalityType
<1>5. \A y \in S : Rank(S, less, y) = Cardinality(Pre(y))
  BY DEF Rank
<1> HIDE DEF Pre
<1>6. Rank(S, less, x) \in 0..(Cardinality(S) - 1)
  BY <1>1, <1>3, <1>4, <1>5
<1>7. ASSUME NEW y \in S
      PROVE  /\ <<x, y>> \in less <=> Rank(S, less, x) < Rank(S, less, y)
             /\ Rank(S, less, x) = Rank(S, less, y) => x = y
  <2>1. x = y \/ <<x, y>> \in less \/ <<y, x>> \in less
    BY DEF Orders
  <2>2. <<x, y>> \in less => Cardinality(Pre(x)) < Cardinality(Pre(y))
    BY <1>2
  <2>3. <<y, x>> \in less => Cardinality(Pre(y)) < Cardinality(Pre(x))
    BY <1>2
  <2>4. x = y => <<x, y>> \notin less
    BY DEF Orders
  <2> QED
    BY <1>1, <1>5, <2>1, <2>2, <2>3, <2>4
<1> QED
  BY <1>6, <1>7

\* Ranked(S, less) names every member once, in the order of less.
LEMMA RankedInOrder ==
  ASSUME NEW S, NEW less, IsFiniteSet(S), Orders(less, S)
  PROVE  LET r == Ranked(S, less)
             n == Cardinality(S)
         IN /\ n \in Nat /\ r \in [1..n -> S]
            /\ \A i \in 1..n : Rank(S, less, r[i]) = i - 1
            /\ \A x \in S : Rank(S, less, x) + 1 \in 1..n /\ r[Rank(S, less, x) + 1] = x
            /\ \A i, j \in 1..n : i < j <=> <<r[i], r[j]>> \in less
            /\ \A i, j \in 1..n : r[i] = r[j] => i = j
<1> DEFINE n == Cardinality(S)
           r == Ranked(S, less)
           f == [x \in S |-> Rank(S, less, x)]
<1>1. n \in Nat
  BY FS_CardinalityType
<1>2. \A x \in S : Rank(S, less, x) \in 0..(n - 1)
  BY RankLess
<1>3. \A x, y \in S : Rank(S, less, x) = Rank(S, less, y) => x = y
  BY RankLess
<1>4. \A x, y \in S : <<x, y>> \in less <=> Rank(S, less, x) < Rank(S, less, y)
  BY RankLess
<1>5. f \in Surjection(S, 0..(n - 1))
  <2>1. f \in Injection(S, 0..(n - 1))
    BY <1>2, <1>3 DEF Injection, IsInjective
  <2>2. IsFiniteSet(0..(n - 1)) /\ Cardinality(0..(n - 1)) = n
    <3> HIDE DEF n
    <3>1. 0 \in Int /\ n - 1 \in Int /\ (0 > n - 1 => n = 0) /\ (n - 1) - 0 + 1 = n
      BY <1>1
    <3> QED
      BY <3>1, FS_Interval
  <2> QED
    BY <2>1, <2>2, FS_Injection
<1>6. \A k \in 0..(n - 1) : \E x \in S : Rank(S, less, x) = k
  BY <1>5 DEF Surjection
<1>7. ASSUME NEW i \in 1..n
      PROVE  r[i] \in S /\ Rank(S, less, r[i]) = i - 1
  <2>1. i - 1 \in 0..(n - 1)
    BY <1>1
  <2>2. \E x \in S : Cardinality({y \in S : <<y, x>> \in less}) = i - 1
    BY <1>6, <2>1 DEF Rank
  <2>3. r[i] = CHOOSE x \in S : Cardinality({y \in S : <<y, x>> \in less}) = i - 1
    BY DEF Ranked
  <2> QED
    BY <2>2, <2>3 DEF Rank
<1>8. r \in [1..n -> S]
  <2> DEFINE at(i) == CHOOSE x \in S : Cardinality({y \in S : <<y, x>> \in less}) = i - 1
  <2>1. r = [i \in 1..n |-> at(i)]
    BY DEF Ranked
  <2> HIDE DEF r, at, n
  <2> QED
    BY <1>7, <2>1
<1> HIDE DEF r, n
<1>9. ASSUME NEW x \in S
      PROVE  Rank(S, less, x) + 1 \in 1..n /\ r[Rank(S, less, x) + 1] = x
  <2>1. Rank(S, less, x) + 1 \in 1..n /\ (Rank(S, less, x) + 1) - 1 = Rank(S, less, x)
    BY <1>1, <1>2
  <2> QED
    BY <1>3, <1>7, <2>1
<1>10. \A i, j \in 1..n : i < j <=> <<r[i], r[j]>> \in less
  BY <1>1, <1>4, <1>7
<1>11. \A i, j \in 1..n : r[i] = r[j] => i = j
  BY <1>1, <1>7
<1> QED
  BY <1>1, <1>7, <1>8, <1>9, <1>10, <1>11 DEF n, r

\* A finite set of integers has a least and a greatest member, if any.
LEMMA Extremes ==
  ASSUME NEW S \in SUBSET Int, IsFiniteSet(S), S # {}
  PROVE  /\ Min(S) \in S /\ \A x \in S : Min(S) <= x
         /\ Max(S) \in S /\ \A x \in S : x <= Max(S)
<1> DEFINE less == {p \in S \X S : p[1] < p[2]}
           r == Ranked(S, less)
           n == Cardinality(S)
<1>1. Orders(less, S)
  BY DEF Orders
<1>2. \A x, y \in S : <<x, y>> \in less <=> x < y
  OBVIOUS
<1> HIDE DEF less
<1>3. /\ n \in Nat /\ r \in [1..n -> S]
      /\ \A x \in S : Rank(S, less, x) + 1 \in 1..n /\ r[Rank(S, less, x) + 1] = x
      /\ \A i, j \in 1..n : i < j <=> <<r[i], r[j]>> \in less
  BY <1>1, RankedInOrder
<1>4. /\ n \in Nat /\ r \in [1..n -> S]
      /\ \A x \in S : \E i \in 1..n : r[i] = x
      /\ \A i, j \in 1..n : i < j <=> <<r[i], r[j]>> \in less
  <2> HIDE DEF r, n
  <2> QED
    BY <1>3
<1>5. n # 0
  BY FS_EmptySet
<1> HIDE DEF r, n
<1>6. 1 \in 1..n /\ n \in 1..n
  BY <1>4, <1>5
<1>7. \A i \in 1..n : r[1] <= r[i] /\ r[i] <= r[n]
  <2>1. SUFFICES ASSUME NEW i \in 1..n
                 PROVE  r[1] <= r[i] /\ r[i] <= r[n]
    OBVIOUS
  <2>2. r[1] \in Int /\ r[i] \in Int /\ r[n] \in Int
    BY <1>4, <1>6
  <2>3. i = 1 \/ 1 < i
    BY <1>4
  <2>4. i = n \/ i < n
    BY <1>4
  <2>5. 1 < i => r[1] < r[i]
    BY <1>2, <1>4, <1>6
  <2>6. i < n => r[i] < r[n]
    BY <1>2, <1>4, <1>6
  <2> QED
    BY <2>2, <2>3, <2>4, <2>5, <2>6
<1>8. \E x \in S : \A y \in S : x <= y
  <2>1. r[1] \in S
    BY <1>4, <1>6
  <2>2. \A y \in S : r[1] <= y
    BY <1>4, <1>7, <2>1
  <2> QED
    BY <2>1, <2>2
<1>9. \E x \in S : \A y \in S : x >= y
  <2>1. r[n] \in S
    BY <1>4, <1>6
  <2>2. \A y \in S : r[n] >= y
    BY <1>4, <1>7, <2>1
  <2> QED
    BY <2>1, <2>2
<1>10. Min(S) \in S /\ \A x \in S : Min(S) <= x
  BY <1>8 DEF Min
<1>11. Max(S) \in S /\ \A x \in S : Max(S) >= x
  BY <1>9 DEF Max
<1> QED
  BY <1>10, <1>11

\* What a function makes of a finite set is finite, and no larger.
LEMMA FiniteImage ==
  ASSUME NEW S, IsFiniteSet(S), NEW f
  PROVE  /\ IsFiniteSet({f[x] : x \in S})
         /\ Cardinality({f[x] : x \in S}) <= Cardinality(S)
<1> DEFINE T == {f[x] : x \in S}
           g == [x \in S |-> f[x]]
<1>1. g \in Surjection(S, T)
  BY DEF Surjection
<1> HIDE DEF g
<1> QED
  BY <1>1, FS_Surjection

-----------------------------------------------------------------------------
(* Instants. *)

\* The wall time from which on a zone's later offset counts.
Turn(z) == z.change + (IF z.after < z.before THEN z.before ELSE z.after)

\* Max of one and of two numbers.
LEMMA Greater ==
  ASSUME NEW a \in Int, NEW b \in Int
  PROVE  /\ Max({a}) = a
         /\ Max({a, b}) = IF a < b THEN b ELSE a
<1>1. Max({a}) = a
  <2>1. \E x \in {a} : \A y \in {a} : x >= y
    OBVIOUS
  <2> QED
    BY <2>1 DEF Max
<1>2. \E x \in {a, b} : \A y \in {a, b} : x >= y
  <2>1. a >= b \/ b >= a
    OBVIOUS
  <2> QED
    BY <2>1
<1>3. Max({a, b}) \in {a, b} /\ \A y \in {a, b} : Max({a, b}) >= y
  BY <1>2 DEF Max
<1> QED
  BY <1>1, <1>3

\* Which offset counts turns on the wall time alone.
LEMMA Offset ==
  ASSUME NEW z, IsZone(z), NEW w \in Int
  PROVE  OffsetFor(z, w) = IF w < Turn(z) THEN z.before ELSE z.after
<1> DEFINE b == z.before
           a == z.after
           c == z.change
           Shown(instant) == IF instant < c THEN b ELSE a
           valid == {x \in {b, a} : Shown(w - x) = x}
<1>1. a \in Int /\ b \in Int /\ c \in Int
  BY TimeAssumption DEF IsZone
<1>2. OffsetFor(z, w) = IF valid = {} THEN b ELSE Max(valid)
  BY DEF OffsetFor
<1>3. Turn(z) = c + (IF a < b THEN b ELSE a)
  BY DEF Turn
<1> HIDE DEF a, b, c
<1>4. b \in valid <=> w - b < c \/ a = b
  BY <1>1
<1>5. a \in valid <=> ~(w - a < c) \/ a = b
  BY <1>1
<1>6. valid \subseteq {b, a}
  OBVIOUS
<1> HIDE DEF valid
<1>7. /\ a \in valid /\ b \notin valid => valid = {a}
      /\ a \in valid => valid = {a} \/ valid = {a, b}
      /\ b \in valid => valid = {b} \/ valid = {b, a}
      /\ a \notin valid => valid = {} \/ valid = {b}
  BY <1>6
<1>8. CASE w < Turn(z)
  <2>1. valid = {} \/ valid = {b} \/ (valid = {b, a} /\ a <= b)
    <3>1. CASE a < b
      <4>1. b \in valid
        BY <1>1, <1>3, <1>4, <1>8, <3>1
      <4> QED
        BY <1>1, <1>7, <3>1, <4>1
    <3>2. CASE a = b
      <4>1. b \in valid
        BY <1>4, <3>2
      <4> QED
        BY <1>1, <1>7, <3>2, <4>1
    <3>3. CASE b < a
      <4>1. a \notin valid
        BY <1>1, <1>3, <1>5, <1>8, <3>3
      <4> QED
        BY <1>7, <4>1
    <3> QED
      BY <1>1, <3>1, <3>2, <3>3
  <2>2. {b, a} = {a, b}
    OBVIOUS
  <2>3. Max({b}) = b /\ (a <= b => Max({a, b}) = b)
    BY <1>1, Greater
  <2> QED
    BY <1>2, <1>8, <2>1, <2>2, <2>3 DEF b
<1>9. CASE ~(w < Turn(z))
  <2>1. valid = {a} \/ (valid = {a, b} /\ b <= a)
    <3>1. CASE a < b
      <4>1. b \notin valid
        BY <1>1, <1>3, <1>4, <1>9, <3>1
      <4>2. a \in valid
        BY <1>1, <1>3, <1>5, <1>9, <3>1
      <4> QED
        BY <1>7, <4>1, <4>2
    <3>2. CASE a = b
      <4>1. a \in valid
        BY <1>5, <3>2
      <4> QED
        BY <1>1, <1>7, <3>2, <4>1
    <3>3. CASE b < a
      <4>1. a \in valid
        BY <1>1, <1>3, <1>5, <1>9, <3>3
      <4> QED
        BY <1>1, <1>7, <3>3, <4>1
    <3> QED
      BY <1>1, <3>1, <3>2, <3>3
  <2>2. Max({a}) = a /\ (b <= a => Max({a, b}) = a)
    BY <1>1, Greater
  <2>3. valid # {}
    BY <2>1
  <2> QED
    BY <1>2, <1>9, <2>1, <2>2, <2>3 DEF a
<1> QED
  BY <1>8, <1>9

\* The zone the times of o are read in.
Read(o, floating) ==
  IF o.kind = "utc" THEN Utc ELSE IF o.kind = "zoned" THEN o.zone ELSE floating

\* UTC is a zone.
LEMMA UtcZone == IsZone(Utc)
BY TimeAssumption DEF IsZone, Utc

\* An object reads wall times in one zone, and they are instants there.
LEMMA Instants ==
  ASSUME NEW o, IsObject(o), NEW floating, IsZone(floating)
  PROVE  /\ IsZone(Read(o, floating))
         /\ \A w \in Int : /\ ToInstant(o, floating, w) = w - OffsetFor(Read(o, floating), w)
                           /\ ToInstant(o, floating, w) \in Int
<1>1. IsZone(Read(o, floating))
  BY UtcZone DEF Read, IsObject
<1>2. ASSUME NEW w \in Int
      PROVE  ToInstant(o, floating, w) = w - OffsetFor(Read(o, floating), w)
  <2>1. OffsetFor(Utc, w) = 0
    <3>1. OffsetFor(Utc, w) = IF w < Turn(Utc) THEN Utc.before ELSE Utc.after
      BY UtcZone, Offset
    <3> QED
      BY <3>1 DEF Utc
  <2>2. CASE o.kind = "utc"
    BY <2>1, <2>2 DEF ToInstant, Read
  <2>3. CASE o.kind = "zoned"
    BY <2>3 DEF ToInstant, Read
  <2>4. CASE o.kind \in {"floating", "date"}
    <3>1. ToInstant(o, floating, w) = w - OffsetFor(floating, w)
      BY <2>4 DEF ToInstant
    <3> QED
      BY <2>4, <3>1 DEF Read
  <2> QED
    BY <2>2, <2>3, <2>4 DEF IsObject
<1>3. ASSUME NEW w \in Int
      PROVE  OffsetFor(Read(o, floating), w) \in Int
  <2>1. OffsetFor(Read(o, floating), w) \in {Read(o, floating).before, Read(o, floating).after}
    BY <1>1, Offset
  <2> QED
    BY <1>1, <2>1, TimeAssumption DEF IsZone
<1> QED
  BY <1>1, <1>2, <1>3

\* How far apart two instants are: as the wall times, but for a change of the
\* offset between them.
LEMMA Apart ==
  ASSUME NEW o, IsObject(o), NEW floating, IsZone(floating), NEW v \in Int, NEW w \in Int, v <= w
  PROVE  LET z == Read(o, floating)
             d == ToInstant(o, floating, w) - ToInstant(o, floating, v)
         IN /\ z.before \in Int /\ z.after \in Int
            /\ d = w - v \/ d = w - v - (z.after - z.before)
<1> DEFINE z == Read(o, floating)
           d == ToInstant(o, floating, w) - ToInstant(o, floating, v)
<1>1. IsZone(z) /\ ToInstant(o, floating, w) = w - OffsetFor(z, w) /\ ToInstant(o, floating, v) = v - OffsetFor(z, v)
  BY Instants
<1> HIDE DEF z
<1>2. /\ OffsetFor(z, w) = IF w < Turn(z) THEN z.before ELSE z.after
      /\ OffsetFor(z, v) = IF v < Turn(z) THEN z.before ELSE z.after
  BY <1>1, Offset
<1>3. z.before \in Int /\ z.after \in Int /\ Turn(z) \in Int
  BY <1>1, TimeAssumption DEF IsZone, Turn
<1>4. d = w - v \/ d = w - v - (z.after - z.before)
  BY <1>1, <1>2, <1>3
<1> QED
  BY <1>3, <1>4 DEF z

-----------------------------------------------------------------------------
(* Whole periods. *)

\* Multiplication, which the arithmetic leaves below cite.
LEMMA Distributes ==
  ASSUME NEW a \in Int, NEW b \in Int, NEW c \in Int
  PROVE  a * b \in Int /\ a * (b + c) = a * b + a * c /\ a * (b - c) = a * b - a * c
OBVIOUS

\* Division with remainder by a period: the quotient and the rest are unique,
LEMMA Divided ==
  ASSUME NEW U \in Nat \ {0}, NEW d \in Int, NEW r \in Int, 0 <= r, r < U
  PROVE  (U * d + r) \div U = d /\ (U * d + r) % U = r
<1>1. (U * d + r) \div U = d
  OBVIOUS
<1>2. (U * d + r) % U = r
  OBVIOUS
<1> QED
  BY <1>1, <1>2


\* they exist,
LEMMA Divides ==
  ASSUME NEW U \in Nat \ {0}, NEW s \in Int
  PROVE  s \div U \in Int /\ s % U \in Int /\ s = U * (s \div U) + (s % U) /\ 0 <= s % U /\ s % U < U
OBVIOUS

\* and whole periods shift the quotient only.
LEMMA DivShift ==
  ASSUME NEW U \in Nat \ {0}, NEW s \in Int, NEW m \in Int
  PROVE  (s + U * m) \div U = (s \div U) + m /\ (s + U * m) % U = s % U
<1> DEFINE q == s \div U
           r == s % U
<1>1. s = U * q + r /\ 0 <= r /\ r < U /\ q \in Int /\ r \in Int
  BY Divides
<1> HIDE DEF q, r
<1>2. U * (q + m) = U * q + U * m /\ U * q \in Int /\ U * m \in Int
  BY <1>1, Distributes
<1>3. s + U * m = U * (q + m) + r
  BY <1>1, <1>2
<1>4. (U * (q + m) + r) \div U = q + m /\ (U * (q + m) + r) % U = r
  BY <1>1, Divided
<1> QED
  BY <1>3, <1>4 DEF q, r

\* The phase of the periods is the same, whichever of them they are counted from.
LEMMA SamePhase ==
  ASSUME NEW r, IsRule(r), NEW start \in Int, NEW k \in Nat, NEW wall \in Int
  PROVE  LET base == start + Unit[r.unit] * r.interval * k
         IN Allows(r, base, wall) <=> Allows(r, start, wall) /\ wall >= base
<1> DEFINE U == Unit[r.unit]
           i == r.interval
           base == start + U * i * k
           q == (wall \div U) - (start \div U)
<1>1. U \in Nat \ {0} /\ i \in Nat \ {0} /\ i \in Int /\ U \in Int
  BY TimeAssumption DEF IsRule
<1> HIDE DEF U, i
<1>2. U * i * k = U * (i * k) /\ i * k \in Nat /\ U * (i * k) \in Nat
  BY <1>1
<1>3. base \div U = (start \div U) + i * k
  BY <1>1, <1>2, DivShift
<1>4. q \in Int /\ wall \div U \in Int /\ start \div U \in Int
  BY <1>1, Divides
<1>5. (q - i * k) % i = q % i
  <2>1. (q + i * (-k)) % i = q % i
    <3> HIDE DEF q
    <3>1. -k \in Int
      OBVIOUS
    <3> QED
      BY <1>1, <1>4, <3>1, DivShift
  <2>2. i * (-k) = -(i * k)
    BY <1>1
  <2>3. q + i * (-k) = q - i * k
    <3> HIDE DEF q
    <3> QED
      BY <1>2, <1>4, <2>2
  <2> QED
    BY <2>1, <2>3
<1>6. (wall \div U) - (base \div U) = q - i * k
  BY <1>2, <1>3, <1>4
<1>7. base \in Int /\ base >= start
  BY <1>2
<1>8. wall >= base => wall >= start
  <2> HIDE DEF base
  <2> QED
    BY <1>7
<1> HIDE DEF q, base
<1>9. /\ Allows(r, base, wall) <=> wall >= base /\ (q - i * k) % i = 0 /\ wall % r.cycle \in r.by
      /\ Allows(r, start, wall) <=> wall >= start /\ q % i = 0 /\ wall % r.cycle \in r.by
  BY <1>6 DEF Allows, U, i, q
<1> QED
  BY <1>5, <1>8, <1>9 DEF base, U, i

-----------------------------------------------------------------------------
(* The times of a component. *)

\* An end is its start plus a length, or a wall time after the start.
LEMMA Ends ==
  ASSUME NEW o, IsObject(o), NEW c, IsComponent(c)
  PROVE  \E n \in Nat :
           \/ \A z : IsZone(z) => EndOf(o, z, c) = StartOf(o, z, c) + n
           \/ \A z : IsZone(z) => EndOf(o, z, c) = ToInstant(o, z, c.start + n)
<1>1. c.start \in Int /\ c.length \in Nat /\ Day \in Nat
  BY TimeAssumption DEF IsComponent
<1>2. CASE c.ends = "dtend"
  <2>1. \A z : EndOf(o, z, c) = ToInstant(o, z, c.start + c.length)
    BY <1>2 DEF EndOf
  <2> QED
    BY <1>1, <2>1
<1>3. CASE c.ends = "duration"
  <2>1. \A z : EndOf(o, z, c) = StartOf(o, z, c) + c.length
    BY <1>3 DEF EndOf
  <2> QED
    BY <1>1, <2>1
<1>4. CASE c.ends = "none" /\ o.kind = "date"
  <2>1. \A z : EndOf(o, z, c) = ToInstant(o, z, c.start + Day)
    BY <1>4 DEF EndOf
  <2> QED
    BY <1>1, <2>1
<1>5. CASE c.ends = "none" /\ o.kind # "date"
  <2>1. ASSUME NEW z, IsZone(z)
        PROVE  EndOf(o, z, c) = StartOf(o, z, c) + 0
    <3>1. StartOf(o, z, c) \in Int
      BY <1>1, <2>1, Instants DEF StartOf
    <3> QED
      BY <1>5, <3>1 DEF EndOf
  <2> QED
    BY <2>1
<1> QED
  BY <1>2, <1>3, <1>4, <1>5 DEF IsComponent

\* A component's times are instants.
LEMMA TimesOf ==
  ASSUME NEW o, IsObject(o), NEW floating, IsZone(floating), NEW c, IsComponent(c)
  PROVE  StartOf(o, floating, c) \in Int /\ EndOf(o, floating, c) \in Int
<1>1. StartOf(o, floating, c) \in Int
  BY Instants DEF StartOf, IsComponent
<1>2. PICK n \in Nat : EndOf(o, floating, c) \in {StartOf(o, floating, c) + n, ToInstant(o, floating, c.start + n)}
  BY Ends
<1>3. c.start + n \in Int
  BY DEF IsComponent
<1>4. ToInstant(o, floating, c.start + n) \in Int
  BY <1>3, Instants
<1> QED
  BY <1>1, <1>2, <1>4

\* A master starts no later than the horizon, and has a length.
LEMMA Master ==
  ASSUME NEW o, IsObject(o), NEW floating, IsZone(floating), o.master # None
  PROVE  /\ IsComponent(o.master) /\ o.master.start \in Int /\ o.master.start <= Horizon
         /\ LengthOf(o, floating) \in Int
<1>1. IsComponent(o.master) /\ o.master.start \in Int /\ o.master.start <= Horizon
  BY DEF IsObject, IsComponent
<1>2. StartOf(o, floating, o.master) \in Int /\ EndOf(o, floating, o.master) \in Int
  BY <1>1, TimesOf
<1> QED
  BY <1>1, <1>2 DEF LengthOf

-----------------------------------------------------------------------------
(* The rule, wherever it is started. *)

\* The wall times of the rule.
Recurring(o, floating) == {w \in o.master.start..Horizon : Recurs(o, floating, w)}

\* A rule drawn from DTSTART on has all its instances.
LEMMA FromStart ==
  ASSUME NEW o, IsObject(o), NEW floating, IsZone(floating), o.master # None
  PROVE  RuleInstances(o, floating, o.master.start) = Recurring(o, floating)
<1> DEFINE r == o.rule
           start == o.master.start
           Fits(w) == /\ Allows(r, start, w)
                      /\ r.until # None =>
                           ToInstant(o, floating, w) <= ToInstant(o, floating, r.until)
           allowed == {w \in start..Horizon : Fits(w)}
<1>1. start \in Int /\ start <= Horizon /\ Horizon \in Int
  BY Master, TimeAssumption
<1>2. CASE r = None
  <2>1. Recurring(o, floating) = {w \in start..Horizon : w = start}
    BY <1>2 DEF Recurring, Recurs
  <2>2. RuleInstances(o, floating, start) = {start}
    BY <1>2 DEF RuleInstances
  <2> HIDE DEF start
  <2>3. {w \in start..Horizon : w = start} = {start}
    BY <1>1
  <2> QED
    BY <2>1, <2>2, <2>3 DEF start
<1>3. CASE r # None /\ r.count = 0
  <2>1. Recurring(o, floating) = allowed
    BY <1>3 DEF Recurring, Recurs
  <2>2. RuleInstances(o, floating, start) = allowed
    BY <1>3 DEF RuleInstances
  <2> QED
    BY <2>1, <2>2
<1>4. CASE r # None /\ r.count > 0 /\ r.count # 0
  <2>1. Recurring(o, floating) = {w \in start..Horizon : Fits(w) /\ Cardinality({v \in start..w : Fits(v)}) <= r.count}
    BY <1>4 DEF Recurring, Recurs
  <2>2. RuleInstances(o, floating, start) = {w \in allowed : Cardinality({v \in allowed : v <= w}) <= r.count}
    BY <1>4 DEF RuleInstances
  <2> HIDE DEF Fits, start
  <2>3. ASSUME NEW w \in start..Horizon
        PROVE  {v \in start..w : Fits(v)} = {v \in allowed : v <= w}
    <3>1. \A v : v \in start..w <=> v \in start..Horizon /\ v <= w
      BY <1>1
    <3> QED
      BY <3>1
  <2>4. \A w \in start..Horizon : Cardinality({v \in start..w : Fits(v)}) = Cardinality({v \in allowed : v <= w})
    BY <2>3
  <2>5. \A w : w \in allowed <=> w \in start..Horizon /\ Fits(w)
    OBVIOUS
  <2> HIDE DEF allowed
  <2> QED
    BY <2>1, <2>2, <2>4, <2>5 DEF start
<1> QED
  <2>1. r # None => r.count \in Nat
    BY DEF IsObject, IsRule
  <2> HIDE DEF r
  <2>2. r # None => r.count = 0 \/ (r.count > 0 /\ r.count # 0)
    BY <2>1
  <2> QED
    BY <1>2, <1>3, <1>4, <2>2

\* Where a rule without memory is started, and what lies before.
LEMMA Forward ==
  ASSUME NEW o, IsObject(o), NEW floating, IsZone(floating), o.master # None, o.rule # None,
         o.rule.unit \in DOMAIN Margin, o.rule.count = 0, NEW skipTo \in Int
  PROVE  LET r == o.rule
             start == o.master.start
             base == FastForward(o, floating, skipTo)
         IN /\ \E k \in Nat : base = start + Unit[r.unit] * r.interval * k
            /\ base \in Int /\ base >= start
            /\ \A w \in start..(base - 1) : ToInstant(o, floating, w) < skipTo
<1> DEFINE r == o.rule
           start == o.master.start
           period == Unit[r.unit] * r.interval
           i0 == ToInstant(o, floating, start)
           m == Margin[r.unit]
           x == skipTo - i0 - 2 * period - m
           periods == x \div period
           k == Max({periods, 0})
           base == FastForward(o, floating, skipTo)
<1>1. IsRule(r) /\ start \in Int
  BY Master DEF IsObject
<1>2. period \in Nat \ {0} /\ m \in Nat
  <2>1. Unit[r.unit] \in Nat \ {0} /\ r.interval \in Nat \ {0} /\ m \in Nat
    BY <1>1, TimeAssumption DEF IsRule
  <2> QED
    BY <2>1
<1>3. i0 \in Int
  BY <1>1, Instants
<1>4. base = start + period * k
  BY DEF FastForward
<1> HIDE DEF r, start, period, i0, m, base
<1>5. x \in Int
  BY <1>2, <1>3
<1>6. periods \in Int /\ x = period * periods + (x % period) /\ 0 <= x % period /\ x % period \in Int
  BY <1>2, <1>5, Divides
<1>7. k = IF periods < 0 THEN 0 ELSE periods
  <2> HIDE DEF periods
  <2>1. periods \in Int /\ 0 \in Int
    BY <1>6
  <2>2. Max({periods, 0}) = IF periods < 0 THEN 0 ELSE periods
    BY <2>1, Greater
  <2> QED
    BY <2>2
<1>8. k \in Nat /\ (k # 0 => k = periods)
  <2> HIDE DEF periods, k
  <2> QED
    BY <1>6, <1>7
<1>9. period * k \in Nat
  <2> HIDE DEF k
  <2> QED
    BY <1>2, <1>8
<1>10. k # 0 => period * k <= x
  <2>1. SUFFICES ASSUME k # 0
                 PROVE  period * k <= x
    OBVIOUS
  <2>2. x = period * k + (x % period)
    BY <1>6, <1>8, <2>1
  <2> DEFINE y == x % period
  <2>3. x = period * k + y /\ y \in Int /\ 0 <= y
    BY <1>6, <2>2
  <2> HIDE DEF x, y, k
  <2> QED
    BY <1>9, <2>3
<1>11. base \in Int /\ base >= start
  BY <1>1, <1>4, <1>9
<1>12. ASSUME NEW w \in start..(base - 1)
       PROVE  ToInstant(o, floating, w) < skipTo
  <2> DEFINE z == Read(o, floating)
  <2>1. w \in Int /\ start <= w /\ w < base
    BY <1>1, <1>11
  <2>2. k # 0
    BY <1>1, <1>2, <1>4, <2>1
  <2> HIDE DEF k
  <2>3. period * k <= x
    BY <1>10, <2>2
  <2>4. /\ ToInstant(o, floating, w) - i0 \in {w - start, w - start - (z.after - z.before)}
        /\ z.before \in Int /\ z.after \in Int
    BY <1>1, <2>1, Apart DEF i0
  <2>5. ToInstant(o, floating, w) \in Int
    BY <2>1, Instants
  <2>6. z.after - z.before >= -m
    <3>1. IsZone(z)
      BY Instants
    <3>2. z.after - z.before \in -m..m
      BY <3>1 DEF IsZone, m, r
    <3> HIDE DEF z
    <3> QED
      BY <1>2, <2>4, <3>2
  <2> HIDE DEF z, x
  <2>7. ToInstant(o, floating, w) - i0 <= (w - start) + m
    BY <1>1, <1>2, <1>3, <2>1, <2>4, <2>5, <2>6
  <2>8. w - start < period * k
    BY <1>1, <1>4, <1>9, <1>11, <2>1
  <2>9. x = skipTo - i0 - 2 * period - m
    BY DEF x
  <2> QED
    BY <1>1, <1>2, <1>3, <1>5, <1>9, <2>1, <2>3, <2>5, <2>7, <2>8, <2>9
<1>13. \E j \in Nat : base = start + period * j
  BY <1>4, <1>8
<1> QED
  BY <1>11, <1>12, <1>13 DEF r, start, period, base

\* An expansion draws what the rule allows from its base on, and nothing before
\* the base reaches into the range.
LEMMA FromBase ==
  ASSUME NEW o, IsObject(o), NEW floating, IsZone(floating), o.master # None, NEW from \in Int
  PROVE  LET base == Base(o, floating, from)
         IN /\ base \in Int /\ base >= o.master.start
            /\ RuleInstances(o, floating, base) = {w \in Recurring(o, floating) : w >= base}
            /\ \A w \in o.master.start..(base - 1) :
                 ToInstant(o, floating, w) + LengthOf(o, floating) < from
<1> DEFINE r == o.rule
           start == o.master.start
           base == Base(o, floating, from)
<1>1. start \in Int
  BY Master
<1>2. CASE base = start
  <2>1. RuleInstances(o, floating, base) = Recurring(o, floating)
    BY <1>2, FromStart
  <2>2. \A w \in Recurring(o, floating) : w >= base
    BY <1>1, <1>2 DEF Recurring
  <2>3. start..(base - 1) = {}
    <3> HIDE DEF base, start
    <3> QED
      BY <1>1, <1>2
  <2>4. {w \in Recurring(o, floating) : w >= base} = Recurring(o, floating)
    BY <2>2
  <2>5. base \in Int /\ base >= start
    BY <1>1, <1>2
  <2> HIDE DEF base
  <2> QED
    BY <2>1, <2>3, <2>4, <2>5 DEF base
<1>3. CASE base # start
  <2>1. r # None /\ IsRule(r) /\ base = FastForward(o, floating, SkipTo(o, floating, from))
    BY <1>3 DEF Base, IsObject
  <2>2. r.unit \in DOMAIN Margin /\ ~(r.count > 0)
    BY <1>3, <2>1 DEF FastForward
  <2>3. r.count = 0 /\ r.unit \in DOMAIN Margin
    BY <2>1, <2>2 DEF IsRule
  <2>4. LengthOf(o, floating) \in Int /\ SkipTo(o, floating, from) = from - LengthOf(o, floating)
    BY Master DEF SkipTo
  <2>5. /\ \E k \in Nat : base = start + Unit[r.unit] * r.interval * k
        /\ base \in Int /\ base >= start
        /\ \A w \in start..(base - 1) : ToInstant(o, floating, w) < SkipTo(o, floating, from)
    <3>1. SkipTo(o, floating, from) \in Int
      BY <2>4
    <3> QED
      BY <2>1, <2>3, <3>1, Forward
  <2>6. \A w \in Int : Allows(r, base, w) <=> Allows(r, start, w) /\ w >= base
    BY <1>1, <2>1, <2>5, SamePhase
  <2> DEFINE Fits(w) == r.until # None => ToInstant(o, floating, w) <= ToInstant(o, floating, r.until)
  <2>7. RuleInstances(o, floating, base) = {w \in base..Horizon : Allows(r, base, w) /\ Fits(w)}
    BY <2>1, <2>3 DEF RuleInstances
  <2>8. Recurring(o, floating) = {w \in start..Horizon : Allows(r, start, w) /\ Fits(w)}
    BY <2>1, <2>3 DEF Recurring, Recurs
  <2>9. \A w \in o.master.start..(base - 1) : ToInstant(o, floating, w) + LengthOf(o, floating) < from
    <3>1. ASSUME NEW w \in start..(base - 1)
          PROVE  ToInstant(o, floating, w) + LengthOf(o, floating) < from
      <4>1. w \in Int
        BY <1>1, <2>5
      <4>2. ToInstant(o, floating, w) \in Int
        BY <4>1, Instants
      <4>3. ToInstant(o, floating, w) < SkipTo(o, floating, from)
        BY <2>5
      <4> QED
        BY <2>4, <4>2, <4>3
    <3> QED
      BY <3>1
  <2> HIDE DEF base, start, Fits
  <2>10. \A w : w \in base..Horizon <=> w \in start..Horizon /\ w >= base
    BY <1>1, <2>5, TimeAssumption
  <2>11. base..Horizon \subseteq Int /\ start..Horizon \subseteq Int
    OBVIOUS
  <2>12. RuleInstances(o, floating, base) = {w \in Recurring(o, floating) : w >= base}
    BY <2>6, <2>7, <2>8, <2>10, <2>11
  <2> QED
    BY <2>5, <2>9, <2>12 DEF start, base
<1> QED
  BY <1>2, <1>3

-----------------------------------------------------------------------------
(* Occurrences. *)

\* Wall times as instants.
InstantsOf(o, floating, walls) == {ToInstant(o, floating, w) : w \in walls}

\* The length of the instance that starts at start, and whether it is explicit.
Own(o, floating, ruled, start) == start \notin ruled /\ RdateLength(o, floating, start) # None
\* The length it has: that of an RDATE with a period, or the event's.
LengthAt(o, floating, ruled, start) ==
  IF Own(o, floating, ruled, start) THEN RdateLength(o, floating, start) ELSE LengthOf(o, floating)
\* Whether the event or the RDATE says when it ends.
ExplicitAt(o, floating, ruled, start) == o.master.ends = "dtend" \/ Own(o, floating, ruled, start)

\* The occurrences of the master, if ruled is what the rule yields.
Occurring(o, floating, ruled, from, to) ==
  {Occurrence(s, s + LengthAt(o, floating, ruled, s), None, o.master) :
     s \in {t \in (ruled \cup InstantsOf(o, floating, DOMAIN o.rdates))
                    \ (Excluded(o, floating) \cup Overridden(o, floating)) :
              Overlaps(t, t + LengthAt(o, floating, ruled, t), ExplicitAt(o, floating, ruled, t), from, to)}}

\* The instance itself.
InstanceAt(o, floating, ruled, start) ==
  [start |-> start, end |-> start + LengthAt(o, floating, ruled, start),
   explicit |-> ExplicitAt(o, floating, ruled, start)]

\* RecurrenceSet in these terms,
LEMMA RecurrenceSetIs ==
  ASSUME NEW o, NEW floating, NEW base
  PROVE  LET ruled == Rising(o, floating, RuleInstances(o, floating, base))
         IN RecurrenceSet(o, floating, base) =
              {InstanceAt(o, floating, ruled, s) :
                 s \in (ruled \cup InstantsOf(o, floating, DOMAIN o.rdates)) \ Excluded(o, floating)}
<1> DEFINE ruled == Rising(o, floating, RuleInstances(o, floating, base))
           dates == InstantsOf(o, floating, DOMAIN o.rdates)
           Instance(start) ==
             IF start \in ruled \/ RdateLength(o, floating, start) = None
             THEN [start |-> start, end |-> start + LengthOf(o, floating),
                   explicit |-> o.master.ends = "dtend"]
             ELSE [start |-> start, end |-> start + RdateLength(o, floating, start), explicit |-> TRUE]
<1>1. RecurrenceSet(o, floating, base) = {Instance(s) : s \in (ruled \cup dates) \ Excluded(o, floating)}
  BY DEF RecurrenceSet, InstantsOf
<1>2. ASSUME NEW s
      PROVE  Instance(s) = InstanceAt(o, floating, ruled, s)
  <2>1. CASE Own(o, floating, ruled, s)
    <3>1. LengthAt(o, floating, ruled, s) = RdateLength(o, floating, s) /\ ExplicitAt(o, floating, ruled, s) = TRUE
      BY <2>1 DEF LengthAt, ExplicitAt
    <3> HIDE DEF ruled
    <3> QED
      BY <2>1, <3>1 DEF Own, InstanceAt
  <2>2. CASE ~Own(o, floating, ruled, s)
    <3>1. LengthAt(o, floating, ruled, s) = LengthOf(o, floating)
      BY <2>2 DEF LengthAt
    <3>2. ExplicitAt(o, floating, ruled, s) = (o.master.ends = "dtend")
      BY <2>2 DEF ExplicitAt
    <3> HIDE DEF ruled
    <3> QED
      BY <2>2, <3>1, <3>2 DEF Own, InstanceAt
  <2> QED
    BY <2>1, <2>2
<1> HIDE DEF Instance, ruled, dates
<1> QED
  BY <1>1, <1>2 DEF ruled, dates

\* ExpandOccurrences,
LEMMA ExpandIs ==
  ASSUME NEW o, NEW floating, NEW from, NEW to, o.master # None
  PROVE  LET ruled == Rising(o, floating, RuleInstances(o, floating, Base(o, floating, from)))
         IN ExpandOccurrences(o, floating, from, to) =
              OverrideOccurrences(o, floating, from, to) \cup Occurring(o, floating, ruled, from, to)
<1> DEFINE base == Base(o, floating, from)
           ruled == Rising(o, floating, RuleInstances(o, floating, base))
           S == (ruled \cup InstantsOf(o, floating, DOMAIN o.rdates)) \ Excluded(o, floating)
           At1(s) == InstanceAt(o, floating, ruled, s)
           Counts(j) == /\ j.start \notin Overridden(o, floating)
                        /\ Overlaps(j.start, j.end, j.explicit, from, to)
           Made(i) == Occurrence(i.start, i.end, None, o.master)
<1>1. RecurrenceSet(o, floating, base) = {At1(s) : s \in S}
  BY RecurrenceSetIs
<1>2. ExpandOccurrences(o, floating, from, to) =
        OverrideOccurrences(o, floating, from, to) \cup
        {Made(i) : i \in {j \in RecurrenceSet(o, floating, base) : Counts(j)}}
  BY DEF ExpandOccurrences
<1>3. Occurring(o, floating, ruled, from, to) = {Made(At1(s)) : s \in {t \in S : Counts(At1(t))}}
  <2>1. \A s : /\ At1(s).start = s
               /\ At1(s).end = s + LengthAt(o, floating, ruled, s)
               /\ At1(s).explicit = ExplicitAt(o, floating, ruled, s)
    BY DEF InstanceAt
  <2> HIDE DEF At1, base
  <2>2. \A s : Made(At1(s)) = Occurrence(s, s + LengthAt(o, floating, ruled, s), None, o.master)
    BY <2>1
  <2>3. \A s : Counts(At1(s)) <=> /\ s \notin Overridden(o, floating)
                                 /\ Overlaps(s, s + LengthAt(o, floating, ruled, s), ExplicitAt(o, floating, ruled, s), from, to)
    BY <2>1
  <2> HIDE DEF Made, Counts, ruled
  <2> QED
    BY <2>2, <2>3 DEF Occurring
<1> HIDE DEF Made, Counts, At1, ruled, S, base
<1>4. {Made(i) : i \in {j \in {At1(s) : s \in S} : Counts(j)}} = {Made(At1(s)) : s \in {t \in S : Counts(At1(t))}}
  OBVIOUS
<1> QED
  BY <1>1, <1>2, <1>3, <1>4 DEF ruled, base

\* and what it should be.
LEMMA TrueIs ==
  ASSUME NEW o, NEW floating, NEW from, NEW to, o.master # None
  PROVE  TrueOccurrences(o, floating, from, to) =
           OverrideOccurrences(o, floating, from, to) \cup
           Occurring(o, floating, InstantsOf(o, floating, Recurring(o, floating)), from, to)
<1> DEFINE ruled == InstantsOf(o, floating, Recurring(o, floating))
           all == InstantsOf(o, floating, DOMAIN o.rdates)
           dates == all \ ruled
           Length(start) == IF start \in dates /\ RdateLength(o, floating, start) # None
                            THEN RdateLength(o, floating, start)
                            ELSE LengthOf(o, floating)
           Explicit(start) == \/ o.master.ends = "dtend"
                              \/ start \in dates /\ RdateLength(o, floating, start) # None
           out == Excluded(o, floating) \cup Overridden(o, floating)
<1>1. TrueOccurrences(o, floating, from, to) =
        OverrideOccurrences(o, floating, from, to) \cup
        {Occurrence(s, s + Length(s), None, o.master) :
           s \in {t \in (ruled \cup dates) \ out : Overlaps(t, t + Length(t), Explicit(t), from, to)}}
  BY DEF TrueOccurrences, InstantsOf, Recurring
<1>2. (ruled \cup dates) \ out = (ruled \cup all) \ out
  OBVIOUS
<1>3. ASSUME NEW s \in ruled \cup all
      PROVE  /\ Length(s) = LengthAt(o, floating, ruled, s)
             /\ Explicit(s) <=> ExplicitAt(o, floating, ruled, s)
  <2> HIDE DEF ruled, all
  <2>1. s \in dates /\ RdateLength(o, floating, s) # None <=> Own(o, floating, ruled, s)
    BY DEF Own
  <2> HIDE DEF dates
  <2> QED
    BY <2>1 DEF LengthAt, ExplicitAt
<1>4. ASSUME NEW s \in (ruled \cup all) \ out
      PROVE  /\ Occurrence(s, s + Length(s), None, o.master) = Occurrence(s, s + LengthAt(o, floating, ruled, s), None, o.master)
             /\ Overlaps(s, s + Length(s), Explicit(s), from, to)
                <=> Overlaps(s, s + LengthAt(o, floating, ruled, s), ExplicitAt(o, floating, ruled, s), from, to)
  <2>1. Length(s) = LengthAt(o, floating, ruled, s) /\ (Explicit(s) <=> ExplicitAt(o, floating, ruled, s))
    BY <1>3
  <2> HIDE DEF Length, Explicit, ruled
  <2> QED
    BY <2>1 DEF Overlaps
<1>5. Occurring(o, floating, ruled, from, to) =
        {Occurrence(s, s + LengthAt(o, floating, ruled, s), None, o.master) :
           s \in {t \in (ruled \cup all) \ out : Overlaps(t, t + LengthAt(o, floating, ruled, t), ExplicitAt(o, floating, ruled, t), from, to)}}
  BY DEF Occurring
<1> HIDE DEF Length, Explicit, ruled, all, dates, out
<1>6. {Occurrence(s, s + Length(s), None, o.master) :
           s \in {t \in (ruled \cup dates) \ out : Overlaps(t, t + Length(t), Explicit(t), from, to)}}
      = Occurring(o, floating, ruled, from, to)
  BY <1>2, <1>4, <1>5
<1> QED
  BY <1>1, <1>6 DEF ruled

\* A rule has but finitely many instances up to the horizon.
LEMMA RecurringFinite ==
  ASSUME NEW o, IsObject(o), NEW floating, IsZone(floating), o.master # None
  PROVE  Recurring(o, floating) \subseteq Int /\ IsFiniteSet(Recurring(o, floating))
<1>1. o.master.start \in Int /\ Horizon \in Int
  BY Master, TimeAssumption
<1>2. IsFiniteSet(o.master.start..Horizon)
  BY <1>1, FS_Interval
<1>3. Recurring(o, floating) \in SUBSET (o.master.start..Horizon)
  BY DEF Recurring
<1>4. IsFiniteSet(Recurring(o, floating))
  BY <1>2, <1>3, FS_Subset
<1> QED
  BY <1>1, <1>3, <1>4

\* Where no zone swaps two instances none is passed over.
LEMMA AllRise ==
  ASSUME NEW o, IsObject(o), NEW floating, IsZone(floating), o.master # None, Steady(o, floating),
         NEW drawn \in SUBSET Recurring(o, floating)
  PROVE  Rising(o, floating, drawn) = InstantsOf(o, floating, drawn)
<1> DEFINE inst(w) == ToInstant(o, floating, w)
           rise == {v \in drawn : \A u \in drawn : u < v => inst(u) < inst(v)}
<1>1. drawn \subseteq Int /\ IsFiniteSet(drawn)
  BY RecurringFinite, FS_Subset
<1>2. \A w \in drawn : inst(w) \in Int
  BY <1>1, Instants
<1>3. \A v, w \in drawn : v < w => inst(v) <= inst(w)
  BY DEF Steady, Recurring
<1> HIDE DEF inst
<1>4. ASSUME NEW w \in drawn
      PROVE  \E v \in rise : inst(v) = inst(w)
  <2> DEFINE same == {v \in drawn : inst(v) = inst(w)}
             v == Min(same)
  <2>1. same \in SUBSET Int /\ IsFiniteSet(same) /\ same # {}
    <3>1. same \in SUBSET drawn /\ w \in same
      OBVIOUS
    <3> QED
      BY <1>1, <3>1, FS_Subset
  <2>2. v \in same /\ \A u \in same : v <= u
    <3> HIDE DEF same
    <3> QED
      BY <2>1, Extremes
  <2> HIDE DEF v
  <2>3. ASSUME NEW u \in drawn, u < v
        PROVE  inst(u) < inst(v)
    <3>1. inst(u) <= inst(v) /\ inst(u) \in Int /\ inst(v) \in Int /\ u \in Int /\ v \in Int
      BY <1>1, <1>2, <1>3, <2>2, <2>3
    <3>2. inst(u) # inst(v)
      <4>1. u \in same => v <= u
        BY <2>2
      <4>2. u \notin same
        BY <2>3, <3>1, <4>1
      <4> QED
        BY <2>2, <4>2
    <3> QED
      BY <3>1, <3>2
  <2> QED
    BY <2>2, <2>3
<1>5. {inst(w) : w \in rise} = {inst(w) : w \in drawn}
  <2>1. rise \subseteq drawn
    OBVIOUS
  <2> HIDE DEF rise
  <2> QED
    BY <1>4, <2>1
<1> QED
  BY <1>5 DEF Rising, InstantsOf, inst

\* With its end, no instance from before the base reaches into the range, and
\* those from the base on are of the same lengths as in the whole set.
LEMMA NearTheRange ==
  ASSUME NEW o, IsObject(o), NEW floating, IsZone(floating), NEW from \in Int, NEW to \in Int,
         Steady(o, floating), ~AmbiguousLength(o, floating)
  PROVE  ExpandOccurrences(o, floating, from, to) = TrueOccurrences(o, floating, from, to)
<1>1. CASE o.master = None
  BY <1>1 DEF ExpandOccurrences, TrueOccurrences
<1>2. CASE o.master # None
  <2> DEFINE base == Base(o, floating, from)
             all == Recurring(o, floating)
             drawn == RuleInstances(o, floating, base)
             ruled == InstantsOf(o, floating, drawn)
             true == InstantsOf(o, floating, all)
             dates == InstantsOf(o, floating, DOMAIN o.rdates)
             L == LengthOf(o, floating)
  <2>1. /\ base \in Int /\ drawn = {w \in all : w >= base}
        /\ \A w \in o.master.start..(base - 1) : ToInstant(o, floating, w) + L < from
    BY <1>2, FromBase
  <2>2. Rising(o, floating, drawn) = ruled
    BY <1>2, <2>1, AllRise
  <2>3. ruled \subseteq true
    BY <2>1 DEF InstantsOf
  <2>4. L \in Int /\ o.master.start \in Int
    BY <1>2, Master
  <2>5. ASSUME NEW s \in true, s \notin ruled
        PROVE  s \in Int /\ s + L < from
    <3>1. PICK w \in all : s = ToInstant(o, floating, w)
      BY <2>5 DEF InstantsOf
    <3>2. w \in Int /\ w >= o.master.start /\ w \in o.master.start..Horizon
      BY <2>4 DEF Recurring
    <3>3. ~(w >= base)
      BY <2>1, <2>5, <3>1 DEF InstantsOf
    <3>4. w \in o.master.start..(base - 1)
      <4> HIDE DEF base
      <4> QED
        BY <2>1, <2>4, <3>2, <3>3
    <3> QED
      BY <2>1, <3>1, <3>2, <3>4, Instants
  <2>6. ASSUME NEW s \in dates
        PROVE  RdateLength(o, floating, s) # None => s \notin true
    <3>1. \E w \in DOMAIN o.rdates : ToInstant(o, floating, w) = s
      BY DEF InstantsOf
    <3> DEFINE walls == {x \in DOMAIN o.rdates : ToInstant(o, floating, x) = s}
               w == AnyOf(walls)
    <3>2. w \in walls
      BY <3>1 DEF AnyOf
    <3>3. w \in DOMAIN o.rdates /\ ToInstant(o, floating, w) = s /\ RdateLength(o, floating, s) = o.rdates[w]
      BY <3>2 DEF RdateLength
    <3> HIDE DEF w
    <3> QED
      BY <1>2, <3>3 DEF AmbiguousLength, InstantsOf, Recurring
  <2> HIDE DEF base, all, drawn, ruled, true, dates, L
  <2>7. ASSUME NEW s \in ruled \cup dates
        PROVE  Own(o, floating, ruled, s) <=> Own(o, floating, true, s)
    BY <2>3, <2>6 DEF Own
  <2>8. ASSUME NEW s \in ruled \cup dates
        PROVE  /\ LengthAt(o, floating, ruled, s) = LengthAt(o, floating, true, s)
               /\ ExplicitAt(o, floating, ruled, s) <=> ExplicitAt(o, floating, true, s)
    BY <2>7 DEF LengthAt, ExplicitAt
  <2>9. ASSUME NEW s \in true, s \notin ruled \cup dates
        PROVE  ~Overlaps(s, s + LengthAt(o, floating, true, s), ExplicitAt(o, floating, true, s), from, to)
    <3>1. s \in Int /\ s + L < from
      BY <2>5, <2>9
    <3>2. LengthAt(o, floating, true, s) = L
      BY <2>9 DEF LengthAt, Own, L
    <3>3. L = 0 => s < from
      BY <2>4, <3>1
    <3>4. s + L = s => L = 0
      BY <2>4, <3>1
    <3>5. ~(from < s + L)
      BY <2>4, <3>1
    <3>6. s < from => ~(from <= s)
      BY <3>1
    <3> QED
      BY <3>2, <3>3, <3>4, <3>5, <3>6 DEF Overlaps
  <2>10. ASSUME NEW s \in ruled \cup dates
         PROVE  /\ Occurrence(s, s + LengthAt(o, floating, ruled, s), None, o.master)
                   = Occurrence(s, s + LengthAt(o, floating, true, s), None, o.master)
                /\ Overlaps(s, s + LengthAt(o, floating, ruled, s), ExplicitAt(o, floating, ruled, s), from, to)
                   <=> Overlaps(s, s + LengthAt(o, floating, true, s), ExplicitAt(o, floating, true, s), from, to)
    BY <2>8 DEF Overlaps
  <2> DEFINE out == Excluded(o, floating) \cup Overridden(o, floating)
             In1(t) == Overlaps(t, t + LengthAt(o, floating, ruled, t), ExplicitAt(o, floating, ruled, t), from, to)
             In2(t) == Overlaps(t, t + LengthAt(o, floating, true, t), ExplicitAt(o, floating, true, t), from, to)
             M1(t) == Occurrence(t, t + LengthAt(o, floating, ruled, t), None, o.master)
             M2(t) == Occurrence(t, t + LengthAt(o, floating, true, t), None, o.master)
  <2>11. /\ Occurring(o, floating, ruled, from, to) = {M1(s) : s \in {t \in (ruled \cup dates) \ out : In1(t)}}
         /\ Occurring(o, floating, true, from, to) = {M2(s) : s \in {t \in (true \cup dates) \ out : In2(t)}}
    BY DEF Occurring, dates
  <2>12. /\ \A s \in ruled \cup dates : M1(s) = M2(s) /\ (In1(s) <=> In2(s))
         /\ \A s \in true : s \notin ruled \cup dates => ~In2(s)
    BY <2>9, <2>10
  <2> HIDE DEF out, In1, In2, M1, M2
  <2>13. {t \in (ruled \cup dates) \ out : In1(t)} = {t \in (true \cup dates) \ out : In2(t)}
    BY <2>3, <2>12
  <2>14. \A s \in {t \in (ruled \cup dates) \ out : In1(t)} : M1(s) = M2(s)
    BY <2>12
  <2>15. Occurring(o, floating, ruled, from, to) = Occurring(o, floating, true, from, to)
    BY <2>11, <2>13, <2>14
  <2>16. ExpandOccurrences(o, floating, from, to) =
           OverrideOccurrences(o, floating, from, to) \cup Occurring(o, floating, Rising(o, floating, drawn), from, to)
    BY <1>2, ExpandIs DEF drawn, base
  <2>17. TrueOccurrences(o, floating, from, to) =
           OverrideOccurrences(o, floating, from, to) \cup Occurring(o, floating, true, from, to)
    BY <1>2, TrueIs DEF true, all
  <2> QED
    BY <2>2, <2>15, <2>16, <2>17
<1> QED
  BY <1>1, <1>2

\* Quotients are in the order of what is divided.
LEMMA DivMonotone ==
  ASSUME NEW p \in Nat \ {0}, NEW x \in Int, NEW y \in Int, x <= y
  PROVE  x \div p <= y \div p
<1> DEFINE a == x \div p
           b == y \div p
           r == x % p
           s == y % p
<1>1. /\ a \in Int /\ r \in Int /\ x = p * a + r /\ 0 <= r
      /\ b \in Int /\ s \in Int /\ y = p * b + s /\ s < p
  BY Divides
<1> HIDE DEF a, b, r, s
<1>2. SUFFICES ASSUME b < a
               PROVE  FALSE
  BY <1>1 DEF a, b
<1> DEFINE d == a - b - 1
<1>3. d \in Nat /\ a = b + (1 + d)
  BY <1>1, <1>2
<1> HIDE DEF d
<1>4. p * a = p * b + p * (1 + d) /\ p * (1 + d) = p * 1 + p * d /\ p * 1 = p
  BY <1>1, <1>3, Distributes
<1>5. p * d \in Nat /\ p * b \in Int
  BY <1>1, <1>3
<1> DEFINE pa == p * a
           pb == p * b
           pd == p * d
<1>6. pa = pb + p + pd /\ pa \in Int /\ pb \in Int /\ pd \in Nat /\ x = pa + r /\ y = pb + s
  BY <1>1, <1>4, <1>5
<1> HIDE DEF pa, pb, pd
<1> QED
  BY <1>1, <1>6

\* A later time range draws the rule from no earlier a start.
LEMMA BaseMonotone ==
  ASSUME NEW o, IsObject(o), NEW floating, IsZone(floating), o.master # None,
         NEW from \in -Infinity..Infinity, NEW f \in -Infinity..Infinity, from <= f
  PROVE  Base(o, floating, from) <= Base(o, floating, f)
<1> DEFINE r == o.rule
           start == o.master.start
<1>1. start \in Int /\ Infinity \in Int /\ from \in Int /\ f \in Int
  BY Master, TimeAssumption DEF Infinity
<1>2. CASE Base(o, floating, from) = start
  <2>1. Base(o, floating, f) \in Int /\ Base(o, floating, f) >= start
    BY <1>1, FromBase
  <2> HIDE DEF start
  <2> QED
    BY <1>1, <1>2, <2>1
<1>3. CASE Base(o, floating, from) # start
  <2>1. r # None /\ from # -Infinity
    BY <1>3 DEF Base
  <2>2. f # -Infinity
    BY <1>1, <2>1
  <2> DEFINE L == LengthOf(o, floating)
             i0 == ToInstant(o, floating, start)
             period == Unit[r.unit] * r.interval
             m == Margin[r.unit]
             a == SkipTo(o, floating, from) - i0 - 2 * period - m
             b == SkipTo(o, floating, f) - i0 - 2 * period - m
  <2>3. /\ Base(o, floating, from) = FastForward(o, floating, SkipTo(o, floating, from))
        /\ Base(o, floating, f) = FastForward(o, floating, SkipTo(o, floating, f))
    BY <2>1, <2>2 DEF Base
  <2>4. r.unit \in DOMAIN Margin /\ ~(r.count > 0)
    BY <1>3, <2>3 DEF FastForward
  <2>5. /\ Base(o, floating, from) = start + period * Max({a \div period, 0})
        /\ Base(o, floating, f) = start + period * Max({b \div period, 0})
    BY <2>3, <2>4 DEF FastForward
  <2>6. period \in Nat \ {0} /\ m \in Nat
    <3>1. IsRule(r)
      BY <2>1 DEF IsObject
    <3>2. Unit[r.unit] \in Nat \ {0} /\ r.interval \in Nat \ {0} /\ m \in Nat
      BY <2>4, <3>1, TimeAssumption DEF IsRule
    <3> QED
      BY <3>2
  <2>7. i0 \in Int /\ L \in Int
    BY <1>1, Instants, Master
  <2>8. SkipTo(o, floating, from) = from - L /\ SkipTo(o, floating, f) = f - L
    BY DEF SkipTo
  <2> HIDE DEF start, L, i0, period, m
  <2>9. a \in Int /\ b \in Int /\ a <= b
    BY <1>1, <2>6, <2>7, <2>8
  <2> HIDE DEF a, b
  <2> DEFINE ka == a \div period
             kb == b \div period
             na == Max({ka, 0})
             nb == Max({kb, 0})
  <2>10. ka \in Int /\ kb \in Int /\ ka <= kb
    BY <2>6, <2>9, Divides, DivMonotone
  <2> HIDE DEF ka, kb
  <2>11. na = IF ka < 0 THEN 0 ELSE ka
    <3>1. ka \in Int /\ 0 \in Int
      BY <2>10
    <3>2. Max({ka, 0}) = IF ka < 0 THEN 0 ELSE ka
      BY <3>1, Greater
    <3> QED
      BY <3>2
  <2>12. nb = IF kb < 0 THEN 0 ELSE kb
    <3>1. kb \in Int /\ 0 \in Int
      BY <2>10
    <3>2. Max({kb, 0}) = IF kb < 0 THEN 0 ELSE kb
      BY <3>1, Greater
    <3> QED
      BY <3>2
  <2>13. na \in Nat /\ nb \in Nat /\ na <= nb
    BY <2>10, <2>11, <2>12
  <2> HIDE DEF na, nb
  <2>14. period * na <= period * nb
    <3> DEFINE d == nb - na
    <3>1. d \in Nat /\ nb = na + d
      BY <2>13
    <3> HIDE DEF d
    <3>2. period * nb = period * na + period * d
      BY <2>6, <2>13, <3>1, Distributes
    <3>3. period * d \in Nat /\ period * na \in Nat
      BY <2>6, <2>13, <3>1
    <3> QED
      BY <3>2, <3>3
  <2>15. period * na \in Nat /\ period * nb \in Nat
    BY <2>6, <2>13
  <2>16. /\ Base(o, floating, from) = start + period * na
         /\ Base(o, floating, f) = start + period * nb
    BY <2>5 DEF na, nb, ka, kb
  <2> QED
    BY <1>1, <2>14, <2>15, <2>16
<1> QED
  BY <1>2, <1>3

\* The instances that are not before to, and how many are drawn until then.
LateStarts(o, floating, base, to) ==
  LET ruled == Rising(o, floating, RuleInstances(o, floating, base))
  IN {s \in (ruled \cup InstantsOf(o, floating, DOMAIN o.rdates)) \ Excluded(o, floating) : s >= to}

\* Wall times of the rule that are not before stop.
Beyond(o, floating, base, stop) ==
  {w \in RuleInstances(o, floating, base) : ToInstant(o, floating, w) >= stop}

\* Examined in these terms.
LEMMA ExaminedIs ==
  ASSUME NEW o, NEW floating, NEW base, NEW to, o.rule # None
  PROVE  LET drawn == RuleInstances(o, floating, base)
             late == LateStarts(o, floating, base, to)
             stop == Min(late)
             beyond == Beyond(o, floating, base, stop)
             next == Min(beyond)
             ahead == IF ToInstant(o, floating, next) = stop THEN 1 ELSE 0
         IN Examined(o, floating, base, to) =
              IF late # {} /\ beyond # {}
              THEN Min({Cardinality(drawn), Cardinality({w \in drawn : w <= next}) + ahead})
              ELSE IF late = {} /\ Endless(o.rule) THEN Infinity
              ELSE Cardinality(drawn)
<1> DEFINE late == {i.start : i \in {j \in RecurrenceSet(o, floating, base) : j.start >= to}}
           ruled == Rising(o, floating, RuleInstances(o, floating, base))
           S == (ruled \cup InstantsOf(o, floating, DOMAIN o.rdates)) \ Excluded(o, floating)
           At1(s) == InstanceAt(o, floating, ruled, s)
<1>1. late = LateStarts(o, floating, base, to)
  <2>1. RecurrenceSet(o, floating, base) = {At1(s) : s \in S}
    BY RecurrenceSetIs
  <2>2. \A s : At1(s).start = s
    BY DEF InstanceAt
  <2>3. LateStarts(o, floating, base, to) = {s \in S : s >= to}
    BY DEF LateStarts
  <2> HIDE DEF At1, S
  <2> QED
    BY <2>1, <2>2, <2>3
<1> HIDE DEF late
<1> QED
  BY <1>1 DEF Examined, CountUpTo, Beyond, late

\* Min of two numbers.
LEMMA Lesser ==
  ASSUME NEW a \in Int, NEW b \in Int
  PROVE  Min({a, b}) = IF a < b THEN a ELSE b
<1>1. \E x \in {a, b} : \A y \in {a, b} : x <= y
  <2>1. a <= b \/ b <= a
    OBVIOUS
  <2> QED
    BY <2>1
<1>2. Min({a, b}) \in {a, b} /\ \A y \in {a, b} : Min({a, b}) <= y
  BY <1>1 DEF Min
<1> QED
  BY <1>2

\* Finitely many wall times are finitely many instants.
LEMMA InstantsFinite ==
  ASSUME NEW o, IsObject(o), NEW floating, IsZone(floating), NEW S \in SUBSET Int, IsFiniteSet(S)
  PROVE  InstantsOf(o, floating, S) \subseteq Int /\ IsFiniteSet(InstantsOf(o, floating, S))
<1> DEFINE f == [w \in S |-> ToInstant(o, floating, w)]
<1>1. InstantsOf(o, floating, S) = {f[w] : w \in S}
  BY DEF InstantsOf
<1>2. \A w \in S : f[w] \in Int
  BY Instants
<1> HIDE DEF f
<1>3. IsFiniteSet({f[w] : w \in S})
  BY FiniteImage
<1> QED
  BY <1>1, <1>2, <1>3

\* No fewer instances are drawn for a range than for one within it.
LEMMA LongerRange ==
  ASSUME NEW o, IsObject(o), NEW floating, IsZone(floating), o.master # None, o.rule # None,
         LengthOf(o, floating) >= 0,
         NEW from \in -Infinity..Infinity, NEW f \in -Infinity..Infinity, NEW t \in Int, NEW to \in Int,
         from <= f, f < t, t <= to,
         Examined(o, floating, Base(o, floating, f), t) > MaxInstances
  PROVE  Examined(o, floating, Base(o, floating, from), to) > MaxInstances
<1> DEFINE b == Base(o, floating, from)
           b1 == Base(o, floating, f)
           R == Recurring(o, floating)
           D == RuleInstances(o, floating, b)
           D1 == RuleInstances(o, floating, b1)
           late == LateStarts(o, floating, b, to)
           late1 == LateStarts(o, floating, b1, t)
           stop == Min(late)
           stop1 == Min(late1)
           beyond == Beyond(o, floating, b, stop)
           beyond1 == Beyond(o, floating, b1, stop1)
           next == Min(beyond)
           next1 == Min(beyond1)
           inst(w) == ToInstant(o, floating, w)
           dates == InstantsOf(o, floating, DOMAIN o.rdates)
           out == Excluded(o, floating)
           E == Examined(o, floating, b, to)
           E1 == Examined(o, floating, b1, t)
           UpTo == {w \in D : w <= next}
           UpTo1 == {w \in D1 : w <= next1}
           a == IF inst(next) = stop THEN 1 ELSE 0
           a1 == IF inst(next1) = stop1 THEN 1 ELSE 0
<1>1. from \in Int /\ f \in Int /\ Infinity \in Int
  BY TimeAssumption DEF Infinity
<1>2. /\ R \subseteq Int /\ IsFiniteSet(R)
      /\ \A w \in R : w >= o.master.start
  BY RecurringFinite, Master DEF Recurring
<1>3. b \in Int /\ D = {w \in R : w >= b}
  BY <1>1, FromBase
<1>4. /\ b1 \in Int /\ D1 = {w \in R : w >= b1}
      /\ \A w \in o.master.start..(b1 - 1) : inst(w) + LengthOf(o, floating) < f
  BY <1>1, FromBase
<1>5. b <= b1
  BY <1>1, BaseMonotone
<1>6. /\ D1 \subseteq D /\ D \subseteq Int /\ IsFiniteSet(D) /\ IsFiniteSet(D1)
      /\ Cardinality(D) \in Nat /\ Cardinality(D1) \in Nat /\ Cardinality(D1) <= Cardinality(D)
  <2>1. D1 \subseteq D /\ D \subseteq R
    <3> HIDE DEF D, D1, b, b1
    <3> QED
      BY <1>2, <1>3, <1>4, <1>5
  <2> HIDE DEF D, D1, R
  <2>2. IsFiniteSet(D)
    BY <1>2, <2>1, FS_Subset
  <2>3. IsFiniteSet(D1) /\ Cardinality(D1) <= Cardinality(D)
    BY <2>1, <2>2, FS_Subset
  <2> QED
    BY <1>2, <2>1, <2>2, <2>3, FS_CardinalityType
<1>7. \A w \in D : inst(w) \in Int
  BY <1>6, Instants
<1>8. ASSUME NEW w \in D, inst(w) >= t
      PROVE  w \in D1
  <2>1. w \in R /\ w \in Int /\ w >= o.master.start /\ inst(w) \in Int /\ o.master.start \in Int /\ LengthOf(o, floating) \in Int
    BY <1>2, <1>3, <1>7, Master
  <2>2. ~(w < b1)
    <3>1. SUFFICES ASSUME w < b1
                   PROVE  FALSE
      OBVIOUS
    <3>2. w \in o.master.start..(b1 - 1)
      <4> HIDE DEF b1
      <4> QED
        BY <1>4, <2>1, <3>1
    <3>3. inst(w) + LengthOf(o, floating) < f
      BY <1>4, <3>2
    <3> HIDE DEF inst
    <3> QED
      BY <1>1, <1>8, <2>1, <3>3
  <2> HIDE DEF D, D1, b1, R
  <2> QED
    BY <1>4, <2>1, <2>2
<1>9. late = {s \in (Rising(o, floating, D) \cup dates) \ out : s >= to}
  BY DEF LateStarts
<1>10. late1 = {s \in (Rising(o, floating, D1) \cup dates) \ out : s >= t}
  BY DEF LateStarts
<1>11. /\ \A s : s \in Rising(o, floating, D) <=> \E w \in D : s = inst(w) /\ \A u \in D : u < w => inst(u) < inst(w)
       /\ \A s : s \in Rising(o, floating, D1) <=> \E w \in D1 : s = inst(w) /\ \A u \in D1 : u < w => inst(u) < inst(w)
  BY DEF Rising
<1>12. dates \subseteq Int
  BY InstantsFinite DEF IsObject
<1> HIDE DEF b, b1, R, D, D1, dates, out, inst
<1>13. late \subseteq Int /\ late1 \subseteq Int
  <2>1. Rising(o, floating, D) \subseteq Int /\ Rising(o, floating, D1) \subseteq Int
    BY <1>6, <1>7, <1>11
  <2> QED
    BY <1>9, <1>10, <1>12, <2>1
<1>14. late \subseteq late1
  <2>1. SUFFICES ASSUME NEW s \in late
                 PROVE  s \in late1
    OBVIOUS
  <2>2. s \in Int /\ s >= to /\ s \notin out /\ s \in Rising(o, floating, D) \cup dates
    BY <1>9, <1>13
  <2>3. s >= t
    BY <2>2
  <2>4. s \in Rising(o, floating, D) => s \in Rising(o, floating, D1)
    BY <1>6, <1>8, <1>11, <2>3
  <2> QED
    BY <1>10, <2>2, <2>3, <2>4
<1>15. IsFiniteSet(late) /\ IsFiniteSet(late1)
  <2>1. IsFiniteSet(InstantsOf(o, floating, D)) /\ IsFiniteSet(dates)
    BY <1>6, InstantsFinite DEF IsObject, dates
  <2>2. IsFiniteSet(InstantsOf(o, floating, D) \cup dates)
    BY <2>1, FS_Union
  <2>3. Rising(o, floating, D) \subseteq InstantsOf(o, floating, D) /\ Rising(o, floating, D1) \subseteq InstantsOf(o, floating, D)
    BY <1>6, <1>11 DEF InstantsOf, inst
  <2>4. late \in SUBSET (InstantsOf(o, floating, D) \cup dates) /\ late1 \in SUBSET (InstantsOf(o, floating, D) \cup dates)
    BY <1>9, <1>10, <2>3
  <2> QED
    BY <2>2, <2>4, FS_Subset
<1> HIDE DEF late, late1
<1>16. E = IF late # {} /\ beyond # {} THEN Min({Cardinality(D), Cardinality(UpTo) + a})
           ELSE IF late = {} /\ Endless(o.rule) THEN Infinity ELSE Cardinality(D)
  BY ExaminedIs DEF b, D, late, inst
<1>17. E1 = IF late1 # {} /\ beyond1 # {} THEN Min({Cardinality(D1), Cardinality(UpTo1) + a1})
            ELSE IF late1 = {} /\ Endless(o.rule) THEN Infinity ELSE Cardinality(D1)
  BY ExaminedIs DEF b1, D1, late1, inst
<1>18. E1 > MaxInstances
  BY DEF b1
<1>19. /\ beyond = {w \in D : inst(w) >= stop}
       /\ beyond1 = {w \in D1 : inst(w) >= stop1}
  BY DEF Beyond, D, D1, b, b1, inst
<1>20. /\ IsFiniteSet(UpTo) /\ IsFiniteSet(UpTo1) /\ Cardinality(UpTo) \in Nat /\ Cardinality(UpTo1) \in Nat
       /\ IsFiniteSet(beyond) /\ IsFiniteSet(beyond1)
  <2>1. UpTo \in SUBSET D /\ UpTo1 \in SUBSET D1 /\ beyond \in SUBSET D /\ beyond1 \in SUBSET D1
    BY <1>19
  <2> HIDE DEF UpTo, UpTo1, beyond, beyond1
  <2> QED
    BY <1>6, <2>1, FS_Subset, FS_CardinalityType
<1> HIDE DEF E, E1, UpTo, UpTo1, beyond, beyond1, stop, stop1, next, next1
<1>21. a \in {0, 1} /\ a1 \in {0, 1}
  OBVIOUS
<1> HIDE DEF a, a1
<1>22. late1 # {} => E1 <= Cardinality(D1)
  <2>1. Cardinality(D1) \in Int /\ Cardinality(UpTo1) + a1 \in Int
    BY <1>6, <1>20, <1>21
  <2>2. Min({Cardinality(D1), Cardinality(UpTo1) + a1}) <= Cardinality(D1)
    BY <2>1, Lesser
  <2> QED
    BY <1>6, <1>17, <2>2
<1>23. CASE late = {}
  <2>1. CASE Endless(o.rule)
    <3>1. E = Infinity
      BY <1>16, <1>23, <2>1
    <3> QED
      BY <3>1, TimeAssumption DEF E, b, Infinity
  <2>2. CASE ~Endless(o.rule)
    <3>1. E = Cardinality(D)
      BY <1>16, <1>23, <2>2
    <3>2. E1 <= Cardinality(D1)
      BY <1>6, <1>17, <1>22, <2>2
    <3>3. E1 \in Int
      <4>1. Cardinality(UpTo1) + a1 \in Int /\ Cardinality(D1) \in Int
        BY <1>6, <1>20, <1>21
      <4>2. Min({Cardinality(D1), Cardinality(UpTo1) + a1}) \in Int
        BY <4>1, Lesser
      <4> QED
        BY <1>6, <1>17, <2>2, <4>2
    <3> QED
      BY <1>6, <1>18, <3>1, <3>2, <3>3, TimeAssumption DEF E, b
  <2> QED
    BY <2>1, <2>2
<1>24. CASE late # {}
  <2>1. late1 # {}
    BY <1>14, <1>24
  <2>2. stop \in late /\ stop \in Int /\ stop >= to
    BY <1>9, <1>13, <1>15, <1>24, Extremes DEF stop
  <2>3. stop1 \in late1 /\ stop1 \in Int /\ stop1 <= stop
    <3>1. stop1 \in late1 /\ \A s \in late1 : stop1 <= s
      BY <1>13, <1>15, <2>1, Extremes DEF stop1
    <3> QED
      BY <1>13, <1>14, <2>2, <3>1
  <2>4. E1 <= Cardinality(D1) /\ E1 \in Int
    <3>1. Cardinality(UpTo1) + a1 \in Int /\ Cardinality(D1) \in Int
      BY <1>6, <1>20, <1>21
    <3>2. Min({Cardinality(D1), Cardinality(UpTo1) + a1}) \in Int
      BY <3>1, Lesser
    <3> QED
      BY <1>6, <1>17, <1>22, <2>1, <3>2
  <2>5. CASE beyond = {}
    <3>1. E = Cardinality(D)
      BY <1>16, <1>24, <2>5
    <3> QED
      BY <1>6, <1>18, <2>4, <3>1, TimeAssumption DEF E, b
  <2>6. CASE beyond # {}
    <3>1. next \in beyond
      <4>1. beyond \in SUBSET Int
        BY <1>6, <1>19
      <4> QED
        BY <1>20, <2>6, <4>1, Extremes DEF next
    <3>2. next \in D /\ next \in Int /\ inst(next) \in Int /\ inst(next) >= stop
      BY <1>6, <1>7, <1>19, <3>1
    <3>3. next \in D1
      <4>1. inst(next) >= t
        BY <2>2, <3>2
      <4> QED
        BY <1>8, <3>2, <4>1
    <3>4. next \in beyond1
      BY <1>19, <2>2, <2>3, <3>2, <3>3
    <3>5. next1 \in beyond1 /\ next1 <= next
      <4>1. beyond1 \in SUBSET Int /\ beyond1 # {}
        BY <1>6, <1>19, <3>4
      <4> QED
        BY <1>20, <3>4, <4>1, Extremes DEF next1
    <3>6. next1 \in D1 /\ next1 \in Int /\ inst(next1) \in Int /\ inst(next1) >= stop1
      BY <1>6, <1>7, <1>19, <3>5
    <3>7. E = Min({Cardinality(D), Cardinality(UpTo) + a}) /\ E1 = Min({Cardinality(D1), Cardinality(UpTo1) + a1})
      BY <1>16, <1>17, <1>24, <2>1, <2>6, <3>4
    <3>8. Cardinality(UpTo1) + a1 <= Cardinality(UpTo) + a
      <4>1. CASE next1 = next
        <5>1. UpTo1 \subseteq UpTo
          BY <1>6, <4>1 DEF UpTo, UpTo1
        <5>2. Cardinality(UpTo1) <= Cardinality(UpTo)
          BY <1>20, <5>1, FS_Subset
        <5>3. a1 = 1 => a = 1
          <6>1. a1 = 1 => inst(next) = stop1
            BY <4>1 DEF a1
          <6>2. inst(next) = stop1 => inst(next) = stop
            BY <2>2, <2>3, <3>2
          <6> QED
            BY <6>1, <6>2 DEF a
        <5> QED
          BY <1>20, <1>21, <5>2, <5>3
      <4>2. CASE next1 # next
        <5>1. next1 < next
          BY <3>2, <3>5, <3>6, <4>2
        <5>2. next \notin UpTo1
          BY <3>2, <3>6, <5>1 DEF UpTo1
        <5>3. UpTo1 \cup {next} \subseteq UpTo
          <6>1. \A w \in UpTo1 : w \in D /\ w \in Int /\ w <= next1
            BY <1>6 DEF UpTo1
          <6>2. \A w \in UpTo1 : w \in UpTo
            BY <3>2, <3>6, <5>1, <6>1 DEF UpTo
          <6>3. next \in UpTo
            BY <3>2 DEF UpTo
          <6> QED
            BY <6>2, <6>3
        <5>4. Cardinality(UpTo1 \cup {next}) = Cardinality(UpTo1) + 1
          BY <1>20, <5>2, FS_AddElement
        <5>5. Cardinality(UpTo1 \cup {next}) <= Cardinality(UpTo)
          BY <1>20, <5>3, FS_Subset
        <5> QED
          BY <1>20, <1>21, <5>4, <5>5
      <4> QED
        BY <4>1, <4>2
    <3> DEFINE x == Cardinality(D)
               y == Cardinality(UpTo) + a
               x1 == Cardinality(D1)
               y1 == Cardinality(UpTo1) + a1
    <3>9. x \in Int /\ y \in Int /\ x1 \in Int /\ y1 \in Int /\ x1 <= x /\ y1 <= y
      BY <1>6, <1>20, <1>21, <3>8
    <3> HIDE DEF x, y, x1, y1
    <3>10. Min({x, y}) = (IF x < y THEN x ELSE y) /\ Min({x1, y1}) = (IF x1 < y1 THEN x1 ELSE y1)
      BY <3>9, Lesser
    <3>11. E = Min({x, y}) /\ E1 = Min({x1, y1})
      BY <3>7 DEF x, y, x1, y1
    <3> QED
      BY <1>18, <3>9, <3>10, <3>11, TimeAssumption DEF E, b
  <2> QED
    BY <2>5, <2>6
<1> QED
  BY <1>23, <1>24

\* Who examines too much for a time range does so for one around it.
LEMMA TooLargeWithin ==
  ASSUME NEW o, IsObject(o), NEW floating, IsZone(floating), Steady(o, floating),
         NEW from \in -Infinity..Infinity, NEW f \in -Infinity..Infinity, NEW t \in Int, NEW to \in Int,
         from <= f, f < t, t <= to, TooLarge(o, floating, f, t)
  PROVE  TooLarge(o, floating, from, to)
<1>1. o.master # None /\ Examined(o, floating, Base(o, floating, f), t) > MaxInstances
  BY DEF TooLarge
<1>2. o.rule # None
  <2>1. o.rule = None => Examined(o, floating, Base(o, floating, f), t) = 0
    BY DEF Examined
  <2> QED
    BY <1>1, <2>1, TimeAssumption
<1>3. LengthOf(o, floating) >= 0
  BY <1>1 DEF Steady
<1> QED
  BY <1>1, <1>2, <1>3, LongerRange DEF TooLarge

-----------------------------------------------------------------------------
(* The index: an object's times as read in UTC and in another zone. *)

\* An object reads its times in UTC as elsewhere, or its wall times are the
\* instants there.
LEMMA InUtc ==
  ASSUME NEW o, IsObject(o), NEW floating, IsZone(floating)
  PROVE  \/ \A w \in Int : ToInstant(o, floating, w) = ToInstant(o, Utc, w)
         \/ /\ Read(o, floating) = floating
            /\ \A w \in Int : ToInstant(o, Utc, w) = w
<1>1. CASE o.kind = "utc" \/ o.kind = "zoned"
  <2>1. \A w : ToInstant(o, floating, w) = ToInstant(o, Utc, w)
    BY <1>1 DEF ToInstant
  <2> QED
    BY <2>1
<1>2. CASE o.kind \in {"floating", "date"}
  <2>1. Read(o, floating) = floating /\ Read(o, Utc) = Utc
    BY <1>2 DEF Read
  <2>2. ASSUME NEW w \in Int
        PROVE  ToInstant(o, Utc, w) = w
    <3>1. ToInstant(o, Utc, w) = w - OffsetFor(Utc, w)
      BY <2>1, UtcZone, Instants
    <3>2. OffsetFor(Utc, w) = IF w < Turn(Utc) THEN Utc.before ELSE Utc.after
      BY UtcZone, Offset
    <3>3. OffsetFor(Utc, w) = 0
      BY <3>2 DEF Utc
    <3> QED
      BY <3>1, <3>3
  <2> QED
    BY <2>1, <2>2
<1> QED
  BY <1>1, <1>2 DEF IsObject

\* Wall times that are one instant in UTC are one elsewhere.
LEMMA SameWall ==
  ASSUME NEW o, IsObject(o), NEW floating, IsZone(floating), NEW v \in Int, NEW w \in Int,
         ToInstant(o, Utc, v) = ToInstant(o, Utc, w)
  PROVE  ToInstant(o, floating, v) = ToInstant(o, floating, w)
BY InUtc

\* How far an instant lies from where the index takes it to be.
LEMMA Widening ==
  ASSUME NEW o, IsObject(o), NEW floating, IsZone(floating), NEW v \in Int, NEW w \in Int, v <= w
  PROVE  /\ ToInstant(o, Utc, v) <= ToInstant(o, floating, w) + Latest
         /\ ToInstant(o, floating, w) <= ToInstant(o, Utc, w) - Earliest
<1> DEFINE z == Read(o, floating)
           iu(x) == ToInstant(o, Utc, x)
           iz(x) == ToInstant(o, floating, x)
<1>1. /\ IsZone(z) /\ \A x \in Int : iz(x) = x - OffsetFor(z, x) /\ iz(x) \in Int
  BY Instants
<1>2. \A x \in Int : OffsetFor(z, x) \in {z.before, z.after}
  BY <1>1, Offset
<1>3. z.before \in Earliest..Latest /\ z.after \in Earliest..Latest /\ z.after - z.before <= Latest
  BY <1>1 DEF IsZone
<1>4. \A x \in Int : iu(x) \in Int
  BY UtcZone, Instants
<1>5. iz(w) - iz(v) = w - v \/ iz(w) - iz(v) = w - v - (z.after - z.before)
  BY Apart
<1>6. \/ \A x \in Int : iz(x) = iu(x)
      \/ \A x \in Int : iu(x) = x
  BY InUtc
<1> HIDE DEF z, iu, iz
<1>7. Earliest \in Int /\ Latest \in Int /\ Earliest <= 0 /\ Latest >= 0
  BY TimeAssumption
<1>8. z.before \in Int /\ z.after \in Int /\ OffsetFor(z, w) \in Int /\ Earliest <= OffsetFor(z, w) /\ OffsetFor(z, w) <= Latest
  BY <1>2, <1>3, <1>7
<1>9. CASE \A x \in Int : iz(x) = iu(x)
  <2>1. iz(v) = iu(v) /\ iz(w) = iu(w) /\ iz(v) \in Int /\ iz(w) \in Int
    BY <1>1, <1>9
  <2>2. iz(v) <= iz(w) + Latest
    BY <1>3, <1>5, <1>7, <1>8, <2>1
  <2>3. iz(w) <= iz(w) - Earliest
    BY <1>7, <2>1
  <2> QED
    BY <2>1, <2>2, <2>3 DEF iu, iz
<1>10. CASE \A x \in Int : iu(x) = x
  <2>1. iu(v) = v /\ iu(w) = w /\ iz(w) = w - OffsetFor(z, w)
    BY <1>1, <1>10
  <2>2. v <= (w - OffsetFor(z, w)) + Latest
    BY <1>7, <1>8
  <2>3. w - OffsetFor(z, w) <= w - Earliest
    BY <1>7, <1>8
  <2> QED
    BY <2>1, <2>2, <2>3 DEF iu, iz
<1> QED
  BY <1>6, <1>9, <1>10

\* ... and the end of an instance or an override.
LEMMA WideningEnd ==
  ASSUME NEW o, IsObject(o), NEW floating, IsZone(floating), NEW c, IsComponent(c)
  PROVE  /\ EndOf(o, floating, c) <= EndOf(o, Utc, c) - Earliest
         /\ \A w \in Int :
              ToInstant(o, floating, w) + (EndOf(o, floating, c) - StartOf(o, floating, c))
              <= ToInstant(o, Utc, w) + (EndOf(o, Utc, c) - StartOf(o, Utc, c)) - Earliest
<1> DEFINE z == Read(o, floating)
           iu(x) == ToInstant(o, Utc, x)
           iz(x) == ToInstant(o, floating, x)
           s == c.start
<1>1. PICK n \in Nat :
        \/ \A y : IsZone(y) => EndOf(o, y, c) = StartOf(o, y, c) + n
        \/ \A y : IsZone(y) => EndOf(o, y, c) = ToInstant(o, y, c.start + n)
  BY Ends
<1>2. s \in Int /\ StartOf(o, floating, c) = iz(s) /\ StartOf(o, Utc, c) = iu(s)
  BY DEF IsComponent, StartOf
<1>3. /\ IsZone(z) /\ \A x \in Int : iz(x) = x - OffsetFor(z, x) /\ iz(x) \in Int
  BY Instants
<1>4. \A x \in Int : iu(x) \in Int
  BY UtcZone, Instants
<1>5. \A x \in Int : iz(x) <= iu(x) - Earliest
  BY Widening
<1>6. \/ \A x \in Int : iz(x) = iu(x)
      \/ \A x \in Int : iu(x) = x
  BY InUtc
<1>7. \A x \in Int : OffsetFor(z, x) = IF x < Turn(z) THEN z.before ELSE z.after
  BY <1>3, Offset
<1>8. /\ z.before \in Earliest..Latest /\ z.after \in Earliest..Latest
      /\ Earliest <= 2 * z.after - z.before /\ Turn(z) \in Int
      /\ Earliest \in Int /\ Latest \in Int
  BY <1>3, TimeAssumption DEF IsZone, Turn
<1> HIDE DEF s, z, iu, iz
<1>9. CASE \A y : IsZone(y) => EndOf(o, y, c) = StartOf(o, y, c) + n
  <2>1. EndOf(o, floating, c) = iz(s) + n /\ EndOf(o, Utc, c) = iu(s) + n
    BY <1>2, <1>9, UtcZone
  <2>2. iz(s) \in Int /\ iu(s) \in Int /\ iz(s) <= iu(s) - Earliest
    BY <1>2, <1>3, <1>4, <1>5
  <2>3. iz(s) + n <= (iu(s) + n) - Earliest
    BY <1>8, <2>2
  <2>4. ASSUME NEW w \in Int
        PROVE  iz(w) + ((iz(s) + n) - iz(s)) <= iu(w) + ((iu(s) + n) - iu(s)) - Earliest
    <3>1. iz(w) \in Int /\ iu(w) \in Int /\ iz(w) <= iu(w) - Earliest
      BY <1>3, <1>4, <1>5
    <3> QED
      BY <1>8, <2>2, <3>1
  <2> QED
    BY <1>2, <2>1, <2>3, <2>4 DEF iz, iu
<1>10. CASE \A y : IsZone(y) => EndOf(o, y, c) = ToInstant(o, y, c.start + n)
  <2> DEFINE e == s + n
  <2>1. EndOf(o, floating, c) = iz(e) /\ EndOf(o, Utc, c) = iu(e)
    BY <1>10, UtcZone DEF s, iz, iu
  <2>2. e \in Int /\ s <= e
    BY <1>2
  <2> HIDE DEF e
  <2>3. iz(e) <= iu(e) - Earliest
    BY <1>5, <2>2
  <2>4. ASSUME NEW w \in Int
        PROVE  iz(w) + (iz(e) - iz(s)) <= iu(w) + (iu(e) - iu(s)) - Earliest
    <3>1. /\ iz(w) \in Int /\ iu(w) \in Int /\ iz(w) <= iu(w) - Earliest
          /\ iz(e) \in Int /\ iu(e) \in Int /\ iz(s) \in Int /\ iu(s) \in Int
      BY <1>2, <1>3, <1>4, <1>5, <2>2
    <3>2. CASE \A x \in Int : iz(x) = iu(x)
      <4>1. iz(e) = iu(e) /\ iz(s) = iu(s)
        BY <1>2, <2>2, <3>2
      <4> QED
        BY <1>8, <3>1, <4>1
    <3>3. CASE \A x \in Int : iu(x) = x
      <4>1. iu(w) = w /\ iu(e) = e /\ iu(s) = s
        BY <1>2, <2>2, <3>3
      <4>2. /\ iz(w) = w - (IF w < Turn(z) THEN z.before ELSE z.after)
            /\ iz(e) = e - (IF e < Turn(z) THEN z.before ELSE z.after)
            /\ iz(s) = s - (IF s < Turn(z) THEN z.before ELSE z.after)
        BY <1>2, <1>3, <1>7, <2>2
      <4> DEFINE b == z.before
                 a == z.after
                 t == Turn(z)
      <4>3. b \in Int /\ a \in Int /\ t \in Int /\ Earliest <= b /\ Earliest <= a /\ Earliest <= 2 * a - b
        BY <1>8
      <4>4. /\ iz(w) = w - (IF w < t THEN b ELSE a)
            /\ iz(e) = e - (IF e < t THEN b ELSE a)
            /\ iz(s) = s - (IF s < t THEN b ELSE a)
        BY <4>2
      <4> HIDE DEF b, a, t
      <4>5. CASE e < t
        <5>1. iz(e) - iz(s) = e - s
          BY <1>2, <2>2, <4>3, <4>4, <4>5
        <5> QED
          BY <1>8, <3>1, <4>1, <5>1
      <4>6. CASE ~(s < t)
        <5>1. iz(e) - iz(s) = e - s
          BY <1>2, <2>2, <4>3, <4>4, <4>6
        <5> QED
          BY <1>8, <3>1, <4>1, <5>1
      <4>7. CASE s < t /\ ~(e < t)
        <5>1. iz(e) - iz(s) = e - s - a + b
          BY <1>2, <2>2, <4>3, <4>4, <4>7
        <5>2. iz(w) <= w - a + (a - b) \/ iz(w) = w - a
          BY <4>3, <4>4
        <5>3. CASE w < t
          <6>1. iz(w) = w - b
            BY <4>4, <5>3
          <6> QED
            BY <1>2, <1>8, <2>2, <4>1, <4>3, <5>1, <6>1
        <5>4. CASE ~(w < t)
          <6>1. iz(w) = w - a
            BY <4>4, <5>4
          <6> QED
            BY <1>2, <1>8, <2>2, <4>1, <4>3, <5>1, <6>1
        <5> QED
          BY <5>3, <5>4
      <4> QED
        BY <4>5, <4>6, <4>7
    <3> QED
      BY <1>6, <3>2, <3>3
  <2> QED
    BY <1>2, <2>1, <2>3, <2>4 DEF iz, iu
<1> QED
  BY <1>1, <1>9, <1>10

\* Both readings find the same wall times.
LEMMA SameRule ==
  ASSUME NEW o, IsObject(o), NEW floating, IsZone(floating), o.master # None, UntilHolds(o, floating)
  PROVE  Recurring(o, floating) = Recurring(o, Utc)
<1> DEFINE r == o.rule
           start == o.master.start
           Fits(y, w) == /\ Allows(r, start, w)
                         /\ r.until # None =>
                              ToInstant(o, y, w) <= ToInstant(o, y, r.until)
<1>1. start \in Int /\ Horizon \in Int
  BY Master, TimeAssumption
<1>2. \A y : Recurring(o, y) =
         {w \in start..Horizon :
            /\ IF r = None THEN w = start ELSE Fits(y, w)
            /\ r # None /\ r.count > 0 => Cardinality({v \in start..w : Fits(y, v)}) <= r.count}
  BY DEF Recurring, Recurs
<1>3. r # None => \A w \in start..Horizon : Fits(floating, w) <=> Fits(Utc, w)
  BY DEF UntilHolds
<1> HIDE DEF Fits, r, start
<1>4. ASSUME r # None, NEW w \in start..Horizon
      PROVE  {v \in start..w : Fits(floating, v)} = {v \in start..w : Fits(Utc, v)}
  <2>1. \A v \in start..w : v \in start..Horizon
    BY <1>1
  <2> QED
    BY <1>3, <1>4, <2>1
<1>5. CASE r = None
  BY <1>2, <1>5
<1>6. CASE r # None
  <2>1. \A w \in start..Horizon : /\ Fits(floating, w) <=> Fits(Utc, w)
                                  /\ Cardinality({v \in start..w : Fits(floating, v)}) = Cardinality({v \in start..w : Fits(Utc, v)})
    BY <1>3, <1>4, <1>6
  <2>2. \A y : Recurring(o, y) =
           {w \in start..Horizon :
              /\ Fits(y, w)
              /\ r.count > 0 => Cardinality({v \in start..w : Fits(y, v)}) <= r.count}
    BY <1>2, <1>6
  <2> QED
    BY <2>1, <2>2
<1> QED
  BY <1>5, <1>6

\* Wall times that keep their order elsewhere keep it in UTC.
LEMMA SteadyInUtc ==
  ASSUME NEW o, IsObject(o), NEW floating, IsZone(floating), o.master # None,
         Steady(o, floating), UntilHolds(o, floating)
  PROVE  Steady(o, Utc)
<1>1. Recurring(o, floating) = Recurring(o, Utc) /\ Recurring(o, Utc) \subseteq Int
  BY SameRule, RecurringFinite, UtcZone
<1>2. LengthOf(o, Utc) >= 0
  <2>1. PICK n \in Nat :
          \/ \A y : IsZone(y) => EndOf(o, y, o.master) = StartOf(o, y, o.master) + n
          \/ \A y : IsZone(y) => EndOf(o, y, o.master) = ToInstant(o, y, o.master.start + n)
    BY Master, Ends
  <2> DEFINE s == o.master.start
             e == s + n
  <2>2. s \in Int /\ e \in Int /\ s <= e
    BY Master
  <2>3. StartOf(o, Utc, o.master) = ToInstant(o, Utc, s) /\ StartOf(o, floating, o.master) = ToInstant(o, floating, s)
    BY DEF StartOf
  <2>4. ToInstant(o, Utc, s) \in Int /\ ToInstant(o, Utc, e) \in Int
    BY <2>2, UtcZone, Instants
  <2>5. LengthOf(o, Utc) = EndOf(o, Utc, o.master) - ToInstant(o, Utc, s) /\ LengthOf(o, floating) = EndOf(o, floating, o.master) - ToInstant(o, floating, s)
    BY <2>3 DEF LengthOf
  <2>6. LengthOf(o, floating) >= 0
    BY DEF Steady
  <2> HIDE DEF s
  <2>7. CASE EndOf(o, Utc, o.master) = ToInstant(o, Utc, s) + n
    BY <2>4, <2>5, <2>7
  <2>8. CASE \A y : IsZone(y) => EndOf(o, y, o.master) = ToInstant(o, y, e)
    <3>1. EndOf(o, Utc, o.master) = ToInstant(o, Utc, e) /\ EndOf(o, floating, o.master) = ToInstant(o, floating, e)
      BY <2>8, UtcZone
    <3> HIDE DEF e
    <3>2. CASE \A w \in Int : ToInstant(o, floating, w) = ToInstant(o, Utc, w)
      BY <2>2, <2>5, <2>6, <3>1, <3>2
    <3>3. CASE \A w \in Int : ToInstant(o, Utc, w) = w
      <4>1. ToInstant(o, Utc, s) = s /\ ToInstant(o, Utc, e) = e
        BY <2>2, <3>3
      <4> QED
        BY <2>2, <2>5, <3>1, <4>1
    <3> QED
      BY <3>2, <3>3, InUtc
  <2> QED
    <3>1. EndOf(o, Utc, o.master) = StartOf(o, Utc, o.master) + n => EndOf(o, Utc, o.master) = ToInstant(o, Utc, s) + n
      BY <2>3
    <3> QED
      BY <2>1, <2>7, <2>8, <3>1, UtcZone DEF s, e
<1>3. ASSUME NEW v \in Recurring(o, Utc), NEW w \in Recurring(o, Utc), v < w
      PROVE  ToInstant(o, Utc, v) <= ToInstant(o, Utc, w)
  <2>1. v \in Int /\ w \in Int
    BY <1>1
  <2>2. CASE \A x \in Int : ToInstant(o, floating, x) = ToInstant(o, Utc, x)
    <3>1. ToInstant(o, floating, v) <= ToInstant(o, floating, w)
      BY <1>1, <1>3 DEF Steady, Recurring
    <3> QED
      BY <2>1, <2>2, <3>1
  <2>3. CASE \A x \in Int : ToInstant(o, Utc, x) = x
    BY <1>3, <2>1, <2>3
  <2> QED
    BY <2>2, <2>3, InUtc
<1> QED
  BY <1>2, <1>3 DEF Steady, Recurring

\* The RDATE that gives an instant its length gives it in UTC, too.
LEMMA SameRdate ==
  ASSUME NEW o, IsObject(o), NEW floating, IsZone(floating),
         NEW s \in InstantsOf(o, floating, DOMAIN o.rdates)
  PROVE  \E w \in DOMAIN o.rdates :
           /\ w \in Int /\ s = ToInstant(o, floating, w)
           /\ RdateLength(o, floating, s) = o.rdates[w]
           /\ RdateLength(o, Utc, ToInstant(o, Utc, w)) = o.rdates[w]
<1> DEFINE S == {w \in DOMAIN o.rdates : ToInstant(o, floating, w) = s}
           w == AnyOf(S)
           T == {v \in DOMAIN o.rdates : ToInstant(o, Utc, v) = ToInstant(o, Utc, w)}
<1>1. S # {}
  BY DEF InstantsOf
<1>2. w \in S
  BY <1>1 DEF AnyOf
<1>3. DOMAIN o.rdates \subseteq Int
  BY DEF IsObject
<1>4. RdateLength(o, floating, s) = o.rdates[w]
  BY DEF RdateLength
<1>5. RdateLength(o, Utc, ToInstant(o, Utc, w)) = o.rdates[AnyOf(T)]
  BY DEF RdateLength
<1> HIDE DEF w
<1>6. AnyOf(T) = w
  <2>1. CASE \A x \in Int : ToInstant(o, floating, x) = ToInstant(o, Utc, x)
    <3>1. T = S
      BY <1>2, <1>3, <2>1
    <3> HIDE DEF T, S
    <3> QED
      BY <3>1 DEF w
  <2>2. CASE \A x \in Int : ToInstant(o, Utc, x) = x
    <3>1. T = {w}
      BY <1>2, <1>3, <2>2
    <3> HIDE DEF T
    <3> QED
      BY <3>1 DEF AnyOf
  <2> QED
    BY <2>1, <2>2, InUtc
<1> QED
  BY <1>2, <1>3, <1>4, <1>5, <1>6

\* Lengths are numbers.
LEMMA LengthTyped ==
  ASSUME NEW o, IsObject(o), NEW floating, IsZone(floating), o.master # None, NEW ruled,
         NEW s \in ruled \cup InstantsOf(o, floating, DOMAIN o.rdates)
  PROVE  LengthAt(o, floating, ruled, s) \in Int
<1>1. LengthOf(o, floating) \in Int
  BY Master
<1>2. ASSUME Own(o, floating, ruled, s)
      PROVE  RdateLength(o, floating, s) \in Int
  <2>1. s \in InstantsOf(o, floating, DOMAIN o.rdates)
    BY <1>2 DEF Own
  <2>2. PICK w \in DOMAIN o.rdates : RdateLength(o, floating, s) = o.rdates[w]
    BY <2>1, SameRdate
  <2>3. o.rdates[w] \in Nat
    BY <1>2, <2>2 DEF Own, IsObject
  <2> QED
    BY <2>2, <2>3
<1> QED
  BY <1>1, <1>2 DEF LengthAt

\* What the greatest end bounds.
LEMMA LastEnd ==
  ASSUME NEW S, IsFiniteSet(S), \A i \in S : i.end \in Int
  PROVE  LET last == Max({i.end : i \in S} \cup {-Infinity})
         IN last \in Int /\ \A i \in S : i.end <= last
<1> DEFINE f == [i \in S |-> i.end]
           T == {i.end : i \in S} \cup {-Infinity}
<1>1. {i.end : i \in S} = {f[i] : i \in S}
  OBVIOUS
<1> HIDE DEF f
<1>2. IsFiniteSet({f[i] : i \in S})
  BY FiniteImage
<1>3. IsFiniteSet({-Infinity})
  BY FS_Singleton
<1>4. IsFiniteSet({f[i] : i \in S} \cup {-Infinity})
  BY <1>2, <1>3, FS_Union
<1>5. -Infinity \in Int
  BY TimeAssumption DEF Infinity
<1>6. T \in SUBSET Int /\ IsFiniteSet(T) /\ T # {}
  BY <1>1, <1>4, <1>5
<1>7. \A i \in S : i.end \in T
  OBVIOUS
<1> HIDE DEF T
<1>8. Max(T) \in T /\ \A x \in T : x <= Max(T)
  BY <1>6, Extremes
<1> QED
  BY <1>6, <1>7, <1>8 DEF T

\* The span of the rule and the RDATEs bounds their ends in UTC, if it ends.
LEMMA SpanBounds ==
  ASSUME NEW o, IsObject(o), o.master # None, Steady(o, Utc)
  PROVE  LET ruled == InstantsOf(o, Utc, Recurring(o, Utc))
         IN \/ RuleSpanEnd(o) = None
            \/ /\ RuleSpanEnd(o) \in Int
               /\ \A s \in (ruled \cup InstantsOf(o, Utc, DOMAIN o.rdates)) \ Excluded(o, Utc) :
                    s + LengthAt(o, Utc, ruled, s) <= RuleSpanEnd(o)
<1> DEFINE r == o.rule
           start == o.master.start
           ruled == InstantsOf(o, Utc, Recurring(o, Utc))
           all == InstantsOf(o, Utc, DOMAIN o.rdates)
           S == (ruled \cup all) \ Excluded(o, Utc)
           at(s) == InstanceAt(o, Utc, ruled, s)
           instances == RecurrenceSet(o, Utc, start)
           dates == {i \in instances : i.start \in all}
           LastOf(T) == Max({i.end : i \in T} \cup {-Infinity})
           until == ToInstant(o, Utc, r.until) + LengthOf(o, Utc) + Day
<1>1. Recurring(o, Utc) \subseteq Int /\ IsFiniteSet(Recurring(o, Utc)) /\ IsZone(Utc)
  BY RecurringFinite, UtcZone
<1>2. instances = {at(s) : s \in S}
  <2>1. RuleInstances(o, Utc, start) = Recurring(o, Utc)
    BY FromStart, UtcZone
  <2>2. Rising(o, Utc, Recurring(o, Utc)) = ruled
    BY AllRise, UtcZone
  <2> QED
    BY <2>1, <2>2, RecurrenceSetIs
<1>3. ruled \subseteq Int /\ IsFiniteSet(ruled) /\ all \subseteq Int /\ IsFiniteSet(all)
  <2>1. ruled \subseteq Int /\ IsFiniteSet(ruled)
    BY <1>1, InstantsFinite
  <2>2. all \subseteq Int /\ IsFiniteSet(all)
    BY UtcZone, InstantsFinite DEF IsObject
  <2> QED
    BY <2>1, <2>2
<1>4. \A s \in ruled \cup all : LengthAt(o, Utc, ruled, s) \in Int
  BY LengthTyped, UtcZone
<1>5. \A s \in S : at(s).start = s /\ at(s).end = s + LengthAt(o, Utc, ruled, s) /\ at(s).end \in Int
  BY <1>3, <1>4 DEF InstanceAt
<1>6. IsFiniteSet(instances) /\ IsFiniteSet(dates) /\ \A i \in instances : i.end \in Int
  <2> DEFINE f == [s \in S |-> at(s)]
  <2>1. IsFiniteSet(S)
    <3>1. IsFiniteSet(ruled \cup all)
      BY <1>3, FS_Union
    <3>2. S \in SUBSET (ruled \cup all)
      OBVIOUS
    <3> HIDE DEF S, ruled, all
    <3> QED
      BY <3>1, <3>2, FS_Subset
  <2>2. instances = {f[s] : s \in S}
    BY <1>2
  <2> HIDE DEF f, S
  <2>3. IsFiniteSet({f[s] : s \in S})
    BY <2>1, FiniteImage
  <2>4. IsFiniteSet(instances)
    BY <2>2, <2>3
  <2>5. dates \in SUBSET instances
    OBVIOUS
  <2> HIDE DEF dates, instances, at
  <2> QED
    BY <1>2, <1>5, <2>4, <2>5, FS_Subset
<1> HIDE DEF at, instances, ruled, all, r
<1>7. /\ LastOf(instances) \in Int /\ \A i \in instances : i.end <= LastOf(instances)
      /\ LastOf(dates) \in Int /\ \A i \in dates : i.end <= LastOf(dates)
  <2>1. LastOf(instances) \in Int /\ \A i \in instances : i.end <= LastOf(instances)
    BY <1>6, LastEnd
  <2>2. \A i \in dates : i.end \in Int
    BY <1>6
  <2>3. LastOf(dates) \in Int /\ \A i \in dates : i.end <= LastOf(dates)
    <3> HIDE DEF dates
    <3> QED
      BY <1>6, <2>2, LastEnd
  <2> QED
    BY <2>1, <2>3
<1>8. RuleSpanEnd(o) \in {LastOf(instances), None}
      \/ (r # None /\ r.until # None /\ RuleSpanEnd(o) = Max({until, LastOf(dates)}))
  BY DEF RuleSpanEnd, instances, all, r, InstantsOf
<1> HIDE DEF LastOf, dates
<1>9. CASE RuleSpanEnd(o) = LastOf(instances)
  BY <1>2, <1>5, <1>7, <1>9 DEF ruled, all
<1>10. CASE r # None /\ r.until # None /\ RuleSpanEnd(o) = Max({until, LastOf(dates)})
  <2>1. r.until \in Int /\ Day \in Nat
    BY <1>10, TimeAssumption DEF IsObject, IsRule, r
  <2>2. LengthOf(o, Utc) \in Int /\ ToInstant(o, Utc, r.until) \in Int
    BY <2>1, UtcZone, Instants, Master
  <2>3. until \in Int /\ ToInstant(o, Utc, r.until) + LengthOf(o, Utc) <= until
    BY <2>1, <2>2
  <2> HIDE DEF until
  <2>4. /\ Max({until, LastOf(dates)}) \in Int /\ until <= Max({until, LastOf(dates)})
        /\ LastOf(dates) <= Max({until, LastOf(dates)})
    <3>1. Max({until, LastOf(dates)}) = IF until < LastOf(dates) THEN LastOf(dates) ELSE until
      BY <1>7, <2>3, Greater
    <3> QED
      BY <1>7, <2>3, <3>1
  <2>5. ASSUME NEW s \in S
        PROVE  s + LengthAt(o, Utc, ruled, s) <= RuleSpanEnd(o)
    <3>1. CASE s \in all
      <4>1. at(s) \in dates
        BY <1>2, <1>5, <3>1 DEF dates
      <4>2. at(s).end <= LastOf(dates)
        BY <1>7, <4>1
      <4> QED
        BY <1>5, <1>7, <1>10, <2>4, <4>2
    <3>2. CASE s \in ruled /\ s \notin all
      <4>1. PICK w \in Recurring(o, Utc) : s = ToInstant(o, Utc, w)
        BY <3>2 DEF ruled, InstantsOf
      <4>2. s <= ToInstant(o, Utc, r.until)
        BY <1>10, <4>1 DEF Recurring, Recurs, r
      <4>3. LengthAt(o, Utc, ruled, s) = LengthOf(o, Utc)
        BY <3>2 DEF LengthAt, Own
      <4>4. s \in Int
        BY <1>3, <3>2
      <4> QED
        BY <1>7, <1>10, <2>2, <2>3, <2>4, <4>2, <4>3, <4>4
    <3> QED
      BY <3>1, <3>2
  <2> QED
    BY <1>10, <2>4, <2>5 DEF ruled, all
<1> QED
  BY <1>8, <1>9, <1>10

\* The columns bound what they are made of.
LEMMA IndexBounds ==
  ASSUME NEW o, IsObject(o), o.master # None => RuleSpanEnd(o) = None \/ RuleSpanEnd(o) \in Int
  PROVE  LET index == ComputeTimeRangeIndex(o)
             components == o.overrides \cup (IF o.master = None THEN {} ELSE {o.master})
         IN /\ index.dtstart \in Int
            /\ \A c \in components : index.dtstart <= StartOf(o, Utc, c)
            /\ \A w \in DOMAIN o.rdates : index.dtstart <= ToInstant(o, Utc, w)
            /\ \/ index.spanEnd = None
               \/ /\ index.spanEnd \in Int
                  /\ \A c \in o.overrides : EndOf(o, Utc, c) <= index.spanEnd
                  /\ o.master # None => RuleSpanEnd(o) <= index.spanEnd
<1> DEFINE index == ComputeTimeRangeIndex(o)
           components == o.overrides \cup (IF o.master = None THEN {} ELSE {o.master})
           starts == {StartOf(o, Utc, c) : c \in components}
           dates == InstantsOf(o, Utc, DOMAIN o.rdates)
           ends == {EndOf(o, Utc, c) : c \in o.overrides}
<1>1. IsFiniteSet(components) /\ components # {} /\ \A c \in components : IsComponent(c)
  <2>1. IsFiniteSet(o.overrides) /\ \A c \in o.overrides : IsComponent(c)
    BY DEF IsObject
  <2>2. o.master # None => IsComponent(o.master)
    BY DEF IsObject
  <2>3. IsFiniteSet(IF o.master = None THEN {} ELSE {o.master})
    BY FS_Singleton, FS_EmptySet
  <2>4. IsFiniteSet(components)
    BY <2>1, <2>3, FS_Union
  <2>5. components # {}
    BY DEF IsObject
  <2> QED
    BY <2>1, <2>2, <2>4, <2>5
<1>2. \A c \in components : StartOf(o, Utc, c) \in Int /\ EndOf(o, Utc, c) \in Int
  BY <1>1, TimesOf, UtcZone
<1>3. dates \subseteq Int /\ IsFiniteSet(dates)
  BY UtcZone, InstantsFinite DEF IsObject
<1> HIDE DEF components, dates
<1>4. IsFiniteSet(starts) /\ starts \subseteq Int /\ starts # {}
  <2> DEFINE f == [c \in components |-> StartOf(o, Utc, c)]
  <2>1. starts = {f[c] : c \in components}
    OBVIOUS
  <2>2. starts \subseteq Int /\ starts # {}
    BY <1>1, <1>2
  <2> HIDE DEF f
  <2>3. IsFiniteSet({f[c] : c \in components})
    BY <1>1, FiniteImage
  <2> QED
    BY <2>1, <2>2, <2>3
<1>5. IsFiniteSet(ends) /\ ends \subseteq Int /\ (o.master = None => ends # {})
  <2> DEFINE f == [c \in o.overrides |-> EndOf(o, Utc, c)]
  <2>1. ends = {f[c] : c \in o.overrides}
    OBVIOUS
  <2>2. o.overrides \subseteq components
    BY DEF components
  <2>3. ends \subseteq Int /\ (o.master = None => ends # {})
    BY <1>2, <2>2 DEF IsObject
  <2> HIDE DEF f
  <2>4. IsFiniteSet({f[c] : c \in o.overrides})
    BY FiniteImage DEF IsObject
  <2> QED
    BY <2>1, <2>3, <2>4
<1>6. \A c \in components : StartOf(o, Utc, c) \in starts
  OBVIOUS
<1>7. \A c \in o.overrides : EndOf(o, Utc, c) \in ends
  OBVIOUS
<1> HIDE DEF starts, ends
<1>8. index.dtstart = Min(starts \cup dates)
  BY DEF ComputeTimeRangeIndex, starts, components, dates, InstantsOf
<1>9. index.dtstart \in Int /\ \A x \in starts \cup dates : index.dtstart <= x
  <2>1. IsFiniteSet(starts \cup dates)
    BY <1>3, <1>4, FS_Union
  <2>2. starts \cup dates \in SUBSET Int /\ starts \cup dates # {}
    BY <1>3, <1>4
  <2>3. Min(starts \cup dates) \in starts \cup dates /\ \A x \in starts \cup dates : Min(starts \cup dates) <= x
    BY <2>1, <2>2, Extremes
  <2> QED
    BY <1>8, <2>2, <2>3
<1>10. index.spanEnd = ComputeRecurrenceSpanEnd(o)
  BY DEF ComputeTimeRangeIndex
<1>11. \/ index.spanEnd = None
       \/ /\ index.spanEnd \in Int
          /\ \A x \in ends : x <= index.spanEnd
          /\ o.master # None => RuleSpanEnd(o) <= index.spanEnd
  <2>1. CASE o.master = None
    <3>1. index.spanEnd = Max(ends)
      BY <1>10, <2>1 DEF ComputeRecurrenceSpanEnd, ends
    <3>2. Max(ends) \in ends /\ \A x \in ends : x <= Max(ends)
      BY <1>5, <2>1, Extremes
    <3> QED
      BY <1>5, <2>1, <3>1, <3>2
  <2>2. CASE o.master # None /\ RuleSpanEnd(o) # None /\ RuleSpanEnd(o) \in Int
    <3> DEFINE e == EndOf(o, Utc, o.master)
               T == ends \cup {e, RuleSpanEnd(o)}
    <3>1. index.spanEnd = Max(T)
      BY <1>10, <2>2 DEF ComputeRecurrenceSpanEnd, ends
    <3>2. e \in Int
      BY <1>2, <2>2 DEF components
    <3>3. IsFiniteSet(T)
      <4> HIDE DEF e
      <4>1. IsFiniteSet({e})
        BY FS_Singleton
      <4>2. IsFiniteSet({e} \cup {RuleSpanEnd(o)})
        BY <4>1, FS_AddElement
      <4>3. {e, RuleSpanEnd(o)} = {e} \cup {RuleSpanEnd(o)}
        OBVIOUS
      <4>4. IsFiniteSet({e, RuleSpanEnd(o)})
        BY <4>2, <4>3
      <4> QED
        BY <1>5, <4>4, FS_Union
    <3>4. T \in SUBSET Int /\ T # {}
      BY <1>5, <2>2, <3>2
    <3>5. Max(T) \in T /\ \A x \in T : x <= Max(T)
      <4> HIDE DEF T
      <4> QED
        BY <3>3, <3>4, Extremes
    <3> HIDE DEF e
    <3> QED
      BY <2>2, <3>1, <3>4, <3>5
  <2>3. CASE o.master # None /\ RuleSpanEnd(o) = None
    BY <1>10, <2>3 DEF ComputeRecurrenceSpanEnd
  <2> QED
    BY <2>1, <2>2, <2>3
<1> HIDE DEF index
<1>12. \A w \in DOMAIN o.rdates : ToInstant(o, Utc, w) \in dates
  BY DEF dates, InstantsOf
<1> QED
  BY <1>6, <1>7, <1>9, <1>11, <1>12 DEF components, index

\* Whatever overlaps a range starts before its end and ends no sooner than it starts.
LEMMA Overlapping ==
  ASSUME NEW start \in Int, NEW end \in Int, NEW explicit, NEW from \in Int, NEW to \in Int,
         Overlaps(start, end, explicit, from, to)
  PROVE  start < to /\ from <= end
BY DEF Overlaps

\* Whatever occurs in a time range passes the prefilter for it: the index
\* spans every zone a floating time can be read in.
LEMMA OverlapsUnless ==
  ASSUME NEW o, IsObject(o), NEW floating, IsZone(floating), NEW from \in Int, NEW to \in Int,
         Steady(o, floating), UntilHolds(o, floating),
         TrueOccurrences(o, floating, from, to) # {}
  PROVE  Prefilter(ComputeTimeRangeIndex(o), from, to)
<1> DEFINE index == ComputeTimeRangeIndex(o)
           components == o.overrides \cup (IF o.master = None THEN {} ELSE {o.master})
           ruled == InstantsOf(o, floating, Recurring(o, floating))
           dates == InstantsOf(o, floating, DOMAIN o.rdates)
           ruledU == InstantsOf(o, Utc, Recurring(o, Utc))
           datesU == InstantsOf(o, Utc, DOMAIN o.rdates)
<1>1. o.master # None =>
        /\ Recurring(o, floating) = Recurring(o, Utc) /\ Steady(o, Utc)
        /\ \/ RuleSpanEnd(o) = None
           \/ /\ RuleSpanEnd(o) \in Int
              /\ \A s \in (ruledU \cup datesU) \ Excluded(o, Utc) :
                   s + LengthAt(o, Utc, ruledU, s) <= RuleSpanEnd(o)
  <2>1. SUFFICES ASSUME o.master # None
                 PROVE  /\ Recurring(o, floating) = Recurring(o, Utc) /\ Steady(o, Utc)
                        /\ \/ RuleSpanEnd(o) = None
                           \/ /\ RuleSpanEnd(o) \in Int
                              /\ \A s \in (ruledU \cup datesU) \ Excluded(o, Utc) :
                                   s + LengthAt(o, Utc, ruledU, s) <= RuleSpanEnd(o)
    OBVIOUS
  <2>2. Recurring(o, floating) = Recurring(o, Utc)
    BY <2>1, SameRule
  <2>3. Steady(o, Utc)
    BY <2>1, SteadyInUtc
  <2> QED
    BY <2>1, <2>2, <2>3, SpanBounds
<1>2. /\ index.dtstart \in Int
      /\ \A c \in components : index.dtstart <= StartOf(o, Utc, c)
      /\ \A w \in DOMAIN o.rdates : index.dtstart <= ToInstant(o, Utc, w)
      /\ \/ index.spanEnd = None
         \/ /\ index.spanEnd \in Int
            /\ \A c \in o.overrides : EndOf(o, Utc, c) <= index.spanEnd
            /\ o.master # None => RuleSpanEnd(o) <= index.spanEnd
  <2>1. o.master # None => RuleSpanEnd(o) = None \/ RuleSpanEnd(o) \in Int
    BY <1>1
  <2> QED
    BY <2>1, IndexBounds
<1>3. Earliest \in Int /\ Latest \in Int /\ IsZone(Utc)
  BY TimeAssumption, UtcZone
<1>4. SUFFICES ASSUME NEW start \in Int, NEW end \in Int, start < to, from <= end,
                      index.dtstart <= start + Latest,
                      index.spanEnd = None \/ (index.spanEnd \in Int /\ end <= index.spanEnd - Earliest)
               PROVE  Prefilter(index, from, to)
  <2> DEFINE Found(start, end) ==
               /\ start \in Int /\ end \in Int /\ start < to /\ from <= end
               /\ index.dtstart <= start + Latest
               /\ index.spanEnd = None \/ (index.spanEnd \in Int /\ end <= index.spanEnd - Earliest)
  <2>1. ASSUME OverrideOccurrences(o, floating, from, to) # {}
        PROVE  \E start, end : Found(start, end)
    <3>1. PICK c \in o.overrides :
            Overlaps(StartOf(o, floating, c), EndOf(o, floating, c), c.ends = "dtend", from, to)
      BY <2>1 DEF OverrideOccurrences
    <3> DEFINE start == StartOf(o, floating, c)
               end == EndOf(o, floating, c)
    <3>2. IsComponent(c) /\ c \in components
      BY DEF IsObject
    <3>3. start \in Int /\ end \in Int /\ StartOf(o, Utc, c) \in Int /\ EndOf(o, Utc, c) \in Int
      BY <1>3, <3>2, TimesOf
    <3>4. start < to /\ from <= end
      <4> HIDE DEF start, end
      <4> QED
        BY <3>1, <3>3, Overlapping DEF start, end
    <3>5. StartOf(o, Utc, c) <= start + Latest
      <4>1. c.start \in Int
        BY <3>2 DEF IsComponent
      <4> QED
        BY <4>1, Widening DEF StartOf
    <3>6. end <= EndOf(o, Utc, c) - Earliest
      BY <3>2, WideningEnd
    <3> HIDE DEF start, end, index, components
    <3>7. index.dtstart <= start + Latest
      BY <1>2, <1>3, <3>2, <3>3, <3>5
    <3>8. index.spanEnd = None \/ (index.spanEnd \in Int /\ end <= index.spanEnd - Earliest)
      BY <1>2, <1>3, <3>3, <3>6
    <3>9. Found(start, end)
      BY <3>3, <3>4, <3>7, <3>8
    <3> QED
      BY <3>9
  <2>2. ASSUME o.master # None, NEW s \in (ruled \cup dates) \ Excluded(o, floating),
               Overlaps(s, s + LengthAt(o, floating, ruled, s), ExplicitAt(o, floating, ruled, s), from, to)
        PROVE  \E start, end : Found(start, end)
    <3> DEFINE L == LengthAt(o, floating, ruled, s)
    <3>1. Recurring(o, floating) \subseteq Int /\ DOMAIN o.rdates \subseteq Int
      BY <2>2, RecurringFinite DEF IsObject
    <3>2. s \in Int /\ L \in Int
      <4>1. L \in Int
        BY <2>2, LengthTyped
      <4>2. s \in ruled \cup dates
        OBVIOUS
      <4>3. s \in Int
        BY <3>1, <4>2, Instants DEF InstantsOf
      <4> QED
        BY <4>1, <4>3
    <3>3. s < to /\ from <= s + L
      <4>1. s + L \in Int
        BY <3>2
      <4> HIDE DEF L
      <4> QED
        BY <2>2, <3>2, <4>1, Overlapping DEF L
    <3> DEFINE U(w) == ToInstant(o, Utc, w)
    <3>4. \E w \in Int : /\ s = ToInstant(o, floating, w)
                         /\ U(w) \in ruledU \cup datesU
                         /\ index.dtstart <= s + Latest
                         /\ s + L <= (U(w) + LengthAt(o, Utc, ruledU, U(w))) - Earliest
      <4>1. /\ LengthOf(o, floating) \in Int /\ LengthOf(o, Utc) \in Int
            /\ \A w \in Int : ToInstant(o, floating, w) + LengthOf(o, floating) <= U(w) + LengthOf(o, Utc) - Earliest
        <5>1. IsComponent(o.master)
          BY <2>2 DEF IsObject
        <5> QED
          BY <1>3, <2>2, <5>1, Master, WideningEnd DEF LengthOf
      <4>2. CASE s \in ruled
        <5>1. PICK w \in Recurring(o, floating) : s = ToInstant(o, floating, w)
          BY <4>2 DEF InstantsOf
        <5>2. w \in Int /\ U(w) \in ruledU /\ o.master.start \in Int /\ o.master.start <= w
          BY <1>1, <2>2, <3>1, <5>1, Master DEF InstantsOf, Recurring
        <5>3. L = LengthOf(o, floating) /\ LengthAt(o, Utc, ruledU, U(w)) = LengthOf(o, Utc)
          BY <4>2, <5>2 DEF LengthAt, Own
        <5>4. index.dtstart <= s + Latest
          <6>1. U(o.master.start) <= s + Latest
            BY <5>1, <5>2, Widening
          <6>2. index.dtstart <= U(o.master.start)
            BY <1>2, <2>2 DEF StartOf
          <6>3. U(o.master.start) \in Int
            BY <1>3, <5>2, Instants
          <6> HIDE DEF index, U
          <6> QED
            BY <1>2, <1>3, <3>2, <6>1, <6>2, <6>3
        <5>5. s + L <= (U(w) + LengthAt(o, Utc, ruledU, U(w))) - Earliest
          <6>1. s + LengthOf(o, floating) <= U(w) + LengthOf(o, Utc) - Earliest
            BY <4>1, <5>1, <5>2
          <6>2. U(w) \in Int
            BY <1>3, <5>2, Instants
          <6> DEFINE there == LengthAt(o, Utc, ruledU, U(w))
          <6> HIDE DEF L, U, there
          <6>3. s + L <= (U(w) + there) - Earliest
            BY <1>3, <3>2, <4>1, <5>3, <6>1, <6>2 DEF there
          <6> QED
            BY <6>3 DEF there
        <5> HIDE DEF L, U, index, ruledU, datesU
        <5> QED
          BY <5>1, <5>2, <5>4, <5>5
      <4>3. CASE s \notin ruled
        <5>1. s \in dates
          BY <4>3
        <5>2. PICK w \in DOMAIN o.rdates :
                /\ w \in Int /\ s = ToInstant(o, floating, w)
                /\ RdateLength(o, floating, s) = o.rdates[w]
                /\ RdateLength(o, Utc, U(w)) = o.rdates[w]
          BY <5>1, SameRdate
        <5>3. U(w) \in datesU
          BY DEF InstantsOf
        <5>4. U(w) \notin ruledU
          <6>1. SUFFICES ASSUME U(w) \in ruledU
                         PROVE  FALSE
            OBVIOUS
          <6>2. PICK v \in Recurring(o, Utc) : U(w) = U(v)
            BY <6>1 DEF InstantsOf
          <6>3. v \in Recurring(o, floating) /\ v \in Int
            BY <1>1, <2>2, <3>1, <6>2
          <6>4. ToInstant(o, floating, w) = ToInstant(o, floating, v)
            BY <5>2, <6>2, <6>3, SameWall
          <6> QED
            BY <4>3, <5>2, <6>3, <6>4 DEF InstantsOf
        <5>5. index.dtstart <= s + Latest
          <6>1. U(w) <= s + Latest
            BY <5>2, Widening
          <6>2. index.dtstart <= U(w)
            BY <1>2
          <6>3. U(w) \in Int
            BY <1>3, <5>2, Instants
          <6> HIDE DEF index, U
          <6> QED
            BY <1>2, <1>3, <3>2, <6>1, <6>2, <6>3
        <5>6. s + L <= (U(w) + LengthAt(o, Utc, ruledU, U(w))) - Earliest
          <6>1. CASE o.rdates[w] = None
            <7>1. L = LengthOf(o, floating) /\ LengthAt(o, Utc, ruledU, U(w)) = LengthOf(o, Utc)
              BY <5>2, <6>1 DEF LengthAt, Own
            <7>2. s + LengthOf(o, floating) <= U(w) + LengthOf(o, Utc) - Earliest
              BY <4>1, <5>2
            <7>3. U(w) \in Int
              BY <1>3, <5>2, Instants
            <7> DEFINE there == LengthAt(o, Utc, ruledU, U(w))
            <7> HIDE DEF L, U, there
            <7>4. s + L <= (U(w) + there) - Earliest
              BY <1>3, <3>2, <4>1, <7>1, <7>2, <7>3 DEF there
            <7> QED
              BY <7>4 DEF there
          <6>2. CASE o.rdates[w] # None
            <7>1. L = o.rdates[w] /\ LengthAt(o, Utc, ruledU, U(w)) = o.rdates[w]
              BY <4>3, <5>2, <5>4, <6>2 DEF LengthAt, Own
            <7>2. o.rdates[w] \in Nat
              BY <6>2 DEF IsObject
            <7>3. U(w) \in Int
              BY <1>3, <5>2, Instants
            <7>4. s <= U(w) - Earliest
              BY <5>2, Widening
            <7> HIDE DEF L, U
            <7> QED
              BY <1>3, <3>2, <7>1, <7>2, <7>3, <7>4
          <6> QED
            BY <6>1, <6>2
        <5> QED
          BY <5>2, <5>3, <5>5, <5>6
      <4> QED
        BY <4>2, <4>3
    <3>5. PICK w \in Int : /\ s = ToInstant(o, floating, w)
                           /\ U(w) \in ruledU \cup datesU
                           /\ index.dtstart <= s + Latest
                           /\ s + L <= (U(w) + LengthAt(o, Utc, ruledU, U(w))) - Earliest
      BY <3>4
    <3>6. U(w) \notin Excluded(o, Utc)
      <4>1. SUFFICES ASSUME U(w) \in Excluded(o, Utc)
                     PROVE  FALSE
        OBVIOUS
      <4>2. PICK x \in o.exdates : U(w) = U(x)
        BY <4>1 DEF Excluded
      <4>3. x \in Int
        BY DEF IsObject
      <4>4. ToInstant(o, floating, w) = ToInstant(o, floating, x)
        BY <4>2, <4>3, SameWall
      <4> QED
        BY <3>5, <4>2, <4>4 DEF Excluded
    <3>7. LengthAt(o, Utc, ruledU, U(w)) \in Int /\ U(w) \in Int
      BY <1>3, <2>2, <3>5, LengthTyped, Instants
    <3> DEFINE e == U(w) + LengthAt(o, Utc, ruledU, U(w))
    <3>8. e \in Int /\ s + L <= e - Earliest
      BY <3>5, <3>7
    <3>9. RuleSpanEnd(o) = None \/ (RuleSpanEnd(o) \in Int /\ e <= RuleSpanEnd(o))
      BY <1>1, <2>2, <3>5, <3>6
    <3>10. index.spanEnd = None \/ (index.spanEnd \in Int /\ s + L <= index.spanEnd - Earliest)
      <4>1. CASE index.spanEnd = None
        BY <4>1
      <4>2. CASE index.spanEnd # None /\ RuleSpanEnd(o) = None
        BY <2>2, <4>2 DEF ComputeTimeRangeIndex, ComputeRecurrenceSpanEnd
      <4>3. CASE index.spanEnd # None /\ RuleSpanEnd(o) \in Int /\ e <= RuleSpanEnd(o)
        <5>1. index.spanEnd \in Int /\ RuleSpanEnd(o) <= index.spanEnd
          BY <1>2, <2>2, <4>3
        <5> HIDE DEF index, e, L
        <5> QED
          BY <1>3, <3>2, <3>8, <4>3, <5>1
      <4> QED
        BY <3>9, <4>1, <4>2, <4>3
    <3>11. Found(s, s + L)
      BY <3>2, <3>3, <3>5, <3>10
    <3> QED
      BY <3>11
  <2>3. \E start, end : Found(start, end)
    <3>1. CASE OverrideOccurrences(o, floating, from, to) # {}
      BY <2>1, <3>1
    <3>2. CASE OverrideOccurrences(o, floating, from, to) = {}
      <4>1. o.master # None
        BY <3>2 DEF TrueOccurrences
      <4>2. Occurring(o, floating, ruled, from, to) # {}
        BY <3>2, <4>1, TrueIs
      <4>3. \E s \in (ruled \cup dates) \ Excluded(o, floating) :
              Overlaps(s, s + LengthAt(o, floating, ruled, s), ExplicitAt(o, floating, ruled, s), from, to)
        BY <4>2 DEF Occurring
      <4> HIDE DEF Found
      <4> QED
        BY <2>2, <4>1, <4>3
    <3> QED
      BY <3>1, <3>2
  <2> HIDE DEF index
  <2> QED
    BY <2>3 DEF index
<1>5. index.dtstart < to + Latest
  <2> HIDE DEF index
  <2> QED
    BY <1>2, <1>3, <1>4
<1>6. index.spanEnd = None \/ index.spanEnd >= from + Earliest
  <2> HIDE DEF index
  <2> QED
    BY <1>3, <1>4
<1> QED
  BY <1>5, <1>6 DEF Prefilter

\* The elements at I, in their order: what they are and where they come from.
LEMMA AtIs ==
  ASSUME NEW T, NEW s \in Seq(T), NEW I \in SUBSET DOMAIN s
  PROVE  /\ At(s, I) \in Seq(T)
         /\ \E g \in [1..Len(At(s, I)) -> I] :
              /\ \A i, j \in 1..Len(At(s, I)) : i < j => g[i] < g[j]
              /\ \A i \in 1..Len(At(s, I)) : At(s, I)[i] = s[g[i]]
              /\ \A x \in I : \E i \in 1..Len(At(s, I)) : g[i] = x
<1> DEFINE less == {p \in I \X I : p[1] < p[2]}
           g == Ranked(I, less)
           n == Cardinality(I)
<1>1. DOMAIN s = 1..Len(s) /\ Len(s) \in Nat /\ I \subseteq 1..Len(s)
  OBVIOUS
<1>2. IsFiniteSet(I)
  <2>1. IsFiniteSet(1..Len(s))
    BY <1>1, FS_Interval
  <2> QED
    BY <1>1, <2>1, FS_Subset
<1>3. Orders(less, I)
  BY <1>1 DEF Orders
<1>4. \A x, y \in I : <<x, y>> \in less => x < y
  OBVIOUS
<1> HIDE DEF less
<1>5. /\ n \in Nat /\ g \in [1..n -> I]
      /\ \A x \in I : \E i \in 1..n : g[i] = x
      /\ \A i, j \in 1..n : i < j => <<g[i], g[j]>> \in less
  <2>1. /\ n \in Nat /\ g \in [1..n -> I]
        /\ \A x \in I : Rank(I, less, x) + 1 \in 1..n /\ g[Rank(I, less, x) + 1] = x
        /\ \A i, j \in 1..n : i < j <=> <<g[i], g[j]>> \in less
    BY <1>2, <1>3, RankedInOrder
  <2> HIDE DEF g, n
  <2> QED
    BY <2>1
<1>6. At(s, I) = [k \in DOMAIN g |-> s[g[k]]]
  BY DEF At, less
<1> HIDE DEF g, n
<1>7. \A k \in 1..n : s[g[k]] \in T
  BY <1>1, <1>5
<1>8. At(s, I) = [k \in 1..n |-> s[g[k]]]
  BY <1>5, <1>6
<1>9. At(s, I) \in Seq(T) /\ Len(At(s, I)) = n
  BY <1>5, <1>7, <1>8, IsASeq
<1>10. \A i, j \in 1..n : i < j => g[i] < g[j]
  BY <1>4, <1>5
<1> QED
  BY <1>5, <1>8, <1>9, <1>10

-----------------------------------------------------------------------------
(* The rows.                                                                 *)

\* What a report holds of a row: its name, its id and the version it saw.
Entries == [name : Names, id : Ids, version : Nat]
\* The fields of a report in flight.
Fields == {"pc", "ask", "offset", "page", "found", "busy", "data", "answer"}

\* Rows have ids of their own and the index of the object they hold.
RowsTyped ==
  /\ writes \in 0..MaxWrites /\ unused \subseteq Ids /\ DOMAIN rows = Names
  /\ \A n \in Live : /\ rows[n].id \in Ids \ unused /\ rows[n].version \in 1..(writes + 1)
                     /\ rows[n].object \in Known
                     /\ rows[n].index = ComputeTimeRangeIndex(rows[n].object)
  /\ \A m, n \in Live : rows[m].id = rows[n].id => m = n

\* An id leads to its row and to the object the row holds, or to none.
ObjectsHeld ==
  /\ \A n \in Live : NameOf(rows[n].id) = n /\ ObjectOf(rows[n].id) = rows[n].object
  /\ \A id \in Ids : /\ ObjectOf(id) \in Known \cup {None}
                     /\ id \notin IdsOf(Live) => ObjectOf(id) = None
                     /\ ObjectOf(id) # None => \E n \in Live : rows[n].id = id

\* Stated as implications, to hold of the next state, too.
LEMMA ObjectHeld == RowsTyped => ObjectsHeld
<1> SUFFICES ASSUME RowsTyped
             PROVE  ObjectsHeld
  OBVIOUS
<1>1. \A n \in Live : NameOf(rows[n].id) = n
  BY DEF RowsTyped, NameOf
<1>2. \A n \in Live : rows[n].id \in IdsOf(Live)
  BY DEF IdsOf
<1>3. \A n \in Live : ObjectOf(rows[n].id) = rows[n].object /\ rows[n].object \in Known
  BY <1>1, <1>2 DEF ObjectOf, RowsTyped
<1>4. \A id \in Ids : id \notin IdsOf(Live) => ObjectOf(id) = None
  BY DEF ObjectOf
<1>5. \A id \in IdsOf(Live) : \E n \in Live : rows[n].id = id
  BY DEF IdsOf
<1> QED
  BY <1>1, <1>3, <1>4, <1>5 DEF ObjectsHeld

\* Every object that a row may hold is one.
LEMMA KnownObject == None \notin Known /\ \A o \in Known : IsObject(o)
BY RowsAssumption DEF Known

\* What a write or a deletion of n does.
Changes(n) ==
  /\ DOMAIN rows' = Names /\ \A m \in Names \ {n} : rows'[m] = rows[m]
  /\ writes' = writes + 1 /\ writes' \in 0..MaxWrites /\ unused' \subseteq unused
  /\ \/ rows[n] # None /\ rows'[n] = None
     \/ /\ rows'[n] # None /\ rows'[n].object \in Known
        /\ rows'[n].index = ComputeTimeRangeIndex(rows'[n].object)
        /\ \/ rows[n] = None /\ rows'[n].id \in unused \ unused' /\ rows'[n].version = 1
           \/ /\ rows[n] # None /\ rows'[n].id = rows[n].id
              /\ rows'[n].version = rows[n].version + 1
  /\ UNCHANGED report
  /\ IF Is("idle") THEN UNCHANGED history ELSE Observed

\* A PUT and a DELETE change one row in the way Changes says.
LEMMA WritesChange ==
  ASSUME RowsTyped, NEW n \in Names, Delete(n) \/ \E o \in Objects : Put(n, o)
  PROVE  Changes(n)
<1>1. MaxWrites \in Nat /\ writes \in 0..MaxWrites /\ DOMAIN rows = Names
  BY PageAssumption DEF RowsTyped
<1>2. CASE Delete(n)
  BY <1>1, <1>2 DEF Delete, Write, Changes, RowsTyped
<1>3. ASSUME NEW o \in Objects, Put(n, o)
      PROVE  Changes(n)
  <2>1. o \in Known
    BY DEF Known
  <2>2. CASE rows[n] = None
    <3>1. PICK id \in unused : /\ Write([rows EXCEPT ![n] = Row(id, 1, o)])
                               /\ unused' = unused \ {id}
      BY <1>3, <2>2 DEF Put
    <3>2. Row(id, 1, o) # None
      <4>1. id \in Ids /\ 1 \in 1..(MaxWrites + 1)
        BY <1>1 DEF RowsTyped
      <4> QED
        BY <2>1, <4>1, NoneAssumption
    <3>3. /\ Row(id, 1, o).id = id /\ Row(id, 1, o).version = 1 /\ Row(id, 1, o).object = o
          /\ Row(id, 1, o).index = ComputeTimeRangeIndex(o)
      BY DEF Row
    <3> QED
      BY <1>1, <2>1, <2>2, <3>1, <3>2, <3>3 DEF Write, Changes
  <2>3. CASE rows[n] # None
    <3> DEFINE row == Row(rows[n].id, rows[n].version + 1, o)
    <3>1. Write([rows EXCEPT ![n] = row]) /\ unused' = unused
      BY <1>3, <2>3 DEF Put
    <3>2. row # None
      <4>1. n \in Live /\ writes < MaxWrites
        BY <2>3, <3>1 DEF Live, Write
      <4>2. rows[n].id \in Ids /\ rows[n].version + 1 \in 1..(MaxWrites + 1)
        BY <1>1, <4>1 DEF RowsTyped
      <4> QED
        BY <2>1, <4>2, NoneAssumption
    <3>3. /\ row.id = rows[n].id /\ row.version = rows[n].version + 1 /\ row.object = o
          /\ row.index = ComputeTimeRangeIndex(o)
      BY DEF Row
    <3> HIDE DEF row
    <3> QED
      BY <1>1, <2>1, <2>3, <3>1, <3>2, <3>3 DEF Write, Changes
  <2> QED
    BY <2>2, <2>3
<1> QED
  BY <1>2, <1>3

\* Such a change leaves the rows right.
LEMMA RowsStayTyped ==
  ASSUME RowsTyped, NEW n \in Names, Changes(n)
  PROVE  /\ RowsTyped'
         /\ \A m \in Live' : m \in Live \ {n} \/ m = n
<1>1. \A m \in Live' : m \in Live \ {n} \/ m = n
  BY DEF Live, Changes
<1>2. writes' \in 0..MaxWrites /\ unused' \subseteq Ids /\ DOMAIN rows' = Names
  BY DEF Changes, RowsTyped
<1>3. ASSUME NEW m \in Live'
      PROVE  /\ rows'[m].id \in Ids \ unused' /\ rows'[m].version \in 1..(writes' + 1)
             /\ rows'[m].object \in Known
             /\ rows'[m].index = ComputeTimeRangeIndex(rows'[m].object)
  <2>1. CASE m # n
    <3>1. m \in Live /\ rows'[m] = rows[m]
      BY <1>1, <2>1 DEF Changes, Live
    <3> QED
      BY <3>1, PageAssumption DEF Changes, RowsTyped
  <2>2. CASE m = n
    <3>1. rows'[n] # None
      BY <2>2 DEF Live
    <3>2. CASE rows[n] = None
      BY <2>2, <3>1, <3>2 DEF Changes, RowsTyped
    <3>3. CASE rows[n] # None
      <4>1. n \in Live
        BY <3>3 DEF Live
      <4> QED
        BY <2>2, <3>1, <3>3, <4>1, PageAssumption DEF Changes, RowsTyped
    <3> QED
      BY <3>2, <3>3
  <2> QED
    BY <2>1, <2>2
<1>4. ASSUME NEW m \in Live', NEW k \in Live', rows'[m].id = rows'[k].id
      PROVE  m = k
  <2>1. ASSUME NEW x \in Live', x # n, rows'[n].id = rows'[x].id, n \in Live'
        PROVE  FALSE
    <3>1. x \in Live /\ rows'[x] = rows[x] /\ rows[x].id \notin unused
      BY <1>1, <2>1 DEF Changes, Live, RowsTyped
    <3>2. rows'[n] # None
      BY <2>1 DEF Live
    <3>3. CASE rows[n] = None
      BY <2>1, <3>1, <3>2, <3>3 DEF Changes
    <3>4. CASE rows[n] # None
      <4>1. n \in Live /\ rows[n].id = rows[x].id
        BY <2>1, <3>1, <3>2, <3>4 DEF Changes, Live
      <4> QED
        BY <2>1, <3>1, <4>1 DEF RowsTyped
    <3> QED
      BY <3>3, <3>4
  <2>2. CASE m # n /\ k # n
    BY <1>1, <1>4, <2>2 DEF Changes, Live, RowsTyped
  <2> QED
    BY <1>4, <2>1, <2>2
<1>5. RowsTyped'
  BY <1>2, <1>3, <1>4 DEF RowsTyped
<1> QED
  BY <1>1, <1>5

\* The stages of a report.
Stages == {"names", "page", "contents", "collected", "loaded", "answered", "failed"}

\* A report in flight has its fields, and a page only while it is to be read.
ReportTyped ==
  \/ report = Idle
  \/ /\ DOMAIN report = Fields /\ report.pc \in Stages /\ report.ask \in Questions
     /\ report.offset \in Nat /\ report.page \in Seq(Entries) /\ report.found \in Seq(Entries)
     /\ report.pc = "contents" \/ report.page = <<>>

\* What was observed while the report ran.
HistoryTyped ==
  /\ gone \in Nat /\ come \in Nat
  /\ ~Is("idle") =>
       \A id \in Ids : /\ IsFiniteSet(ever[id]) /\ ever[id] \subseteq Known \cup {None}
                       /\ ObjectOf(id) \in ever[id]

\* An entry's row keeps its id and only gets newer.
Held(e) == e.id \notin unused /\ \A n \in Live : rows[n].id = e.id => e.version <= rows[n].version

\* Whatever a report has read of a row is held.
EntriesHeld ==
  ~Is("idle") => /\ \A i \in DOMAIN report.page : Held(report.page[i])
                 /\ \A i \in DOMAIN report.found : Held(report.found[i])

\* The texts that are loaded are those of rows that were found.
DataTyped ==
  Is("loaded") =>
    /\ Sends /\ DOMAIN report.data \subseteq DOMAIN report.found
    /\ \A i \in DOMAIN report.data :
         LET read == report.data[i]
         IN /\ read.version = 0 \/ report.found[i].version <= read.version
            /\ read.object \in ever[report.found[i].id]

\* Every variable of a report and its rows keeps its type.
Types == RowsTyped /\ ReportTyped /\ HistoryTyped /\ EntriesHeld /\ DataTyped

\* A report is idle or has all of its fields.
LEMMA Stage ==
  ReportTyped => \/ Is("idle") /\ report = Idle
                 \/ /\ ~Is("idle") /\ DOMAIN report = Fields /\ report.pc \in Stages
                    /\ report.ask \in Questions
                    /\ report.offset \in Nat /\ report.page \in Seq(Entries) /\ report.found \in Seq(Entries)
                    /\ report.pc = "contents" \/ report.page = <<>>
BY DEF ReportTyped, Is, Idle, Stages

\* The order of the candidates.
Less == {p \in Live \X Live : Before(Entry(p[1]), Entry(p[2]))}

\* Rows, candidates and names can be counted.
FiniteRows ==
  /\ IsFiniteSet(Candidates) /\ IsFiniteSet(Live) /\ Candidates \subseteq Live /\ Live \subseteq Names
  /\ \A S \in SUBSET Names : IsFiniteSet(S) /\ Cardinality(S) \in Nat /\ IsFiniteSet(IdsOf(S))

\* There are, for names are.
LEMMA CandidatesFinite == RowsTyped => FiniteRows
<1> SUFFICES ASSUME RowsTyped
             PROVE  FiniteRows
  OBVIOUS
<1>1. Candidates \subseteq Live /\ Live \subseteq Names
  BY DEF Candidates, Live
<1>2. ASSUME NEW S \in SUBSET Names
      PROVE  IsFiniteSet(S) /\ Cardinality(S) \in Nat /\ IsFiniteSet(IdsOf(S))
  <2>1. IsFiniteSet(S)
    BY RowsAssumption, FS_Subset
  <2> DEFINE f == [n \in S |-> rows[n].id]
  <2>2. IdsOf(S) = {f[n] : n \in S}
    BY DEF IdsOf
  <2> HIDE DEF f
  <2>3. IsFiniteSet({f[n] : n \in S})
    BY <2>1, FiniteImage
  <2> QED
    BY <2>1, <2>2, <2>3, FS_CardinalityType
<1>3. Live \in SUBSET Names /\ Candidates \in SUBSET Names
  BY <1>1
<1> QED
  BY <1>1, <1>2, <1>3 DEF FiniteRows

\* The candidates in order of their names and ids, each once.
OrderedRight ==
  LET n == Cardinality(Candidates)
  IN /\ n \in Nat /\ Ordered \in [1..n -> Candidates] /\ Len(Ordered) = n
     /\ Orders(Less, Candidates)
     /\ \A i \in 1..n : Rank(Candidates, Less, Ordered[i]) = i - 1
     /\ \A m \in Candidates : /\ Rank(Candidates, Less, m) + 1 \in 1..n
                              /\ Ordered[Rank(Candidates, Less, m) + 1] = m
     /\ \A i, j \in 1..n : Ordered[i] = Ordered[j] => i = j
     /\ \A m, k \in Live : <<m, k>> \in Less <=> Before(Entry(m), Entry(k))

\* They are.
LEMMA OrderedIs == RowsTyped => OrderedRight
<1> SUFFICES ASSUME RowsTyped
             PROVE  OrderedRight
  OBVIOUS
<1> DEFINE n == Cardinality(Candidates)
           Key(m) == IF report.ask.kind = "query" THEN m ELSE rows[m].id
<1>1. IsFiniteSet(Candidates) /\ Candidates \subseteq Live /\ Live \subseteq Names
  BY CandidatesFinite DEF FiniteRows
<1>2. \A m, k \in Live : Before(Entry(m), Entry(k)) <=> Key(m) < Key(k)
  BY DEF Before, Entry
<1>3. \A m, k \in Live : <<m, k>> \in Less <=> Before(Entry(m), Entry(k))
  BY DEF Less
<1>4. \A m \in Live : Key(m) \in Nat
  BY <1>1, RowsAssumption DEF RowsTyped
<1>5. \A m, k \in Live : Key(m) = Key(k) => m = k
  BY DEF RowsTyped
<1> HIDE DEF Key
<1>6. Orders(Less, Candidates)
  BY <1>1, <1>2, <1>3, <1>4, <1>5 DEF Orders
<1>7. Ordered = Ranked(Candidates, Less)
  BY DEF Ordered, Less
<1> HIDE DEF n
<1>8. /\ n \in Nat /\ Ordered \in [1..n -> Candidates]
      /\ \A i \in 1..n : Rank(Candidates, Less, Ordered[i]) = i - 1
      /\ \A m \in Candidates : Rank(Candidates, Less, m) + 1 \in 1..n
                               /\ Ordered[Rank(Candidates, Less, m) + 1] = m
      /\ \A i, j \in 1..n : Ordered[i] = Ordered[j] => i = j
  BY <1>1, <1>6, <1>7, RankedInOrder DEF n
<1>9. Len(Ordered) = n
  BY <1>8
<1> QED
  BY <1>3, <1>6, <1>8, <1>9 DEF n, OrderedRight

\* The page from the offset to the row numbered last, which ends a page or the
\* candidates.
ReadsUpTo(last) ==
  /\ report.offset < last /\ last <= Cardinality(Candidates)
  /\ last = Cardinality(Candidates) \/ last = report.offset + PageSize
  /\ report' = [report EXCEPT !.pc = "contents", !.offset = last,
                  !.page = [i \in 1..(last - report.offset) |-> Entry(Ordered[report.offset + i])]]

\* Which page is read.
LEMMA PageRead ==
  ASSUME RowsTyped, ReportTyped, ReadPage
  PROVE  \/ Cardinality(Candidates) <= report.offset /\ report' = [report EXCEPT !.pc = "collected"]
         \/ \E last \in Nat : ReadsUpTo(last)
<1> DEFINE n == Cardinality(Candidates)
           last == Min({n, report.offset + PageSize})
           none == [report EXCEPT !.pc = "collected"]
           next == [report EXCEPT !.pc = "contents", !.offset = last,
                      !.page = [i \in 1..(last - report.offset) |-> Entry(Ordered[report.offset + i])]]
<1>1. Len(Ordered) = n /\ n \in Nat
  BY OrderedIs DEF OrderedRight
<1>2. report.offset \in Nat /\ PageSize \in Nat
  BY Stage, PageAssumption DEF ReadPage, Is
<1>3. n \in Int /\ report.offset + PageSize \in Int
  BY <1>1, <1>2
<1>4. last = IF n < report.offset + PageSize THEN n ELSE report.offset + PageSize
  BY <1>3, Lesser
<1> DEFINE past == last <= report.offset
<1>5. report' = IF past THEN none ELSE next
  BY <1>1 DEF ReadPage
<1> HIDE DEF last, none, next, past
<1>6. last \in Nat /\ last <= n /\ (last = n \/ last = report.offset + PageSize)
  BY <1>1, <1>2, <1>4
<1>7. PageSize > 0
  BY PageAssumption
<1>8. CASE past
  <2>1. n <= report.offset
    <3> HIDE DEF n
    <3> QED
      BY <1>1, <1>2, <1>6, <1>7, <1>8 DEF past
  <2>2. report' = none
    BY <1>5, <1>8
  <2> QED
    BY <2>1, <2>2 DEF none
<1>9. CASE ~past
  <2>1. report.offset < last
    BY <1>2, <1>6, <1>9 DEF past
  <2>2. report' = next
    BY <1>5, <1>9
  <2>3. ReadsUpTo(last)
    BY <1>6, <2>1, <2>2, Zenon DEF ReadsUpTo, next
  <2> QED
    BY <1>6, <2>3
<1> HIDE DEF n
<1> QED
  BY <1>8, <1>9 DEF n

\* What a report takes of a row is an entry, held.
LEMMA EntriesTyped ==
  ASSUME RowsTyped, NEW n \in Live
  PROVE  Entry(n) \in Entries /\ Held(Entry(n))
<1>1. n \in Names /\ rows[n].id \in Ids \ unused /\ rows[n].version \in Nat
  BY DEF RowsTyped, Live
<1>2. \A m \in Live : rows[m].id = rows[n].id => rows[n].version <= rows[m].version
  BY <1>1 DEF RowsTyped
<1> QED
  BY <1>1, <1>2 DEF Entry, Entries, Held

\* What a page's text has to be for its row to be found.
Taken(e) == ObjectOf(e.id) # None /\ Matches(ObjectOf(e.id))

\* F keeps of Z, in order, the elements that g names.
Thins(F, Z, g) ==
  /\ g \in [1..Len(F) -> 1..Len(Z)]
  /\ \A i, j \in 1..Len(F) : i < j => g[i] < g[j]
  /\ \A i \in 1..Len(F) : F[i] = Z[g[i]]

\* Reading the texts of a page adds to the rows found those of the page that
\* match, in their order, up to one more than fit.
LEMMA ContentsRead ==
  ASSUME ReportTyped, ReadContents
  PROVE  LET Z == report.found \o report.page
             F == report'.found
             k == Len(report.found)
         IN /\ Is("contents") /\ DOMAIN report' = Fields
            /\ report'.ask = report.ask /\ report'.offset = report.offset /\ report'.page = <<>>
            /\ report'.pc = IF Full(F) \/ LastPage(report.page) THEN "collected" ELSE "page"
            /\ k \in Nat /\ Z \in Seq(Entries) /\ F \in Seq(Entries)
            /\ \A z \in 1..Len(Z) : IF z <= k THEN Z[z] = report.found[z]
                                    ELSE z - k \in 1..Len(report.page) /\ Z[z] = report.page[z - k]
            /\ \E g : /\ Thins(F, Z, g)
                      /\ \A i \in 1..Len(F) : g[i] <= k \/ Taken(Z[g[i]])
                      /\ \A z \in 1..Len(Z) :
                           z <= k \/ Taken(Z[z]) =>
                             \/ \E i \in 1..Len(F) : g[i] = z
                             \/ Full(F) /\ Len(F) = MaxResults + 1 /\ g[MaxResults + 1] < z
<1> DEFINE page == report.page
           found == report.found
           k == Len(found)
           Z == found \o page
           I == {i \in DOMAIN page : Taken(page[i])}
           matched == At(page, I)
           all == found \o matched
           F == report'.found
<1>1. /\ Is("contents") /\ DOMAIN report = Fields
      /\ page \in Seq(Entries) /\ found \in Seq(Entries) /\ k \in Nat /\ Len(page) \in Nat
  <2>1. Is("contents")
    BY DEF ReadContents
  <2> QED
    BY <2>1, Stage DEF Is
<1>2. I = {i \in DOMAIN page : ObjectOf(page[i].id) # None /\ Matches(ObjectOf(page[i].id))}
  <2>1. \A e : Taken(e) <=> ObjectOf(e.id) # None /\ Matches(ObjectOf(e.id))
    BY DEF Taken
  <2> QED
    BY <2>1
<1>3. /\ DOMAIN report' = Fields /\ report'.ask = report.ask /\ report'.offset = report.offset
      /\ report'.page = <<>>
      /\ F = IF Full(all) THEN SubSeq(all, 1, MaxResults + 1) ELSE all
      /\ report'.pc = IF Full(F) \/ LastPage(page) THEN "collected" ELSE "page"
  BY <1>1, <1>2 DEF ReadContents, Fields
<1>4. Z \in Seq(Entries) /\ Len(Z) = k + Len(page)
      /\ \A z \in 1..Len(Z) : IF z <= k THEN Z[z] = found[z]
                              ELSE z - k \in 1..Len(page) /\ Z[z] = page[z - k]
  <2>1. /\ Z \in Seq(Entries) /\ Len(Z) = k + Len(page)
        /\ \A z \in 1..(k + Len(page)) : Z[z] = IF z <= k THEN found[z] ELSE page[z - k]
    BY <1>1, ConcatProperties
  <2> HIDE DEF Z, k
  <2>2. \A z \in 1..(k + Len(page)) : ~(z <= k) => z - k \in 1..Len(page)
    BY <1>1
  <2> QED
    BY <2>1, <2>2
<1>5. matched \in Seq(Entries) /\ Len(matched) \in Nat
      /\ \E g \in [1..Len(matched) -> I] :
           /\ \A i, j \in 1..Len(matched) : i < j => g[i] < g[j]
           /\ \A i \in 1..Len(matched) : matched[i] = page[g[i]]
           /\ \A x \in I : \E i \in 1..Len(matched) : g[i] = x
  <2>1. I \in SUBSET DOMAIN page
    OBVIOUS
  <2> HIDE DEF I
  <2> QED
    BY <1>1, <2>1, AtIs
<1>6. PICK h \in [1..Len(matched) -> I] :
           /\ \A i, j \in 1..Len(matched) : i < j => h[i] < h[j]
           /\ \A i \in 1..Len(matched) : matched[i] = page[h[i]]
           /\ \A x \in I : \E i \in 1..Len(matched) : h[i] = x
  BY <1>5
<1> DEFINE m == Len(matched)
<1>7. /\ all \in Seq(Entries) /\ Len(all) = k + m
      /\ \A i \in 1..(k + m) : all[i] = IF i <= k THEN found[i] ELSE matched[i - k]
  <2> HIDE DEF matched
  <2> QED
    BY <1>1, <1>5, ConcatProperties
<1>8. I \subseteq 1..Len(page) /\ \A x \in I : Taken(page[x])
  BY <1>1
<1> DEFINE c == [i \in 1..(k + m) |-> IF i <= k THEN i ELSE h[i - k] + k]
<1>9. m \in Nat /\ \A i \in 1..m : h[i] \in I /\ h[i] \in 1..Len(page)
  BY <1>5, <1>8
<1> HIDE DEF I, matched, all, Z, F, m, k, page, found
<1>10. \A i \in 1..(k + m) : i > k => i - k \in 1..m
  BY <1>1, <1>9 DEF k
<1>11. /\ c \in [1..(k + m) -> 1..Len(Z)]
       /\ \A i, j \in 1..(k + m) : i < j => c[i] < c[j]
  <2>1. ASSUME NEW i \in 1..(k + m)
        PROVE  c[i] \in 1..Len(Z) /\ (i <= k => c[i] = i) /\ (i > k => c[i] = h[i - k] + k /\ c[i] > k)
    <3>1. k \in Nat /\ Len(page) \in Nat /\ Len(Z) = k + Len(page)
      BY <1>1, <1>4 DEF k
    <3>2. CASE i <= k
      BY <3>1, <3>2
    <3>3. CASE ~(i <= k)
      <4>1. h[i - k] \in 1..Len(page) /\ c[i] = h[i - k] + k
        BY <1>9, <1>10, <3>1, <3>3
      <4> QED
        BY <3>1, <3>3, <4>1
    <3> QED
      BY <3>2, <3>3
  <2>2. \A i, j \in 1..m : i < j => h[i] < h[j]
    BY <1>6 DEF m
  <2>3. ASSUME NEW i \in 1..(k + m), NEW j \in 1..(k + m), i < j
        PROVE  c[i] < c[j]
    <3> HIDE DEF c
    <3>1. CASE j <= k
      BY <1>1, <2>1, <2>3, <3>1 DEF k
    <3>2. CASE i <= k /\ j > k
      BY <1>1, <1>4, <2>1, <2>3, <3>2 DEF k, page
    <3>3. CASE i > k
      <4>1. i - k \in 1..m /\ j - k \in 1..m /\ i - k < j - k /\ j > k
        BY <1>1, <1>9, <1>10, <2>3, <3>3 DEF k
      <4>2. h[i - k] < h[j - k] /\ h[i - k] \in Int /\ h[j - k] \in Int
        BY <1>9, <2>2, <4>1
      <4> QED
        BY <1>1, <2>1, <3>3, <4>1, <4>2 DEF k
    <3> QED
      BY <1>1, <1>9, <3>1, <3>2, <3>3 DEF k
  <2> QED
    BY <2>1, <2>3
<1>12. \A i \in 1..(k + m) : all[i] = Z[c[i]] /\ (c[i] <= k \/ Taken(Z[c[i]]))
  <2>1. SUFFICES ASSUME NEW i \in 1..(k + m)
                 PROVE  all[i] = Z[c[i]] /\ (c[i] <= k \/ Taken(Z[c[i]]))
    OBVIOUS
  <2>2. c[i] \in 1..Len(Z)
    BY <1>11
  <2>3. CASE i <= k
    <3>1. c[i] = i
      BY <2>3
    <3> HIDE DEF c
    <3> QED
      BY <1>4, <1>7, <2>2, <2>3, <3>1
  <2>4. CASE ~(i <= k)
    <3>1. i - k \in 1..m /\ c[i] = h[i - k] + k
      BY <1>1, <1>9, <1>10, <2>4 DEF k
    <3> HIDE DEF c
    <3>2. h[i - k] \in 1..Len(page) /\ h[i - k] \in I
      BY <1>9, <3>1
    <3>3. ~(c[i] <= k) /\ c[i] - k = h[i - k]
      BY <1>1, <3>1, <3>2 DEF k, page
    <3>4. Z[c[i]] = page[h[i - k]]
      BY <1>4, <2>2, <3>3
    <3>5. all[i] = page[h[i - k]]
      BY <1>6, <1>7, <2>4, <3>1 DEF m
    <3> QED
      BY <1>8, <3>2, <3>4, <3>5
  <2> QED
    BY <2>3, <2>4
<1>13. \A z \in 1..Len(Z) : z <= k \/ Taken(Z[z]) => \E i \in 1..(k + m) : c[i] = z
  <2>1. SUFFICES ASSUME NEW z \in 1..Len(Z), z <= k \/ Taken(Z[z])
                 PROVE  \E i \in 1..(k + m) : c[i] = z
    OBVIOUS
  <2>2. CASE z <= k
    <3>1. z \in 1..(k + m) /\ c[z] = z
      BY <1>1, <1>4, <1>9, <2>2 DEF k, page
    <3> QED
      BY <3>1
  <2>3. CASE ~(z <= k)
    <3>1. z - k \in 1..Len(page) /\ Z[z] = page[z - k]
      BY <1>4, <2>3
    <3>2. z - k \in I
      BY <2>1, <2>3, <3>1 DEF I, page
    <3>3. PICK i \in 1..m : h[i] = z - k
      BY <1>6, <3>2 DEF m
    <3>4. i + k \in 1..(k + m) /\ ~(i + k <= k) /\ (i + k) - k = i
      BY <1>1, <1>9 DEF k
    <3>5. c[i + k] = z
      BY <1>1, <1>4, <3>3, <3>4 DEF k, page
    <3> QED
      BY <3>4, <3>5
  <2> QED
    BY <2>2, <2>3
<1> HIDE DEF c
<1>14. PICK g : /\ F \in Seq(Entries) /\ Thins(F, Z, g)
                /\ \A i \in 1..Len(F) : g[i] <= k \/ Taken(Z[g[i]])
                /\ \A z \in 1..Len(Z) :
                     z <= k \/ Taken(Z[z]) =>
                       \/ \E i \in 1..Len(F) : g[i] = z
                       \/ Full(F) /\ Len(F) = MaxResults + 1 /\ g[MaxResults + 1] < z
  <2>1. CASE ~Full(all)
    <3>1. F = all
      BY <1>3, <2>1 DEF F, all, matched, I, found, page
    <3> QED
      BY <1>7, <1>11, <1>12, <1>13, <3>1 DEF Thins
  <2>2. CASE Full(all)
    <3> DEFINE most == MaxResults + 1
    <3>1. most \in Nat /\ 1 <= most /\ most <= k + m /\ report.ask.kind = "query"
      <4>1. Len(all) > MaxResults
        BY <2>2 DEF Full
      <4> QED
        BY <1>1, <1>7, <1>9, <2>2, <4>1, PageAssumption DEF Full, k
    <3>2. F = SubSeq(all, 1, most)
      BY <1>3, <2>2 DEF F, all, matched, I, found, page
    <3> HIDE DEF most
    <3>3. 1 \in Int /\ most \in Int /\ \A i \in 1..most : i \in 1..(k + m)
      BY <1>1, <1>9, <3>1 DEF k
    <3>4. \A i \in 1..most : all[i] \in Entries
      BY <1>7, <3>3
    <3>5. /\ F \in Seq(Entries) /\ Len(F) = most
          /\ \A i \in 1..most : F[i] = all[i]
      <4>1. /\ F \in Seq(Entries)
            /\ Len(F) = IF 1 <= most THEN most - 1 + 1 ELSE 0
            /\ \A i \in 1..(most - 1 + 1) : F[i] = all[1 + i - 1]
        BY <3>2, <3>3, <3>4, SubSeqProperties
      <4>2. most - 1 + 1 = most /\ \A i \in 1..most : 1 + i - 1 = i
        BY <3>1
      <4> QED
        BY <3>1, <4>1, <4>2
    <3> DEFINE g == [i \in 1..most |-> c[i]]
    <3>6. \A i \in 1..most : g[i] = c[i] /\ i \in 1..(k + m)
      BY <3>3
    <3>7. g \in [1..Len(F) -> 1..Len(Z)]
      BY <1>11, <3>3, <3>5
    <3> HIDE DEF g
    <3>8. Thins(F, Z, g)
      BY <1>11, <1>12, <3>5, <3>6, <3>7 DEF Thins
    <3>9. \A i \in 1..Len(F) : g[i] <= k \/ Taken(Z[g[i]])
      BY <1>12, <3>5, <3>6
    <3>10. Full(F)
      BY <3>1, <3>5, PageAssumption DEF Full, most
    <3>11. ASSUME NEW z \in 1..Len(Z), z <= k \/ Taken(Z[z])
           PROVE  (\E i \in 1..Len(F) : g[i] = z) \/ g[most] < z
      <4>1. PICK i \in 1..(k + m) : c[i] = z
        BY <1>13, <3>11
      <4>2. CASE i <= most
        BY <3>1, <3>5, <3>6, <4>1, <4>2
      <4>3. CASE ~(i <= most)
        <5>1. most \in 1..(k + m) /\ most < i /\ most \in 1..most
          BY <3>1, <3>3, <4>3
        <5> QED
          BY <1>11, <3>6, <4>1, <5>1
      <4> QED
        BY <4>2, <4>3
    <3> QED
      BY <3>5, <3>8, <3>9, <3>10, <3>11 DEF most
  <2> QED
    BY <2>1, <2>2
<1> QED
  BY <1>1, <1>3, <1>4, <1>14 DEF F, Z, k, page, found

\* An entry held stays so, whatever is written.
LEMMA HeldStays ==
  ASSUME RowsTyped, NEW n \in Names, Changes(n), NEW e \in Entries, Held(e)
  PROVE  Held(e)'
<1>1. e.version \in Nat /\ e.id \notin unused /\ e.id \notin unused'
  BY DEF Held, Entries, Changes
<1>2. ASSUME NEW m \in Live', rows'[m].id = e.id
      PROVE  e.version <= rows'[m].version
  <2>1. m \in Live \ {n} \/ m = n
    BY RowsStayTyped
  <2>2. CASE m \in Live \ {n}
    BY <1>2, <2>2 DEF Changes, Live, Held
  <2>3. CASE m = n
    <3>1. rows'[n] # None
      BY <2>3 DEF Live
    <3>2. rows[n] # None /\ rows'[n].id = rows[n].id /\ rows'[n].version = rows[n].version + 1
      BY <1>1, <1>2, <2>3, <3>1 DEF Changes
    <3>3. n \in Live
      BY <3>2 DEF Live
    <3>4. rows[n].version \in Int
      BY <3>3 DEF RowsTyped
    <3> QED
      BY <1>1, <1>2, <2>3, <3>2, <3>3, <3>4 DEF Held
  <2> QED
    BY <2>1, <2>2, <2>3
<1> QED
  BY <1>1, <1>2 DEF Held

\* What was observed grows, and no count goes back.
LEMMA HistoryGrows ==
  ASSUME RowsTyped, RowsTyped', HistoryTyped, Observed, ~Is("idle"), UNCHANGED report
  PROVE  /\ HistoryTyped' /\ gone <= gone' /\ come <= come'
         /\ \A id \in Ids : ever'[id] = ever[id] \cup {ObjectOf(id)'}
<1>1. \A id \in Ids : ever'[id] = ever[id] \cup {ObjectOf(id)'}
  BY DEF Observed
<1>2. (RowsTyped => FiniteRows)'
  BY CandidatesFinite, PTL
<1>3. IsFiniteSet(IdsOf(Candidates)) /\ IsFiniteSet(IdsOf(Candidates)')
  <2>1. Candidates \in SUBSET Names /\ Candidates' \in SUBSET Names
    BY <1>2, CandidatesFinite DEF FiniteRows
  <2>2. IsFiniteSet(IdsOf(Candidates))
    BY <2>1, CandidatesFinite DEF FiniteRows
  <2>3. IsFiniteSet(IdsOf(Candidates)')
    BY <1>2, <2>1 DEF FiniteRows
  <2> QED
    BY <2>2, <2>3
<1>4. /\ Cardinality(IdsOf(Candidates) \ IdsOf(Candidates)') \in Nat
      /\ Cardinality(IdsOf(Candidates)' \ IdsOf(Candidates)) \in Nat
  BY <1>3, FS_Difference, FS_CardinalityType
<1>5. /\ gone' = gone + Cardinality(IdsOf(Candidates) \ IdsOf(Candidates)')
      /\ come' = come + Cardinality(IdsOf(Candidates)' \ IdsOf(Candidates))
  BY DEF Observed
<1>6. gone' \in Nat /\ come' \in Nat /\ gone <= gone' /\ come <= come'
  <2> DEFINE a == Cardinality(IdsOf(Candidates) \ IdsOf(Candidates)')
             b == Cardinality(IdsOf(Candidates)' \ IdsOf(Candidates))
  <2>1. a \in Nat /\ b \in Nat /\ gone' = gone + a /\ come' = come + b
    BY <1>4, <1>5
  <2> HIDE DEF a, b
  <2> QED
    BY <2>1 DEF HistoryTyped
<1>7. (RowsTyped => ObjectsHeld)'
  BY ObjectHeld, PTL
<1>8. ASSUME NEW id \in Ids
      PROVE  /\ IsFiniteSet(ever'[id]) /\ ever'[id] \subseteq Known \cup {None}
             /\ ObjectOf(id)' \in ever'[id]
  <2>1. IsFiniteSet(ever[id]) /\ ever[id] \subseteq Known \cup {None}
    BY DEF HistoryTyped
  <2>2. ObjectOf(id)' \in Known \cup {None}
    BY <1>7 DEF ObjectsHeld
  <2>3. IsFiniteSet(ever[id] \cup {ObjectOf(id)'})
    BY <2>1, FS_AddElement
  <2> QED
    BY <1>1, <2>1, <2>2, <2>3
<1> QED
  BY <1>1, <1>6, <1>8 DEF HistoryTyped

\* A write keeps the types.
LEMMA WriteKeepsTypes ==
  ASSUME Types, NEW n \in Names, Changes(n)
  PROVE  Types'
<1>1. RowsTyped' /\ report' = report
  BY RowsStayTyped DEF Types, Changes
<1>2. ReportTyped'
  BY <1>1 DEF Types, ReportTyped
<1>3. CASE Is("idle")
  BY <1>1, <1>2, <1>3 DEF Types, Changes, HistoryTyped, EntriesHeld, DataTyped, Is, history
<1>4. CASE ~Is("idle")
  <2>1. Observed /\ RowsTyped /\ HistoryTyped
    BY <1>4 DEF Changes, Types
  <2>2. /\ HistoryTyped'
        /\ \A id \in Ids : ever'[id] = ever[id] \cup {ObjectOf(id)'}
    BY <1>1, <1>4, <2>1, HistoryGrows
  <2>3. report.page \in Seq(Entries) /\ report.found \in Seq(Entries)
    BY <1>4, Stage DEF Types
  <2>4. EntriesHeld'
    <3>1. \A e \in Entries : Held(e) => Held(e)'
      BY <2>1, HeldStays
    <3>2. \A i \in DOMAIN report.page : Held(report.page[i]) /\ report.page[i] \in Entries
      BY <1>4, <2>3 DEF Types, EntriesHeld
    <3>3. \A i \in DOMAIN report.found : Held(report.found[i]) /\ report.found[i] \in Entries
      BY <1>4, <2>3 DEF Types, EntriesHeld
    <3>4. \A i \in DOMAIN report.page : Held(report.page[i])'
      BY <1>1, <3>1, <3>2 DEF Held, Live
    <3>5. \A i \in DOMAIN report.found : Held(report.found[i])'
      BY <1>1, <3>1, <3>3 DEF Held, Live
    <3> QED
      BY <1>1, <3>4, <3>5 DEF EntriesHeld, Held
  <2>5. DataTyped'
    <3>1. SUFFICES ASSUME Is("loaded")
                   PROVE  DataTyped'
      BY <1>1 DEF DataTyped, Is
    <3>2. \A i \in DOMAIN report.found : report.found[i].id \in Ids
      <4>1. \A i \in DOMAIN report.found : report.found[i] \in Entries
        BY <2>3
      <4> QED
        BY <4>1 DEF Entries
    <3>3. \A i \in DOMAIN report.data : report.data[i].object \in ever'[report.found[i].id]
      BY <2>2, <3>1, <3>2 DEF Types, DataTyped
    <3> QED
      BY <1>1, <3>1, <3>3 DEF Types, DataTyped, Is, Sends
  <2> QED
    BY <1>1, <1>2, <2>2, <2>4, <2>5 DEF Types
<1> QED
  BY <1>3, <1>4

\* So do the steps of a report: its beginning,
LEMMA BeginKeepsTypes ==
  ASSUME Types, NEW q \in Questions, Begin(q)
  PROVE  Types'
<1>1. RowsTyped'
  BY DEF Types, Begin, RowsTyped, Live
<1>2. /\ DOMAIN report' = Fields /\ report'.pc \in {"names", "page"} /\ report'.ask = q
      /\ report'.offset = 0 /\ report'.page = <<>> /\ report'.found = <<>>
  BY DEF Begin, Fields
<1>3. <<>> \in Seq(Entries)
  BY EmptySeq
<1>4. ReportTyped'
  BY <1>2, <1>3 DEF ReportTyped, Stages
<1>5. HistoryTyped'
  <2>1. \A id \in Ids : ObjectOf(id) \in Known \cup {None} /\ ever'[id] = {ObjectOf(id)}
    BY ObjectHeld DEF Types, Begin, ObjectsHeld
  <2>2. \A id \in Ids : ObjectOf(id)' = ObjectOf(id)
    BY DEF Begin, ObjectOf, IdsOf, NameOf, Live
  <2>3. \A id \in Ids : IsFiniteSet({ObjectOf(id)})
    BY FS_Singleton
  <2> QED
    BY <2>1, <2>2, <2>3 DEF HistoryTyped, Types, Begin
<1>6. EntriesHeld' /\ DataTyped'
  BY <1>2 DEF EntriesHeld, DataTyped, Is
<1> QED
  BY <1>1, <1>4, <1>5, <1>6 DEF Types

\* What a step of a report leaves alone.
LEMMA ReadsKeep ==
  ASSUME RowsTyped, HistoryTyped, ~Is("idle"), UNCHANGED <<rows, unused, writes, history>>
  PROVE  /\ RowsTyped' /\ (~Is("idle")' => HistoryTyped')
         /\ \A e : Held(e)' <=> Held(e)
         /\ \A id : ObjectOf(id)' = ObjectOf(id)
<1>1. RowsTyped'
  BY DEF RowsTyped, Live
<1>2. \A e : Held(e)' <=> Held(e)
  BY DEF Held, Live
<1>3. \A id : ObjectOf(id)' = ObjectOf(id)
  BY DEF ObjectOf, IdsOf, NameOf, Live
<1>4. HistoryTyped'
  BY <1>3 DEF HistoryTyped, history
<1> QED
  BY <1>1, <1>2, <1>3, <1>4

\* the rows of a multiget,
LEMMA ReadNamesKeepsTypes ==
  ASSUME Types, ReadNames
  PROVE  Types'
<1> DEFINE names == report.ask.names
           I == {i \in DOMAIN names : names[i] \in Live}
           there == At(names, I)
<1>1. /\ ~Is("idle") /\ DOMAIN report = Fields /\ report.ask \in Questions
      /\ report.offset \in Nat /\ report.page = <<>>
  BY Stage DEF Types, ReadNames, Is
<1>2. /\ DOMAIN report' = Fields /\ report'.pc = "collected" /\ report'.ask = report.ask
      /\ report'.offset = report.offset /\ report'.page = <<>>
      /\ report'.found = [i \in DOMAIN there |-> Entry(there[i])]
  BY <1>1 DEF ReadNames, Fields
<1>3. names \in Seq(Names)
  BY <1>1, QuestionsAssumption
<1>4. there \in Seq(Names) /\ \A i \in 1..Len(there) : there[i] \in Live
  <2>1. I \in SUBSET DOMAIN names /\ \A i \in I : names[i] \in Live
    OBVIOUS
  <2> HIDE DEF I, names
  <2> QED
    BY <1>3, <2>1, AtIs
<1> HIDE DEF there
<1>5. DOMAIN there = 1..Len(there) /\ Len(there) \in Nat
  BY <1>4
<1>6. \A i \in 1..Len(there) : Entry(there[i]) \in Entries /\ Held(Entry(there[i]))
  BY <1>4, EntriesTyped DEF Types
<1>7. report'.found \in Seq(Entries) /\ \A i \in DOMAIN report'.found : Held(report'.found[i])
  <2>1. report'.found = [i \in 1..Len(there) |-> Entry(there[i])]
    BY <1>2, <1>5
  <2>2. report'.found \in Seq(Entries)
    BY <1>5, <1>6, <2>1, IsASeq
  <2> QED
    BY <1>6, <2>1, <2>2
<1>8. ~Is("idle")' /\ UNCHANGED <<rows, unused, writes, history>>
  BY <1>2 DEF ReadNames, Is
<1>9. RowsTyped' /\ HistoryTyped' /\ \A e : Held(e)' <=> Held(e)
  BY <1>1, <1>8, ReadsKeep DEF Types
<1>10. ReportTyped'
  BY <1>1, <1>2, <1>7, EmptySeq DEF ReportTyped, Stages
<1>11. EntriesHeld'
  <2>1. \A i \in DOMAIN report'.found : Held(report.found[i])'
    BY <1>7, <1>9 DEF Held, Live
  <2> QED
    BY <1>2, <2>1 DEF EntriesHeld, Held
<1>12. DataTyped'
  BY <1>2 DEF DataTyped, Is
<1> QED
  BY <1>9, <1>10, <1>11, <1>12 DEF Types

\* a page of rows,
LEMMA ReadPageKeepsTypes ==
  ASSUME Types, ReadPage
  PROVE  Types'
<1>1. /\ ~Is("idle") /\ DOMAIN report = Fields /\ report.ask \in Questions
      /\ report.offset \in Nat /\ report.page = <<>> /\ report.found \in Seq(Entries)
  BY Stage DEF Types, ReadPage, Is
<1>2. /\ DOMAIN report' = Fields /\ report'.pc \in {"collected", "contents"} /\ report'.ask = report.ask
      /\ report'.offset \in Nat /\ report'.found = report.found
      /\ report'.page \in Seq(Entries) /\ \A i \in DOMAIN report'.page : Held(report'.page[i])
      /\ report'.pc = "contents" \/ report'.page = <<>>
  <2> DEFINE n == Cardinality(Candidates)
             page(last) == [i \in 1..(last - report.offset) |-> Entry(Ordered[report.offset + i])]
  <2>1. CASE report' = [report EXCEPT !.pc = "collected"]
    <3>1. /\ DOMAIN report' = Fields /\ report'.pc = "collected" /\ report'.ask = report.ask
          /\ report'.offset = report.offset /\ report'.found = report.found /\ report'.page = report.page
      BY <1>1, <2>1 DEF Fields
    <3> QED
      BY <1>1, <3>1
  <2>2. ASSUME NEW last \in Nat, ReadsUpTo(last)
        PROVE  <1>2!:
    <3>1. /\ report.offset < last /\ last <= n
          /\ report' = [report EXCEPT !.pc = "contents", !.offset = last, !.page = page(last)]
          /\ n \in Nat /\ Ordered \in [1..n -> Candidates] /\ Candidates \subseteq Live
      BY <2>2, OrderedIs, CandidatesFinite DEF ReadsUpTo, Types, FiniteRows, OrderedRight
    <3>2. last - report.offset \in Nat
      BY <1>1, <3>1
    <3> HIDE DEF n
    <3>3. ASSUME NEW i \in 1..(last - report.offset)
          PROVE  Entry(Ordered[report.offset + i]) \in Entries /\ Held(Entry(Ordered[report.offset + i]))
      <4>1. report.offset + i \in 1..n
        BY <1>1, <3>1, <3>2
      <4>2. Ordered[report.offset + i] \in Live
        BY <3>1, <4>1
      <4> QED
        BY <4>2, EntriesTyped DEF Types
    <3>4. page(last) \in Seq(Entries)
      BY <3>2, <3>3, IsASeq
    <3>5. \A i \in DOMAIN page(last) : Held(page(last)[i])
      BY <3>3
    <3> HIDE DEF page
    <3> QED
      BY <1>1, <3>1, <3>4, <3>5 DEF Fields
  <2> HIDE DEF n
  <2> QED
    BY <2>1, <2>2, PageRead DEF Types
<1>3. ~Is("idle")' /\ UNCHANGED <<rows, unused, writes, history>>
  BY <1>2 DEF ReadPage, Is
<1>4. RowsTyped' /\ HistoryTyped' /\ \A e : Held(e)' <=> Held(e)
  BY <1>1, <1>3, ReadsKeep DEF Types
<1>5. ReportTyped'
  BY <1>1, <1>2 DEF ReportTyped, Stages
<1>6. EntriesHeld'
  <2>1. \A i \in DOMAIN report.found : Held(report.found[i])
    BY <1>1 DEF Types, EntriesHeld
  <2>2. \A i \in DOMAIN report'.found : Held(report.found[i])'
    BY <1>2, <1>4, <2>1 DEF Held, Live
  <2>3. \A i \in DOMAIN report'.page : Held(report.page[i])'
    BY <1>2, <1>4 DEF Held, Live
  <2> QED
    BY <2>2, <2>3 DEF EntriesHeld, Held
<1>7. DataTyped'
  BY <1>2 DEF DataTyped, Is
<1> QED
  BY <1>4, <1>5, <1>6, <1>7 DEF Types

\* Every entry that is found or on the page read is held.
LEMMA EntriesAreHeld ==
  ASSUME Types, ~Is("idle")
  PROVE  /\ \A i \in 1..Len(report.found) : report.found[i] \in Entries /\ Held(report.found[i])
                                             /\ report.found[i].id \in Ids
         /\ \A i \in 1..Len(report.page) : report.page[i] \in Entries /\ Held(report.page[i])
                                            /\ report.page[i].id \in Ids
<1>1. report.found \in Seq(Entries) /\ report.page \in Seq(Entries)
  BY Stage DEF Types
<1>2. \A e \in Entries : e.id \in Ids
  BY DEF Entries
<1>3. \A i \in 1..Len(report.found) : report.found[i] \in Entries /\ Held(report.found[i])
  BY <1>1 DEF Types, EntriesHeld
<1>4. \A i \in 1..Len(report.page) : report.page[i] \in Entries /\ Held(report.page[i])
  BY <1>1 DEF Types, EntriesHeld
<1> QED
  BY <1>2, <1>3, <1>4

\* the texts of the page,
LEMMA ReadContentsKeepsTypes ==
  ASSUME Types, ReadContents
  PROVE  Types'
<1> DEFINE Z == report.found \o report.page
           F == report'.found
           k == Len(report.found)
<1>1. /\ ~Is("idle") /\ report.ask \in Questions /\ report.offset \in Nat
      /\ report.found \in Seq(Entries) /\ report.page \in Seq(Entries)
  BY Stage DEF Types, ReadContents, Is
<1>2. /\ DOMAIN report' = Fields
      /\ report'.ask = report.ask /\ report'.offset = report.offset /\ report'.page = <<>>
      /\ report'.pc = IF Full(F) \/ LastPage(report.page) THEN "collected" ELSE "page"
      /\ k \in Nat /\ F \in Seq(Entries)
      /\ \A z \in 1..Len(Z) : IF z <= k THEN Z[z] = report.found[z]
                              ELSE z - k \in 1..Len(report.page) /\ Z[z] = report.page[z - k]
      /\ \E g : Thins(F, Z, g)
  BY ContentsRead DEF Types
<1> HIDE DEF Z, F
<1>3. \A i \in 1..Len(F) : Held(F[i])
  <2>1. PICK g : Thins(F, Z, g)
    BY <1>2
  <2>2. /\ \A i \in 1..Len(report.page) : Held(report.page[i])
        /\ \A i \in 1..Len(report.found) : Held(report.found[i])
    BY <1>1, EntriesAreHeld
  <2>3. ASSUME NEW i \in 1..Len(F)
        PROVE  Held(F[i])
    <3>1. g[i] \in 1..Len(Z) /\ F[i] = Z[g[i]]
      BY <2>1 DEF Thins
    <3>2. CASE g[i] <= k
      <4>1. g[i] \in 1..k
        BY <1>2, <3>1, <3>2
      <4> QED
        BY <1>2, <2>2, <3>1, <3>2, <4>1
    <3>3. CASE ~(g[i] <= k)
      BY <1>2, <2>2, <3>1, <3>3
    <3> QED
      BY <3>2, <3>3
  <2> QED
    BY <2>3
<1>4. ~Is("idle")' /\ UNCHANGED <<rows, unused, writes, history>>
  BY <1>2 DEF ReadContents, Is
<1>5. RowsTyped' /\ HistoryTyped' /\ \A e : Held(e)' <=> Held(e)
  BY <1>1, <1>4, ReadsKeep DEF Types
<1>6. ReportTyped'
  BY <1>1, <1>2, EmptySeq DEF ReportTyped, Stages, F
<1>7. EntriesHeld'
  <2>1. F \in Seq(Entries) /\ DOMAIN F = 1..Len(F)
    BY <1>2
  <2>2. \A i \in DOMAIN report'.found : Held(report.found[i])'
    BY <1>3, <1>4, <2>1 DEF Held, Live, F
  <2> QED
    BY <1>2, <2>2 DEF EntriesHeld, Held
<1>8. DataTyped'
  BY <1>2 DEF DataTyped, Is
<1> QED
  BY <1>5, <1>6, <1>7, <1>8 DEF Types

\* The other steps only read what was found.
LEMMA SameFound ==
  ASSUME Types, ~Is("idle"), DOMAIN report' = Fields, report'.pc \in Stages,
         report'.ask = report.ask, report'.offset = report.offset,
         report'.page = report.page, report'.found = report.found,
         report.page = <<>>,
         UNCHANGED <<rows, unused, writes, history>>, DataTyped'
  PROVE  Types'
<1>1. /\ report.ask \in Questions /\ report.offset \in Nat
      /\ report.found \in Seq(Entries) /\ report.page \in Seq(Entries)
  BY Stage DEF Types
<1>2. ReportTyped'
  BY <1>1 DEF ReportTyped
<1>3. ~Is("idle")'
  BY DEF Stages, Is
<1>4. RowsTyped' /\ HistoryTyped'
  BY <1>3, ReadsKeep DEF Types
<1>5. EntriesHeld'
  BY DEF Types, EntriesHeld, Held, Live
<1> QED
  BY <1>2, <1>4, <1>5 DEF Types

\* the texts of what was found,
LEMMA LoadDataKeepsTypes ==
  ASSUME Types, LoadData
  PROVE  Types'
<1> DEFINE found == report.found
           most == IF Full(found) THEN MaxResults ELSE Len(found)
           read(id) == IF ObjectOf(id) = None THEN [version |-> 0, object |-> None]
                       ELSE [version |-> rows[NameOf(id)].version, object |-> ObjectOf(id)]
<1>1. ~Is("idle") /\ DOMAIN report = Fields /\ found \in Seq(Entries) /\ report.page = <<>>
  BY Stage DEF Types, LoadData, Is
<1>2. /\ DOMAIN report' = Fields /\ report'.pc = "loaded"
      /\ report'.ask = report.ask /\ report'.offset = report.offset
      /\ report'.page = report.page /\ report'.found = found
      /\ report'.data = [i \in 1..most |-> read(found[i].id)]
  BY <1>1 DEF LoadData, Fields
<1>3. UNCHANGED <<rows, unused, writes, history>> /\ Sends
  BY DEF LoadData
<1>4. 1..most \subseteq 1..Len(found) /\ DOMAIN found = 1..Len(found)
  BY <1>1, PageAssumption DEF Full
<1>5. ASSUME NEW i \in 1..most
      PROVE  /\ read(found[i].id).version = 0 \/ found[i].version <= read(found[i].id).version
             /\ read(found[i].id).object \in ever[found[i].id]
  <2>1. found[i] \in Entries /\ Held(found[i]) /\ found[i].id \in Ids
    BY <1>1, <1>4, EntriesAreHeld
  <2>2. ObjectOf(found[i].id) \in ever[found[i].id]
    BY <1>1, <2>1 DEF Types, HistoryTyped
  <2>3. CASE ObjectOf(found[i].id) = None
    BY <2>2, <2>3
  <2>4. CASE ObjectOf(found[i].id) # None
    <3>1. PICK n \in Live : rows[n].id = found[i].id
      BY <2>1, <2>4, ObjectHeld DEF Types, ObjectsHeld
    <3>2. NameOf(found[i].id) = n
      BY <3>1, ObjectHeld DEF Types, ObjectsHeld
    <3>3. found[i].version <= rows[n].version
      BY <2>1, <3>1 DEF Held
    <3> QED
      BY <2>2, <2>4, <3>2, <3>3
  <2> QED
    BY <2>3, <2>4
<1>6. DataTyped'
  <2> DEFINE d == [i \in 1..most |-> read(found[i].id)]
  <2>1. DOMAIN d = 1..most /\ \A i \in 1..most : d[i] = read(found[i].id)
    OBVIOUS
  <2> HIDE DEF d, most, read
  <2>2. \A i \in 1..most : /\ d[i].version = 0 \/ found[i].version <= d[i].version
                           /\ d[i].object \in ever[found[i].id]
    BY <1>5, <2>1
  <2>3. report'.data = d
    BY <1>2 DEF d
  <2> HIDE DEF found
  <2> QED
    BY <1>2, <1>3, <1>4, <2>1, <2>2, <2>3 DEF DataTyped, Sends, history, found
<1>7. report'.pc \in Stages
  BY <1>2 DEF Stages
<1> QED
  BY <1>1, <1>2, <1>3, <1>6, <1>7, SameFound

\* and the answer.
LEMMA AnswersKeepTypes ==
  ASSUME Types, Answer \/ Fail \/ AnswerFreeBusy
  PROVE  Types'
<1>1. ~Is("idle") /\ DOMAIN report = Fields /\ report.page = <<>>
  BY Stage DEF Types, Answer, Fail, AnswerFreeBusy, Is
<1>2. /\ DOMAIN report' = Fields /\ report'.pc \in {"answered", "failed"}
      /\ report'.ask = report.ask /\ report'.offset = report.offset
      /\ report'.page = report.page /\ report'.found = report.found
      /\ UNCHANGED <<rows, unused, writes, history>>
  <2>1. CASE Answer
    BY <1>1, <2>1 DEF Answer, Fields
  <2>2. CASE Fail
    BY <1>1, <2>2 DEF Fail, Fields
  <2>3. CASE AnswerFreeBusy
    BY <1>1, <2>3 DEF AnswerFreeBusy, Fields
  <2> QED
    BY <2>1, <2>2, <2>3
<1>3. DataTyped' /\ report'.pc \in Stages
  BY <1>2 DEF DataTyped, Is, Stages
<1> QED
  BY <1>1, <1>2, <1>3, SameFound

\* The types hold at first.
LEMMA InitTypes ==
  ASSUME Init
  PROVE  Types
<1>1. PICK start \in Starts :
        /\ rows = [n \in Names |-> IF start.calendar[n] = None THEN None
                                   ELSE Row(FirstId[n], 1, start.calendar[n])]
        /\ writes = MaxWrites - start.writes
  BY DEF Init
<1>2. start.writes \in 0..MaxWrites /\ MaxWrites \in Nat
  BY RowsAssumption, PageAssumption
<1>3. ASSUME NEW n \in Live
      PROVE  /\ n \in Names /\ rows[n].id = FirstId[n] /\ rows[n].version = 1
             /\ rows[n].object \in Known
             /\ rows[n].index = ComputeTimeRangeIndex(rows[n].object)
  <2>1. n \in Names /\ rows[n] = Row(FirstId[n], 1, start.calendar[n]) /\ start.calendar[n] # None
    BY <1>1 DEF Live
  <2>2. start.calendar[n] \in Known
    BY <2>1 DEF Known
  <2> QED
    BY <2>1, <2>2 DEF Row
<1>4. unused = Ids \ IdsOf(Live) /\ report = Idle /\ gone = 0 /\ come = 0
  BY DEF Init
<1>5. \A n \in Live : rows[n].id \in Ids \ unused
  BY <1>3, <1>4, RowsAssumption DEF IdsOf
<1>6. \A m, n \in Live : rows[m].id = rows[n].id => m = n
  <2>1. \A m, n \in Names : FirstId[m] = FirstId[n] => m = n
    BY RowsAssumption
  <2> QED
    BY <1>3, <2>1
<1>7. writes \in 0..MaxWrites /\ DOMAIN rows = Names /\ 1 \in 1..(writes + 1)
  BY <1>1, <1>2
<1>8. RowsTyped
  BY <1>3, <1>4, <1>5, <1>6, <1>7 DEF RowsTyped
<1> QED
  BY <1>4, <1>8 DEF Types, ReportTyped, HistoryTyped, EntriesHeld, DataTyped, Is, Idle

\* Every step keeps the types.
LEMMA StepKeepsTypes ==
  ASSUME Types, [Next]_vars
  PROVE  Types'
<1>1. CASE \E n \in Names : Delete(n) \/ \E o \in Objects : Put(n, o)
  <2>1. PICK n \in Names : Changes(n)
    BY <1>1, WritesChange DEF Types
  <2> QED
    BY <2>1, WriteKeepsTypes
<1>2. CASE \E q \in Questions : Begin(q)
  BY <1>2, BeginKeepsTypes
<1>3. CASE ReadNames
  BY <1>3, ReadNamesKeepsTypes
<1>4. CASE ReadPage
  BY <1>4, ReadPageKeepsTypes
<1>5. CASE ReadContents
  BY <1>5, ReadContentsKeepsTypes
<1>6. CASE LoadData
  BY <1>6, LoadDataKeepsTypes
<1>7. CASE Answer \/ Fail \/ AnswerFreeBusy
  BY <1>7, AnswersKeepTypes
<1>8. CASE UNCHANGED vars
  BY <1>8 DEF vars, history, Types, RowsTyped, ReportTyped, HistoryTyped, EntriesHeld, DataTyped,
     Live, Held, Is, Idle, Sends, ObjectOf, IdsOf, NameOf
<1> QED
  BY <1>1, <1>2, <1>3, <1>4, <1>5, <1>6, <1>7, <1>8 DEF Next

-----------------------------------------------------------------------------
\* No step hands out an etag younger than its text.
LEMMA FreshStep ==
  ASSUME Types, FreshData, [Next]_vars
  PROVE  FreshData'
<1>1. SUFFICES ASSUME report' # report
               PROVE  FreshData'
  BY DEF FreshData, Is, Sends
<1>2. CASE Answer
  <2>1. DOMAIN report = Fields /\ Is("loaded")
    BY <1>2, Stage DEF Types, Answer, Is
  <2>2. report'.answer = [i \in DOMAIN report.data |->
                            [etag |-> report.found[i].version, data |-> report.data[i].version]]
    BY <1>2, <2>1 DEF Answer, Etag, Fields
  <2>3. \A i \in DOMAIN report.data :
          report.data[i].version = 0 \/ report.found[i].version <= report.data[i].version
    BY <2>1 DEF Types, DataTyped
  <2> QED
    BY <2>2, <2>3 DEF FreshData
<1>3. CASE AnswerFreeBusy
  <2>1. DOMAIN report = Fields
    BY <1>3, Stage DEF Types, AnswerFreeBusy, Is
  <2> QED
    BY <1>3, <2>1 DEF AnswerFreeBusy, FreshData, Sends, Fields
<1>4. CASE ~(Answer \/ AnswerFreeBusy)
  <2>1. report'.pc # "answered"
    <3>1. CASE \E n \in Names : Delete(n) \/ \E o \in Objects : Put(n, o)
      BY <1>1, <3>1 DEF Delete, Put, Write
    <3>2. CASE \E q \in Questions : Begin(q)
      BY <3>2 DEF Begin
    <3>3. CASE ReadContents
      BY <3>3, ContentsRead DEF Types
    <3>4. CASE ReadPage \/ ReadNames \/ LoadData \/ Fail
      <4>1. DOMAIN report = Fields
        BY <3>4, Stage DEF Types, ReadPage, ReadNames, LoadData, Fail, Is
      <4>2. CASE ReadPage
        BY <4>1, <4>2 DEF ReadPage, Fields
      <4>3. CASE ReadNames
        BY <4>1, <4>3 DEF ReadNames, Fields
      <4>4. CASE LoadData
        BY <4>1, <4>4 DEF LoadData, Fields
      <4>5. CASE Fail
        BY <4>1, <4>5 DEF Fail, Fields
      <4> QED
        BY <3>4, <4>2, <4>3, <4>4, <4>5
    <3> QED
      BY <1>1, <1>4, <3>1, <3>2, <3>3, <3>4 DEF Next, vars
  <2> QED
    BY <2>1 DEF FreshData, Is
<1> QED
  BY <1>2, <1>3, <1>4

\* Whatever is written while a report runs, rows keep ids of their own and
\* the index of their object, and the report holds rows as they were.
THEOREM RowsStayRight == Spec => []Types
<1>1. Init => Types
  BY InitTypes
<1>2. Types /\ [Next]_vars => Types'
  BY StepKeepsTypes
<1> QED
  BY <1>1, <1>2, PTL DEF Spec

\* A report reads a row and its text in two statements: the etag it answers
\* is never younger than the text it comes with.
THEOREM EtagsAreOld == Spec => []FreshData
<1>1. Init => FreshData
  BY DEF Init, FreshData, Is, Idle
<1>2. Types /\ FreshData /\ [Next]_vars => FreshData'
  BY FreshStep
<1> QED
  BY <1>1, <1>2, RowsStayRight, PTL DEF Spec

\* In no zone asked for do two times of a rule swap, and an UNTIL cuts a rule
\* at the same time in all of them.
Clocks == \A o \in Known, q \in Questions : Steady(o, q.zone) /\ UntilHolds(o, q.zone)

\* What is asked of is an object that is known, with its index.
LEMMA AskedKnown ==
  ASSUME Types, NEW row \in Asked
  PROVE  /\ row.object \in Known /\ IsObject(row.object)
         /\ row.index = ComputeTimeRangeIndex(row.object)
         /\ report.ask \in Questions /\ IsZone(report.ask.zone)
         /\ report.ask.from \in Int /\ report.ask.to \in Int
<1>1. Is("page") /\ \E n \in Live : row = rows[n]
  BY DEF Asked
<1>2. report.ask \in Questions
  BY <1>1, Stage DEF Types, Is
<1>3. row.object \in Known /\ row.index = ComputeTimeRangeIndex(row.object)
  BY <1>1 DEF Types, RowsTyped
<1>4. -Infinity \in Int /\ Infinity \in Int
  BY TimeAssumption DEF Infinity
<1> QED
  BY <1>2, <1>3, <1>4, KnownObject, QuestionsAssumption

\* The columns firstOccurrence and lastOccurrence, computed in UTC when the
\* object was put, never keep an event from a time range it occurs in, in any
\* zone of the query.
THEOREM IndexHidesNothing ==
  ASSUME Clocks
  PROVE  Spec => []NothingHidden
<1>1. Types => NothingHidden
  <2> SUFFICES ASSUME Types, NEW row \in Asked,
                      TrueOccurrences(row.object, report.ask.zone, report.ask.from, report.ask.to) # {}
               PROVE  Prefilter(row.index, report.ask.from, report.ask.to)
    BY DEF NothingHidden
  <2>1. Steady(row.object, report.ask.zone) /\ UntilHolds(row.object, report.ask.zone)
    BY AskedKnown DEF Clocks
  <2> QED
    BY <2>1, AskedKnown, OverlapsUnless
<1> QED
  BY <1>1, RowsStayRight, PTL

\* An expansion that fast-forwards to the time range and stops past it is
\* what expanding the event from DTSTART on gives.
THEOREM ExpandsRight ==
  ASSUME Clocks
  PROVE  Spec => []ExpansionRight
<1>1. Types => ExpansionRight
  <2> SUFFICES ASSUME Types, NEW row \in Asked,
                      ~AmbiguousLength(row.object, report.ask.zone)
               PROVE  ExpandOccurrences(row.object, report.ask.zone, report.ask.from, report.ask.to)
                      = TrueOccurrences(row.object, report.ask.zone, report.ask.from, report.ask.to)
    BY DEF ExpansionRight
  <2>1. Steady(row.object, report.ask.zone)
    BY AskedKnown DEF Clocks
  <2> QED
    BY <2>1, AskedKnown, NearTheRange
<1> QED
  BY <1>1, RowsStayRight, PTL

-----------------------------------------------------------------------------
(* Counting.                                                                 *)

\* The first k of S.
FirstOf(S, less, k) == {n \in S : Rank(S, less, n) < k}

\* The first of a set depend on the order of its elements only.
LEMMA SameFirst ==
  ASSUME NEW S, NEW less, NEW more, NEW k,
         \A x, y \in S : <<x, y>> \in less <=> <<x, y>> \in more
  PROVE  FirstOf(S, less, k) = FirstOf(S, more, k)
<1>1. ASSUME NEW n \in S
      PROVE  {y \in S : <<y, n>> \in less} = {y \in S : <<y, n>> \in more}
  OBVIOUS
<1> QED
  BY <1>1 DEF FirstOf, Rank

\* With one element more, those after it move up by one place.
LEMMA OneMore ==
  ASSUME NEW B, IsFiniteSet(B), NEW less, Orders(less, B), NEW x \in B, NEW k \in Nat
  PROVE  LET A == B \ {x}
             fewer == FirstOf(A, less, k)
             more == FirstOf(B, less, k)
         IN /\ more \ {x} \subseteq fewer
            /\ \E y : fewer \subseteq more \cup {y}
            /\ \E y : B \ more \subseteq (A \ fewer) \cup {y}
<1> DEFINE A == B \ {x}
           fewer == FirstOf(A, less, k)
           more == FirstOf(B, less, k)
<1>1. IsFiniteSet(A) /\ Orders(less, A) /\ A \subseteq B
  BY FS_Subset DEF Orders
<1>2. ASSUME NEW n \in A
      PROVE  /\ Rank(A, less, n) \in Nat /\ Rank(B, less, n) \in Nat
             /\ Rank(B, less, n) = Rank(A, less, n) + (IF <<x, n>> \in less THEN 1 ELSE 0)
  <2> DEFINE PA == {y \in A : <<y, n>> \in less}
             PB == {y \in B : <<y, n>> \in less}
  <2>1. IsFiniteSet(PA) /\ Cardinality(PA) \in Nat
    <3>1. PA \in SUBSET A
      OBVIOUS
    <3> HIDE DEF PA, A
    <3> QED
      BY <1>1, <3>1, FS_Subset, FS_CardinalityType
  <2>2. PB = PA \cup (IF <<x, n>> \in less THEN {x} ELSE {}) /\ x \notin PA
    OBVIOUS
  <2>3. Rank(A, less, n) = Cardinality(PA) /\ Rank(B, less, n) = Cardinality(PB)
    BY DEF Rank
  <2>4. CASE <<x, n>> \in less
    <3>1. PB = PA \cup {x} /\ x \notin PA
      BY <2>2, <2>4
    <3> HIDE DEF PA, PB
    <3>2. Cardinality(PB) = Cardinality(PA) + 1
      BY <2>1, <3>1, FS_AddElement
    <3> QED
      BY <2>1, <2>3, <2>4, <3>2
  <2>5. CASE <<x, n>> \notin less
    <3>1. PB = PA
      BY <2>2, <2>5
    <3> HIDE DEF PA, PB
    <3> QED
      BY <2>1, <2>3, <2>5, <3>1
  <2> QED
    BY <2>4, <2>5
<1>3. \A m, n \in A : Rank(A, less, m) = Rank(A, less, n) => m = n
  BY <1>1, RankLess
<1>4. \A n \in B : Rank(B, less, n) \in Int /\ Rank(B, less, x) \in Int
                   /\ (<<x, n>> \in less => Rank(B, less, x) < Rank(B, less, n))
  BY RankLess, FS_CardinalityType
<1>5. more \ {x} \subseteq fewer
  <2>1. ASSUME NEW n \in more \ {x}
        PROVE  n \in fewer
    <3>1. n \in A /\ Rank(B, less, n) < k
      BY DEF FirstOf
    <3> HIDE DEF A
    <3>2. /\ Rank(A, less, n) \in Nat /\ Rank(B, less, n) \in Nat
          /\ Rank(B, less, n) = Rank(A, less, n) + (IF <<x, n>> \in less THEN 1 ELSE 0)
      BY <1>2, <3>1
    <3>3. Rank(A, less, n) < k
      BY <3>1, <3>2
    <3> QED
      BY <3>1, <3>3 DEF FirstOf
  <2> QED
    BY <2>1
<1>6. ASSUME NEW n \in fewer, n \notin more
      PROVE  n \in A /\ Rank(A, less, n) = k - 1 /\ Rank(B, less, n) = k /\ <<x, n>> \in less
  <2>1. n \in A /\ n \in B /\ Rank(A, less, n) < k /\ ~(Rank(B, less, n) < k)
    BY <1>6 DEF FirstOf
  <2> QED
    BY <1>2, <2>1
<1>7. \E y : fewer \subseteq more \cup {y}
  <2>1. CASE fewer \subseteq more
    BY <2>1
  <2>2. CASE ~(fewer \subseteq more)
    <3>1. PICK n \in fewer : n \notin more
      BY <2>2
    <3> HIDE DEF fewer, more, A
    <3>2. \A m \in fewer : m \in more \/ m = n
      BY <1>3, <1>6, <3>1
    <3> QED
      BY <3>2
  <2> QED
    BY <2>1, <2>2
<1>8. \E y : B \ more \subseteq (A \ fewer) \cup {y}
  <2>1. CASE x \notin more
    <3>1. \A n \in B \ more : n \in A \ fewer \/ n = x
      <4>1. SUFFICES ASSUME NEW n \in B \ more, n # x, n \in fewer
                     PROVE  FALSE
        OBVIOUS
      <4>2. <<x, n>> \in less /\ Rank(B, less, n) = k
        BY <1>6, <4>1
      <4>3. Rank(B, less, x) < k
        BY <1>4, <4>1, <4>2
      <4> QED
        BY <2>1, <4>3 DEF FirstOf
    <3> QED
      BY <3>1
  <2>2. CASE x \in more
    <3>1. PICK y : fewer \subseteq more \cup {y}
      BY <1>7
    <3>2. PICK z : fewer \ more \subseteq {z}
      BY <3>1
    <3>3. \A n \in B \ more : n \in A \ fewer \/ n = z
      BY <2>2, <3>2
    <3> QED
      BY <3>3
  <2> QED
    BY <2>1, <2>2
<1> QED
  BY <1>5, <1>7, <1>8

\* The ids in a sequence of entries.
IdsIn(s) == {s[i].id : i \in DOMAIN s}

\* They are no more than its entries.
LEMMA IdsInFinite ==
  ASSUME NEW T, NEW s \in Seq(T)
  PROVE  IsFiniteSet(IdsIn(s)) /\ Cardinality(IdsIn(s)) \in Nat /\ Cardinality(IdsIn(s)) <= Len(s)
<1>1. Len(s) \in Nat /\ IsFiniteSet(1..Len(s)) /\ Cardinality(1..Len(s)) = Len(s)
  <2>1. PICK n \in Nat : n = Len(s)
    OBVIOUS
  <2>2. IsFiniteSet(1..n) /\ Cardinality(1..n) = IF 1 > n THEN 0 ELSE n - 1 + 1
    BY FS_Interval
  <2>3. Cardinality(1..n) = n
    BY <2>2
  <2> QED
    BY <2>1, <2>2, <2>3
<1> DEFINE f == [i \in 1..Len(s) |-> s[i].id]
<1>2. IdsIn(s) = {f[i] : i \in 1..Len(s)}
  BY DEF IdsIn
<1> HIDE DEF f
<1>3. IsFiniteSet({f[i] : i \in 1..Len(s)}) /\ Cardinality({f[i] : i \in 1..Len(s)}) <= Cardinality(1..Len(s))
  BY <1>1, FiniteImage
<1> QED
  BY <1>1, <1>2, <1>3, FS_CardinalityType

\* Who drops elements of a sequence drops at least as many as ids.
LEMMA Thinned ==
  ASSUME NEW T, NEW Z \in Seq(T), NEW F \in Seq(T), NEW g, Thins(F, Z, g)
  PROVE  /\ IdsIn(F) \subseteq IdsIn(Z)
         /\ Len(F) - Cardinality(IdsIn(F)) <= Len(Z) - Cardinality(IdsIn(Z))
<1> DEFINE D == 1..Len(Z)
           R == {g[i] : i \in 1..Len(F)}
           f == [z \in D |-> Z[z].id]
           rest == {f[z] : z \in D \ R}
<1>1. Len(Z) \in Nat /\ Len(F) \in Nat /\ DOMAIN Z = D /\ DOMAIN F = 1..Len(F)
  OBVIOUS
<1>2. /\ g \in [1..Len(F) -> D] /\ \A i, j \in 1..Len(F) : i < j => g[i] < g[j]
      /\ \A i \in 1..Len(F) : F[i] = Z[g[i]]
  BY DEF Thins
<1>3. IdsIn(F) \subseteq IdsIn(Z)
  BY <1>1, <1>2 DEF IdsIn
<1>4. IsFiniteSet(D) /\ Cardinality(D) = Len(Z) /\ IsFiniteSet(1..Len(F)) /\ Cardinality(1..Len(F)) = Len(F)
  <2>1. \A n \in Nat : IsFiniteSet(1..n) /\ Cardinality(1..n) = n
    BY FS_Interval
  <2> QED
    BY <1>1, <2>1
<1>5. R \subseteq D /\ IsFiniteSet(R) /\ Cardinality(R) = Len(F)
  <2>1. R \in SUBSET D
    BY <1>2
  <2>2. \A i, j \in 1..Len(F) : i # j => g[i] # g[j]
    <3>1. \A i \in 1..Len(F) : g[i] \in Int
      BY <1>2
    <3>2. SUFFICES ASSUME NEW i \in 1..Len(F), NEW j \in 1..Len(F), i # j
                   PROVE  g[i] # g[j]
      OBVIOUS
    <3>3. i < j \/ j < i
      BY <3>2
    <3>4. g[i] < g[j] \/ g[j] < g[i]
      BY <1>2, <3>3
    <3> QED
      BY <3>1, <3>4
  <2>3. g \in [1..Len(F) -> R]
    BY <1>2
  <2>4. g \in Injection(1..Len(F), R) /\ g \in Surjection(1..Len(F), R)
    <3>1. \A r \in R : \E i \in 1..Len(F) : g[i] = r
      OBVIOUS
    <3> HIDE DEF R
    <3>2. g \in Injection(1..Len(F), R)
      BY <2>2, <2>3 DEF Injection, IsInjective
    <3>3. g \in Surjection(1..Len(F), R)
      BY <2>3, <3>1 DEF Surjection
    <3> QED
      BY <3>2, <3>3
  <2> HIDE DEF R, D
  <2> QED
    BY <1>4, <2>1, <2>4, FS_Surjection
<1>6. IsFiniteSet(D \ R) /\ Cardinality(D \ R) = Len(Z) - Len(F)
  <2>1. D \cap R = R
    BY <1>5
  <2> HIDE DEF D, R
  <2>2. IsFiniteSet(D \ R) /\ Cardinality(D \ R) = Cardinality(D) - Cardinality(D \cap R)
    BY <1>4, FS_Difference
  <2> QED
    BY <1>4, <1>5, <2>1, <2>2
<1>7. IsFiniteSet(rest) /\ Cardinality(rest) \in Nat /\ Cardinality(rest) <= Len(Z) - Len(F)
  <2> HIDE DEF f, D, R
  <2>1. IsFiniteSet({f[z] : z \in D \ R}) /\ Cardinality({f[z] : z \in D \ R}) <= Cardinality(D \ R)
    BY <1>6, FiniteImage
  <2> QED
    BY <1>6, <2>1, FS_CardinalityType
<1>8. IdsIn(Z) \subseteq IdsIn(F) \cup rest
  <2>1. ASSUME NEW z \in D
        PROVE  Z[z].id \in IdsIn(F) \cup rest
    <3>1. CASE z \in R
      BY <1>1, <1>2, <3>1 DEF IdsIn
    <3>2. CASE z \notin R
      BY <3>2
    <3> QED
      BY <3>1, <3>2
  <2> QED
    BY <1>1, <2>1 DEF IdsIn
<1>9. /\ IsFiniteSet(IdsIn(F)) /\ Cardinality(IdsIn(F)) \in Nat
      /\ IsFiniteSet(IdsIn(Z)) /\ Cardinality(IdsIn(Z)) \in Nat
  BY IdsInFinite
<1> HIDE DEF rest
<1>10. Cardinality(IdsIn(Z)) <= Cardinality(IdsIn(F)) + Cardinality(rest)
  <2>1. /\ IsFiniteSet(IdsIn(F) \cup rest)
        /\ Cardinality(IdsIn(F) \cup rest)
             = Cardinality(IdsIn(F)) + Cardinality(rest) - Cardinality(IdsIn(F) \cap rest)
    BY <1>7, <1>9, FS_Union
  <2>2. Cardinality(IdsIn(Z)) <= Cardinality(IdsIn(F) \cup rest)
    BY <1>8, <2>1, FS_Subset
  <2>3. IdsIn(F) \cap rest \in SUBSET rest
    OBVIOUS
  <2>4. Cardinality(IdsIn(F) \cap rest) \in Nat
    BY <1>7, <2>3, FS_Subset, FS_CardinalityType
  <2> QED
    BY <1>7, <1>9, <2>1, <2>2, <2>4
<1> QED
  BY <1>1, <1>3, <1>7, <1>9, <1>10

\* One element more is one more at most.
LEMMA AtMostOneMore ==
  ASSUME NEW S, IsFiniteSet(S), NEW y, NEW T \in SUBSET (S \cup {y})
  PROVE  IsFiniteSet(T) /\ Cardinality(T) \in Nat /\ Cardinality(S) \in Nat
         /\ Cardinality(T) <= Cardinality(S) + 1
<1>1. IsFiniteSet(S \cup {y}) /\ Cardinality(S \cup {y}) <= Cardinality(S) + 1 /\ Cardinality(S) \in Nat
  <2>1. Cardinality(S) \in Nat
    BY FS_CardinalityType
  <2>2. /\ IsFiniteSet(S \cup {y})
        /\ Cardinality(S \cup {y}) = IF y \in S THEN Cardinality(S) ELSE Cardinality(S) + 1
    BY FS_AddElement
  <2> QED
    BY <2>1, <2>2
<1>2. IsFiniteSet(T) /\ Cardinality(T) <= Cardinality(S \cup {y})
  BY <1>1, FS_Subset
<1>3. Cardinality(T) \in Nat /\ Cardinality(S \cup {y}) \in Nat
  BY <1>1, <1>2, FS_CardinalityType
<1> QED
  BY <1>1, <1>2, <1>3

\* No event has two RDATEs of different lengths at one instant.
Unambiguous == \A o \in Known, q \in Questions : ~AmbiguousLength(o, q.zone)

\* The rows a report has walked over: those found, and those of its page.
Walked == report.found \o report.page
\* The candidates before the offset.
Passed == FirstOf(Candidates, Less, report.offset)

\* The stable rows of S that occur and have none of the ids.
Missed(S, ids) ==
  {n \in S : /\ ever[rows[n].id] = {rows[n].object} /\ Occurs(rows[n].object)
             /\ rows[n].id \notin ids}

\* The candidates a report will come across again.
Again(ids) == {n \in Candidates \ Passed : rows[n].id \in ids}

\* At some time of the report the row of that id held an event that occurs.
OccurredOnce(id) == \E o \in ever[id] \ {None} : Occurs(o)

\* In the order of the candidates.
InOrder(s) == \A i, j \in 1..Len(s) : i < j => Before(s[i], s[j])

\* While pages are read: of those passed no more are missed than have left, of
\* those found no more are found or to be found twice than have come.
Paging ==
  (Is("page") \/ Is("contents")) /\ Pages =>
    /\ ~Full(report.found)
    /\ Cardinality(Missed(Passed, IdsIn(Walked))) <= gone
    /\ Is("contents") /\ LastPage(report.page) => Cardinality(Missed(Live, IdsIn(Walked))) <= gone
    /\ Len(Walked) - Cardinality(IdsIn(Walked)) + Cardinality(Again(IdsIn(Walked))) <= come
    /\ \A id \in IdsIn(report.found) : OccurredOnce(id)
    /\ gone + come = 0 =>
         /\ InOrder(Walked)
         /\ \A i \in 1..Len(Walked) :
              \E n \in Passed : Walked[i].name = n /\ Walked[i].id = rows[n].id

\* Once they are read, and for as long as the report takes to be answered.
Explained ==
  Pages =>
    /\ ~Is("names")
    /\ Is("collected") \/ Is("loaded") \/ Is("answered") => PagesExplained
    /\ /\ Is("failed") /\ report.ask.expand.from >= report.ask.from
       /\ report.ask.expand.to <= report.ask.to
       => \E id \in Ids : Cardinality(ever[id]) > 1

\* What PagesExplained says, in these terms.
LEMMA ExplainedIs ==
  ASSUME report.found \in Seq(Entries)
  PROVE  LET ids == IdsIn(report.found)
             missed == Missed(Live, ids)
         IN PagesExplained <=>
              /\ \A id \in ids : OccurredOnce(id)
              /\ Full(report.found) \/ Cardinality(missed) <= gone
              /\ Len(report.found) - Cardinality(ids) <= come
              /\ gone + come = 0 =>
                   /\ InOrder(report.found)
                   /\ \A n \in missed : Before(report.found[Len(report.found)],
                                               [name |-> n, id |-> rows[n].id])
<1>1. DOMAIN report.found = 1..Len(report.found)
  OBVIOUS
<1>2. Last(report.found) = report.found[Len(report.found)]
  BY DEF Last
<1> QED
  BY <1>1, <1>2 DEF PagesExplained, IdsIn, Missed, OccurredOnce, InOrder

\* What has been walked over are entries.
LEMMA WalkedIs ==
  ASSUME Types, ~Is("idle")
  PROVE  /\ Walked \in Seq(Entries) /\ IdsIn(Walked) \subseteq Ids
         /\ report.found \in Seq(Entries) /\ IdsIn(report.found) \subseteq Ids
         /\ report.page = <<>> => Walked = report.found
<1>1. report.found \in Seq(Entries) /\ report.page \in Seq(Entries)
  BY Stage DEF Types
<1>2. Walked \in Seq(Entries)
  BY <1>1, ConcatProperties DEF Walked
<1>3. \A s \in Seq(Entries) : IdsIn(s) \subseteq Ids
  <2>1. SUFFICES ASSUME NEW s \in Seq(Entries), NEW i \in DOMAIN s
                 PROVE  s[i].id \in Ids
    BY DEF IdsIn
  <2>2. s[i] \in Entries
    BY <2>1
  <2> QED
    BY <2>2 DEF Entries
<1>4. report.page = <<>> => Walked = report.found
  BY <1>1, ConcatEmptySeq DEF Walked
<1> QED
  BY <1>1, <1>2, <1>3, <1>4

\* Only those that were missed before are missed now: what a row stands for
\* when it has stood for one thing only cannot have changed.
LEMMA MissedBefore ==
  ASSUME Types, NEW n \in Names, Changes(n), ~Is("idle"), NEW m \in Live',
         ever'[rows'[m].id] = {rows'[m].object}
  PROVE  /\ m \in Live /\ rows'[m].id = rows[m].id /\ rows'[m].object = rows[m].object
         /\ rows'[m].index = rows[m].index /\ ever[rows[m].id] = {rows[m].object}
<1>1. Observed /\ RowsTyped' /\ HistoryTyped /\ RowsTyped /\ report' = report
  BY RowsStayTyped DEF Changes, Types
<1>2. /\ rows'[m].object \in Known /\ rows'[m].id \in Ids
      /\ rows'[m].index = ComputeTimeRangeIndex(rows'[m].object)
  BY <1>1 DEF RowsTyped
<1>3. PICK id \in Ids : id = rows'[m].id
  BY <1>2
<1>4. ever'[id] = ever[id] \cup {ObjectOf(id)'}
  BY <1>1 DEF Observed
<1>5. ObjectOf(id) \in ever[id]
  BY <1>1 DEF HistoryTyped
<1>6. ever[id] = {rows'[m].object} /\ ObjectOf(id) = rows'[m].object
  BY <1>4, <1>5, <1>3
<1>7. PICK k \in Live : rows[k].id = id
  BY <1>1, <1>2, <1>6, <1>3, ObjectHeld, KnownObject DEF ObjectsHeld
<1>8. rows[k].object = rows'[m].object
  BY <1>1, <1>6, <1>7, ObjectHeld DEF ObjectsHeld
<1>9. k = m
  <2>1. m \in Live \ {n} \/ m = n
    BY <1>1, RowsStayTyped
  <2>2. CASE m \in Live \ {n}
    BY <1>1, <1>7, <1>3, <2>2 DEF Changes, Live, RowsTyped
  <2>3. CASE m = n
    <3>1. rows'[n] # None /\ rows[k].id \notin unused
      BY <1>1, <1>7, <1>3, <2>3 DEF Live, RowsTyped
    <3>2. rows[n] # None /\ rows'[n].id = rows[n].id
      BY <1>7, <1>3, <2>3, <3>1 DEF Changes
    <3> QED
      BY <1>1, <1>7, <1>3, <2>3, <3>2 DEF Live, RowsTyped
  <2> QED
    BY <2>1, <2>2, <2>3
<1>10. rows[m].index = ComputeTimeRangeIndex(rows[m].object)
  BY <1>1, <1>7, <1>9 DEF RowsTyped
<1> QED
  BY <1>2, <1>6, <1>7, <1>8, <1>9, <1>10, <1>3

\* Among the candidates, a write makes one more or one less.
LEMMA CandidatesChange ==
  ASSUME Types, NEW n \in Names, Changes(n), ~Is("idle")
  PROVE  /\ \/ Candidates' = Candidates
            \/ n \in Candidates /\ Candidates' = Candidates \ {n} /\ gone' >= gone + 1
            \/ n \notin Candidates /\ Candidates' = Candidates \cup {n} /\ come' >= come + 1
         /\ gone \in Nat /\ come \in Nat /\ gone' \in Nat /\ come' \in Nat
         /\ gone <= gone' /\ come <= come'
         /\ \A m \in Live \cap Live' : rows'[m].id = rows[m].id
<1>1. Observed /\ RowsTyped' /\ RowsTyped /\ HistoryTyped /\ report' = report
  BY RowsStayTyped DEF Changes, Types
<1>2. HistoryTyped' /\ gone <= gone' /\ come <= come'
  BY <1>1, HistoryGrows
<1>3. \A m \in Live \cap Live' : rows'[m].id = rows[m].id
  BY DEF Changes, Live
<1>4. \A m \in Names \ {n} : m \in Candidates <=> m \in Candidates'
  <2>1. ASSUME NEW m \in Names \ {n}
        PROVE  m \in Candidates <=> m \in Candidates'
    <3>1. rows'[m] = rows[m]
      BY DEF Changes
    <3> QED
      BY <1>1, <3>1 DEF Candidates, Live
  <2> QED
    BY <2>1
<1>5. Candidates \subseteq Live /\ Candidates' \subseteq Live' /\ Live \subseteq Names /\ Live' \subseteq Names
  BY DEF Candidates, Live
<1> DEFINE a == IdsOf(Candidates)
           b == IdsOf(Candidates)'
<1>6. gone' = gone + Cardinality(a \ b) /\ come' = come + Cardinality(b \ a)
  BY <1>1 DEF Observed
<1>7. IsFiniteSet(a) /\ IsFiniteSet(b)
  <2>1. (RowsTyped => FiniteRows)'
    BY CandidatesFinite, PTL
  <2>2. Candidates \in SUBSET Names /\ Candidates' \in SUBSET Names
    BY <1>5
  <2>3. IsFiniteSet(IdsOf(Candidates))
    BY <1>1, <2>2, CandidatesFinite DEF FiniteRows
  <2>4. IsFiniteSet(IdsOf(Candidates)')
    BY <1>1, <2>1, <2>2 DEF FiniteRows
  <2> QED
    BY <2>3, <2>4
<1> HIDE DEF a, b
<1>8. \A x : x \in a \ b => Cardinality(a \ b) \in Nat /\ Cardinality(a \ b) >= 1
  <2>1. IsFiniteSet(a \ b) /\ Cardinality(a \ b) \in Nat
    BY <1>7, FS_Difference, FS_CardinalityType
  <2>2. Cardinality(a \ b) = 0 => a \ b = {}
    BY <2>1, FS_EmptySet
  <2> QED
    BY <2>1, <2>2
<1>9. \A x : x \in b \ a => Cardinality(b \ a) \in Nat /\ Cardinality(b \ a) >= 1
  <2>1. IsFiniteSet(b \ a) /\ Cardinality(b \ a) \in Nat
    BY <1>7, FS_Difference, FS_CardinalityType
  <2>2. Cardinality(b \ a) = 0 => b \ a = {}
    BY <2>1, FS_EmptySet
  <2> QED
    BY <2>1, <2>2
<1>10. CASE n \in Candidates /\ n \notin Candidates'
  <2>1. Candidates' = Candidates \ {n}
    BY <1>4, <1>5, <1>10
  <2>2. rows[n].id \in a
    BY <1>10 DEF a, IdsOf
  <2>3. rows[n].id \notin b
    <3>1. SUFFICES ASSUME NEW m \in Candidates', rows'[m].id = rows[n].id
                   PROVE  FALSE
      BY DEF b, IdsOf
    <3>2. m # n /\ m \in Candidates
      BY <1>10, <2>1
    <3>3. rows[m].id = rows[n].id
      BY <1>3, <1>5, <3>1, <3>2
    <3> QED
      BY <1>1, <1>5, <1>10, <3>2, <3>3 DEF RowsTyped
  <2>4. Cardinality(a \ b) \in Nat /\ Cardinality(a \ b) >= 1
    BY <1>8, <2>2, <2>3
  <2>5. gone' >= gone + 1
    BY <1>1, <1>6, <2>4 DEF HistoryTyped
  <2> QED
    BY <1>1, <1>2, <1>3, <1>10, <2>1, <2>5 DEF HistoryTyped
<1>11. CASE n \notin Candidates /\ n \in Candidates'
  <2>1. Candidates' = Candidates \cup {n}
    BY <1>4, <1>5, <1>11
  <2>2. rows'[n].id \in b
    BY <1>11 DEF b, IdsOf
  <2>3. rows'[n].id \notin a
    <3>1. SUFFICES ASSUME NEW m \in Candidates, rows[m].id = rows'[n].id
                   PROVE  FALSE
      BY DEF a, IdsOf
    <3>2. m # n /\ m \in Candidates'
      BY <1>11, <2>1
    <3>3. rows'[m].id = rows'[n].id
      BY <1>3, <1>5, <3>1, <3>2
    <3> QED
      BY <1>1, <1>5, <1>11, <3>2, <3>3 DEF RowsTyped
  <2>4. Cardinality(b \ a) \in Nat /\ Cardinality(b \ a) >= 1
    BY <1>9, <2>2, <2>3
  <2>5. come' >= come + 1
    BY <1>1, <1>6, <2>4 DEF HistoryTyped
  <2> QED
    BY <1>1, <1>2, <1>3, <1>11, <2>1, <2>5 DEF HistoryTyped
<1>12. CASE n \in Candidates <=> n \in Candidates'
  <2>1. Candidates' = Candidates
    BY <1>4, <1>5, <1>12
  <2> QED
    BY <1>1, <1>2, <1>3, <2>1 DEF HistoryTyped
<1> QED
  BY <1>10, <1>11, <1>12

\* A write takes one row from the candidates or adds one, and of those before
\* and after the offset shifts one at most.
LEMMA PassedChange ==
  ASSUME Types, NEW n \in Names, Changes(n), ~Is("idle")
  PROVE  \/ Candidates' = Candidates /\ Passed' = Passed
         \/ /\ n \in Candidates /\ Candidates' = Candidates \ {n} /\ gone' >= gone + 1
            /\ \E y : Passed' \subseteq Passed \cup {y}
            /\ Candidates' \ Passed' \subseteq Candidates \ Passed
         \/ /\ n \notin Candidates /\ Candidates' = Candidates \cup {n} /\ come' >= come + 1
            /\ Passed' \ {n} \subseteq Passed
            /\ \E y : Candidates' \ Passed' \subseteq (Candidates \ Passed) \cup {y}
<1>1. RowsTyped /\ RowsTyped' /\ report' = report /\ report.offset \in Nat
  BY RowsStayTyped, Stage DEF Changes, Types
<1>2. /\ Candidates \subseteq Live /\ IsFiniteSet(Candidates) /\ Orders(Less, Candidates)
  BY <1>1, CandidatesFinite, OrderedIs DEF FiniteRows, OrderedRight
<1>3. Candidates' \subseteq Live' /\ IsFiniteSet(Candidates') /\ Orders(Less', Candidates')
  <2>1. (RowsTyped => FiniteRows)' /\ (RowsTyped => OrderedRight)'
    BY CandidatesFinite, OrderedIs, PTL
  <2> QED
    BY <1>1, <2>1 DEF FiniteRows, OrderedRight
<1>4. \A m \in Live \cap Live' : rows'[m].id = rows[m].id
  BY CandidatesChange
<1>5. \A x, y \in Candidates \cap Candidates' : <<x, y>> \in Less <=> <<x, y>> \in Less'
  <2>1. SUFFICES ASSUME NEW x \in Live \cap Live', NEW y \in Live \cap Live'
                 PROVE  <<x, y>> \in Less <=> <<x, y>> \in Less'
    BY <1>2, <1>3
  <2>2. rows'[x].id = rows[x].id /\ rows'[y].id = rows[y].id
    BY <1>4
  <2> QED
    BY <1>1, <2>2 DEF Less, Before, Entry
<1>6. CASE Candidates' = Candidates
  <2>1. FirstOf(Candidates, Less, report.offset) = FirstOf(Candidates, Less', report.offset)
    BY <1>5, <1>6, SameFirst
  <2>2. Passed' = Passed
    BY <1>1, <1>6, <2>1 DEF Passed
  <2> QED
    BY <1>6, <2>2
<1>7. CASE n \in Candidates /\ Candidates' = Candidates \ {n} /\ gone' >= gone + 1
  <2>1. /\ FirstOf(Candidates', Less, report.offset) \subseteq FirstOf(Candidates', Less', report.offset)
        /\ FirstOf(Candidates', Less', report.offset) \subseteq FirstOf(Candidates', Less, report.offset)
    <3>1. \A x, y \in Candidates' : <<x, y>> \in Less <=> <<x, y>> \in Less'
      BY <1>5, <1>7
    <3> QED
      BY <3>1, SameFirst
  <2>2. Passed' = FirstOf(Candidates \ {n}, Less, report.offset)
    BY <1>1, <1>7, <2>1 DEF Passed
  <2>3. Passed = FirstOf(Candidates, Less, report.offset)
    BY DEF Passed
  <2>4. /\ FirstOf(Candidates, Less, report.offset) \ {n}
             \subseteq FirstOf(Candidates \ {n}, Less, report.offset)
        /\ \E y : FirstOf(Candidates \ {n}, Less, report.offset)
                  \subseteq FirstOf(Candidates, Less, report.offset) \cup {y}
    BY <1>1, <1>2, <1>7, OneMore
  <2>5. Passed \ {n} \subseteq Passed' /\ \E y : Passed' \subseteq Passed \cup {y}
    BY <2>2, <2>3, <2>4
  <2> QED
    BY <1>7, <2>5
<1>8. CASE n \notin Candidates /\ Candidates' = Candidates \cup {n} /\ come' >= come + 1
  <2>1. Candidates' \ {n} = Candidates /\ n \in Candidates'
    BY <1>8
  <2>2. \A x, y \in Candidates : <<x, y>> \in Less <=> <<x, y>> \in Less'
    BY <1>5, <1>8
  <2>3. Passed = FirstOf(Candidates' \ {n}, Less', report.offset)
    BY <2>1, <2>2, SameFirst DEF Passed
  <2>4. Passed' = FirstOf(Candidates', Less', report.offset)
    BY <1>1 DEF Passed
  <2>5. /\ FirstOf(Candidates', Less', report.offset) \ {n}
             \subseteq FirstOf(Candidates' \ {n}, Less', report.offset)
        /\ \E y : Candidates' \ FirstOf(Candidates', Less', report.offset)
                  \subseteq ((Candidates' \ {n}) \ FirstOf(Candidates' \ {n}, Less', report.offset)) \cup {y}
    BY <1>1, <1>3, <2>1, OneMore
  <2> QED
    BY <1>8, <2>1, <2>3, <2>4, <2>5
<1> QED
  BY <1>6, <1>7, <1>8, CandidatesChange

\* The rows missed after a write were missed before it.
LEMMA MissedShrinks ==
  ASSUME Types, NEW n \in Names, Changes(n), ~Is("idle"), NEW ids
  PROVE  \A m \in Missed(Live, ids)' :
           /\ m \in Missed(Live, ids) /\ m \in Live' /\ rows'[m].id = rows[m].id
           /\ m \in Candidates' <=> m \in Candidates
<1>1. report' = report
  BY DEF Changes
<1>2. SUFFICES ASSUME NEW m \in Missed(Live, ids)'
               PROVE  /\ m \in Missed(Live, ids) /\ m \in Live' /\ rows'[m].id = rows[m].id
                      /\ m \in Candidates' <=> m \in Candidates
  OBVIOUS
<1>3. /\ m \in Live' /\ ever'[rows'[m].id] = {rows'[m].object} /\ Occurs(rows[m].object)'
      /\ rows'[m].id \notin ids
  BY <1>2 DEF Missed
<1>4. /\ m \in Live /\ rows'[m].id = rows[m].id /\ rows'[m].object = rows[m].object
      /\ rows'[m].index = rows[m].index /\ ever[rows[m].id] = {rows[m].object}
  BY <1>3, MissedBefore
<1>5. Occurs(rows[m].object)
  BY <1>1, <1>3, <1>4 DEF Occurs
<1>6. m \in Candidates' <=> m \in Candidates
  BY <1>1, <1>3, <1>4 DEF Candidates
<1> QED
  BY <1>3, <1>4, <1>5, <1>6 DEF Missed

\* What is missed can be counted.
LEMMA MissedFinite ==
  ASSUME RowsTyped, NEW S \in SUBSET Names, NEW ids
  PROVE  IsFiniteSet(Missed(S, ids)) /\ Cardinality(Missed(S, ids)) \in Nat
<1>1. Missed(S, ids) \in SUBSET Names
  BY DEF Missed
<1> QED
  BY <1>1, CandidatesFinite DEF FiniteRows

\* What has once occurred stays so.
LEMMA OnceStays ==
  ASSUME Types, NEW n \in Names, Changes(n), ~Is("idle"), NEW id \in Ids, OccurredOnce(id)
  PROVE  OccurredOnce(id)'
<1>1. ever[id] \subseteq ever'[id] /\ report' = report
  BY DEF Changes, Observed
<1> QED
  BY <1>1 DEF OccurredOnce, Occurs

\* A write keeps the account of the pages: what it shifts over the offset,
\* gone or come counts.
LEMMA WriteKeepsPaging ==
  ASSUME Types, NEW n \in Names, Changes(n), Paging
  PROVE  Paging'
<1>1. report' = report
  BY DEF Changes
<1>2. SUFFICES ASSUME Is("page") \/ Is("contents"), Pages
               PROVE  Paging'
  BY <1>1 DEF Paging, Is, Pages
<1>3. ~Is("idle") /\ RowsTyped /\ RowsTyped'
  BY <1>2, RowsStayTyped DEF Is, Types
<1>4. /\ gone \in Nat /\ come \in Nat /\ gone' \in Nat /\ come' \in Nat /\ gone <= gone' /\ come <= come'
      /\ \A m \in Live \cap Live' : rows'[m].id = rows[m].id
  BY <1>3, CandidatesChange
<1> DEFINE ids == IdsIn(Walked)
<1>5. IdsIn(Walked)' = ids /\ Walked' = Walked
  BY <1>1 DEF IdsIn, Walked
<1>6. /\ ~Full(report.found)
      /\ Cardinality(Missed(Passed, ids)) <= gone
      /\ Is("contents") /\ LastPage(report.page) => Cardinality(Missed(Live, ids)) <= gone
      /\ Len(Walked) - Cardinality(ids) + Cardinality(Again(ids)) <= come
      /\ \A id \in IdsIn(report.found) : OccurredOnce(id)
      /\ gone + come = 0 =>
           /\ InOrder(Walked)
           /\ \A i \in 1..Len(Walked) :
                \E k \in Passed : Walked[i].name = k /\ Walked[i].id = rows[k].id
  BY <1>2 DEF Paging
<1>7. /\ Live \subseteq Names /\ Candidates \subseteq Live /\ Passed \subseteq Candidates
      /\ Live' \subseteq Names /\ Candidates' \subseteq Live' /\ Passed' \subseteq Candidates'
  BY DEF Live, Candidates, Passed, FirstOf
<1>8. Walked \in Seq(Entries) /\ ids \subseteq Ids /\ IdsIn(report.found) \subseteq Ids
  BY <1>3, WalkedIs
<1>9. Len(Walked) \in Nat /\ Cardinality(ids) \in Nat
  BY <1>8, IdsInFinite
<1>10. PICK seen : seen = ids
  OBVIOUS
<1> HIDE DEF ids
<1>11. \A m \in Missed(Live, seen)' :
           /\ m \in Missed(Live, seen) /\ m \in Live' /\ rows'[m].id = rows[m].id
           /\ m \in Candidates' <=> m \in Candidates
  BY <1>3, MissedShrinks
<1>12. /\ Missed(Live, seen)' \subseteq Missed(Live, seen)
       /\ \A m \in Missed(Passed, seen)' : m \in Missed(Live, seen)' /\ m \in Passed'
  BY <1>7, <1>11 DEF Missed
<1>13. /\ IsFiniteSet(Missed(Live, seen)) /\ Cardinality(Missed(Live, seen)) \in Nat
       /\ IsFiniteSet(Missed(Passed, seen)) /\ Cardinality(Missed(Passed, seen)) \in Nat
       /\ IsFiniteSet(Again(seen)) /\ Cardinality(Again(seen)) \in Nat
  <2>1. Live \in SUBSET Names /\ Passed \in SUBSET Names /\ Again(seen) \in SUBSET Names
    BY <1>7 DEF Again
  <2> QED
    BY <1>3, <2>1, MissedFinite, CandidatesFinite DEF FiniteRows
<1>14. Cardinality(Missed(Live, seen)') <= Cardinality(Missed(Live, seen))
  BY <1>12, <1>13, FS_Subset
<1>15. Cardinality(Missed(Passed, seen)') <= gone'
  <2>1. CASE Passed' \cap Candidates \subseteq Passed
    <3>1. Missed(Passed, seen)' \subseteq Missed(Passed, seen)
      <4>1. ASSUME NEW m \in Missed(Passed, seen)'
            PROVE  m \in Missed(Passed, seen)
        <5>1. m \in Missed(Live, seen) /\ m \in Passed' /\ m \in Candidates
          BY <1>7, <1>11, <1>12
        <5>2. m \in Passed
          BY <2>1, <5>1
        <5> QED
          BY <5>1, <5>2 DEF Missed
      <4> QED
        BY <4>1
    <3>2. Cardinality(Missed(Passed, seen)') <= Cardinality(Missed(Passed, seen))
          /\ Cardinality(Missed(Passed, seen)') \in Nat
      BY <1>13, <3>1, FS_Subset, FS_CardinalityType
    <3> QED
      BY <1>4, <1>6, <1>10, <1>13, <3>2
  <2>2. ASSUME gone' >= gone + 1, NEW y, Passed' \subseteq Passed \cup {y}
        PROVE  Cardinality(Missed(Passed, seen)') <= gone'
    <3>1. Missed(Passed, seen)' \in SUBSET (Missed(Passed, seen) \cup {y})
      <4>1. ASSUME NEW m \in Missed(Passed, seen)'
            PROVE  m \in Missed(Passed, seen) \/ m = y
        <5>1. m \in Missed(Live, seen) /\ m \in Passed'
          BY <1>11, <1>12
        <5>2. m \in Passed \/ m = y
          BY <2>2, <5>1
        <5> QED
          BY <5>1, <5>2 DEF Missed
      <4> QED
        BY <4>1
    <3>2. /\ Cardinality(Missed(Passed, seen)') \in Nat
          /\ Cardinality(Missed(Passed, seen)') <= Cardinality(Missed(Passed, seen)) + 1
      BY <1>13, <3>1, AtMostOneMore
    <3>3. Cardinality(Missed(Passed, seen)) <= gone
      BY <1>6, <1>10
    <3> QED
      BY <1>4, <1>13, <2>2, <3>2, <3>3
  <2> QED
    BY <1>3, <1>7, <2>1, <2>2, PassedChange
<1>16. Len(Walked) - Cardinality(seen) + Cardinality(Again(seen)') <= come'
  <2>1. \A m \in Again(seen)' : /\ m \in Candidates' \ Passed'
                                /\ m \in Candidates => rows'[m].id = rows[m].id
                                /\ m \in Candidates \ Passed => m \in Again(seen)
    <3>1. ASSUME NEW m \in Again(seen)'
          PROVE  /\ m \in Candidates' \ Passed'
                 /\ m \in Candidates => rows'[m].id = rows[m].id
                 /\ m \in Candidates \ Passed => m \in Again(seen)
      <4>1. m \in Candidates' \ Passed' /\ rows'[m].id \in seen
        BY DEF Again
      <4>2. m \in Candidates => rows'[m].id = rows[m].id
        BY <1>4, <1>7, <4>1
      <4> QED
        BY <4>1, <4>2 DEF Again
    <3> QED
      BY <3>1
  <2>2. CASE Candidates' \ Passed' \subseteq Candidates \ Passed
    <3>1. Again(seen)' \subseteq Again(seen)
      BY <2>1, <2>2
    <3>2. Cardinality(Again(seen)') <= Cardinality(Again(seen)) /\ Cardinality(Again(seen)') \in Nat
      BY <1>13, <3>1, FS_Subset, FS_CardinalityType
    <3> QED
      BY <1>4, <1>6, <1>9, <1>10, <1>13, <3>2
  <2>3. ASSUME come' >= come + 1, NEW y, Candidates' \ Passed' \subseteq (Candidates \ Passed) \cup {y}
        PROVE  Len(Walked) - Cardinality(seen) + Cardinality(Again(seen)') <= come'
    <3>1. Again(seen)' \in SUBSET (Again(seen) \cup {y})
      BY <2>1, <2>3
    <3>2. /\ Cardinality(Again(seen)') \in Nat
          /\ Cardinality(Again(seen)') <= Cardinality(Again(seen)) + 1
      BY <1>13, <3>1, AtMostOneMore
    <3>3. Len(Walked) - Cardinality(seen) + Cardinality(Again(seen)) <= come
      BY <1>6, <1>10
    <3> QED
      BY <1>4, <1>9, <1>10, <1>13, <2>3, <3>2, <3>3
  <2> QED
    BY <1>3, <2>2, <2>3, PassedChange
<1>17. \A id \in IdsIn(report.found) : OccurredOnce(id)'
  BY <1>3, <1>6, <1>8, OnceStays
<1>18. gone' + come' = 0 =>
         /\ InOrder(Walked)
         /\ \A i \in 1..Len(Walked) :
              \E k \in Passed' : Walked[i].name = k /\ Walked[i].id = rows'[k].id
  <2>1. SUFFICES ASSUME gone' + come' = 0
                 PROVE  /\ InOrder(Walked)
                        /\ \A i \in 1..Len(Walked) :
                             \E k \in Passed' : Walked[i].name = k /\ Walked[i].id = rows'[k].id
    OBVIOUS
  <2>2. gone = 0 /\ come = 0 /\ gone' = 0 /\ come' = 0
    <3>1. gone' \in Nat /\ come' \in Nat /\ gone \in Nat /\ come \in Nat
      BY <1>4
    <3>2. gone <= gone' /\ come <= come'
      BY <1>4
    <3>3. \A a, b \in Nat : a + b = 0 => a = 0 /\ b = 0
      OBVIOUS
    <3>4. gone' = 0 /\ come' = 0
      BY <2>1, <3>1, <3>3
    <3> QED
      BY <3>1, <3>2, <3>4
  <2>3. Candidates' = Candidates /\ Passed' = Passed
    BY <1>3, <2>2, PassedChange
  <2>4. \A k \in Passed : rows'[k].id = rows[k].id
    BY <1>4, <1>7, <2>3
  <2> QED
    BY <1>6, <2>2, <2>3, <2>4
<1>19. InOrder(Walked)' <=> InOrder(Walked)
  BY <1>1, <1>5 DEF InOrder, Before
<1>20. /\ Missed(Live, IdsIn(Walked))' = Missed(Live, seen)'
       /\ Missed(Passed, IdsIn(Walked))' = Missed(Passed, seen)'
       /\ Again(IdsIn(Walked))' = Again(seen)'
  BY <1>5, <1>10 DEF Missed, Again
<1>21. /\ Full(report.found)' <=> Full(report.found)
       /\ LastPage(report.page)' <=> LastPage(report.page)
       /\ IdsIn(report.found)' = IdsIn(report.found)
       /\ Is("contents")' <=> Is("contents")
  BY <1>1 DEF Full, LastPage, IdsIn, Is
<1>22. Cardinality(Missed(Passed, IdsIn(Walked)))' <= gone'
  BY <1>15, <1>20
<1>23. (Is("contents") /\ LastPage(report.page))' => Cardinality(Missed(Live, IdsIn(Walked)))' <= gone'
  <2>1. Cardinality(Missed(Live, seen)') \in Nat
    BY <1>12, <1>13, FS_Subset, FS_CardinalityType
  <2> QED
    BY <1>4, <1>6, <1>10, <1>13, <1>14, <1>20, <1>21, <2>1
<1>24. (Len(Walked) - Cardinality(IdsIn(Walked)) + Cardinality(Again(IdsIn(Walked))))' <= come'
  BY <1>5, <1>10, <1>16, <1>20
<1>25. (\A id \in IdsIn(report.found) : OccurredOnce(id))'
  BY <1>17, <1>21
<1>26. (gone + come = 0 =>
         /\ InOrder(Walked)
         /\ \A i \in 1..Len(Walked) :
              \E k \in Passed : Walked[i].name = k /\ Walked[i].id = rows[k].id)'
  BY <1>5, <1>18, <1>19
<1> QED
  BY <1>6, <1>21, <1>22, <1>23, <1>24, <1>25, <1>26 DEF Paging

\* A write keeps what has been explained.
LEMMA WriteKeepsExplained ==
  ASSUME Types, NEW n \in Names, Changes(n), Explained
  PROVE  Explained'
<1>1. report' = report
  BY DEF Changes
<1>2. CASE Is("idle")
  BY <1>1, <1>2 DEF Explained, Is
<1>3. CASE ~Is("idle") /\ ~Pages
  BY <1>1, <1>3 DEF Explained, Pages
<1>4. CASE ~Is("idle") /\ Pages
  <2> USE <1>4
  <2>1. ASSUME PagesExplained
        PROVE  PagesExplained'
    <3>1. report.found \in Seq(Entries) /\ IdsIn(report.found) \subseteq Ids
      BY WalkedIs
    <3>2. PICK ids : ids = IdsIn(report.found)
      OBVIOUS
    <3>3. /\ \A id \in ids : OccurredOnce(id)
          /\ Full(report.found) \/ Cardinality(Missed(Live, ids)) <= gone
          /\ Len(report.found) - Cardinality(ids) <= come
          /\ gone + come = 0 =>
               /\ InOrder(report.found)
               /\ \A m \in Missed(Live, ids) : Before(report.found[Len(report.found)],
                                                      [name |-> m, id |-> rows[m].id])
      BY <2>1, <3>1, <3>2, ExplainedIs
    <3>4. /\ gone \in Nat /\ come \in Nat /\ gone' \in Nat /\ come' \in Nat
          /\ gone <= gone' /\ come <= come'
      BY CandidatesChange
    <3>5. \A m \in Missed(Live, ids)' : m \in Missed(Live, ids) /\ rows'[m].id = rows[m].id
      BY MissedShrinks
    <3>6. Live \in SUBSET Names /\ RowsTyped
      BY DEF Live, Types
    <3>7. Len(report.found) \in Nat /\ Cardinality(ids) \in Nat
      BY <3>1, <3>2, IdsInFinite
    <3>8. Full(report.found)' \/ Cardinality(Missed(Live, ids)') <= gone'
      <4>1. IsFiniteSet(Missed(Live, ids)) /\ Cardinality(Missed(Live, ids)) \in Nat
        BY <3>6, MissedFinite
      <4>2. Missed(Live, ids)' \in SUBSET Missed(Live, ids)
        BY <3>5
      <4>3. Cardinality(Missed(Live, ids)') <= Cardinality(Missed(Live, ids))
            /\ Cardinality(Missed(Live, ids)') \in Nat
        BY <4>1, <4>2, FS_Subset, FS_CardinalityType
      <4>4. Full(report.found)' <=> Full(report.found)
        BY <1>1 DEF Full
      <4> QED
        BY <3>3, <3>4, <4>1, <4>3, <4>4
    <3>9. \A id \in ids : OccurredOnce(id)'
      BY <3>1, <3>2, <3>3, OnceStays
    <3>10. Len(report.found) - Cardinality(ids) <= come'
      BY <3>3, <3>4, <3>7
    <3>11. gone' + come' = 0 => gone + come = 0
      <4>1. \A a, b \in Nat : a + b = 0 <=> a = 0 /\ b = 0
        OBVIOUS
      <4>2. gone' = 0 => gone = 0
        BY <3>4
      <4>3. come' = 0 => come = 0
        BY <3>4
      <4> QED
        BY <3>4, <4>1, <4>2, <4>3
    <3>12. gone' + come' = 0 =>
             /\ InOrder(report.found)'
             /\ \A m \in Missed(Live, ids)' : Before(report'.found[Len(report'.found)],
                                                     [name |-> m, id |-> rows'[m].id])
      BY <1>1, <3>3, <3>5, <3>11 DEF InOrder, Before
    <3>13. IdsIn(report.found)' = ids
      BY <1>1, <3>2 DEF IdsIn
    <3>14. /\ (\A id \in IdsIn(report.found) : OccurredOnce(id))'
           /\ (Full(report.found) \/ Cardinality(Missed(Live, IdsIn(report.found))) <= gone)'
           /\ (Len(report.found) - Cardinality(IdsIn(report.found)) <= come)'
           /\ (gone + come = 0 =>
                /\ InOrder(report.found)
                /\ \A m \in Missed(Live, IdsIn(report.found)) :
                     Before(report.found[Len(report.found)], [name |-> m, id |-> rows[m].id]))'
      <4>1. Missed(Live, IdsIn(report.found))' = Missed(Live, ids)'
        BY <3>13 DEF Missed
      <4>2. (Full(report.found) \/ Cardinality(Missed(Live, IdsIn(report.found))) <= gone)'
        BY <3>8, <4>1
      <4>3. (gone + come = 0 =>
                /\ InOrder(report.found)
                /\ \A m \in Missed(Live, IdsIn(report.found)) :
                     Before(report.found[Len(report.found)], [name |-> m, id |-> rows[m].id]))'
        BY <1>1, <3>12, <4>1 DEF Before
      <4> QED
        BY <1>1, <3>9, <3>10, <3>13, <4>2, <4>3
    <3>15. (report.found \in Seq(Entries))'
      BY <1>1, <3>1 DEF Entries
    <3>16. DOMAIN report'.found = 1..Len(report'.found)
      BY <1>1, <3>1
    <3> QED
      BY <3>14, <3>16 DEF PagesExplained, IdsIn, Missed, OccurredOnce, InOrder, Last
  <2>2. ASSUME NEW id \in Ids, Cardinality(ever[id]) > 1
        PROVE  Cardinality(ever'[id]) > 1
    <3>1. Observed /\ RowsTyped /\ RowsTyped' /\ HistoryTyped
      BY RowsStayTyped DEF Changes, Types
    <3>2. IsFiniteSet(ever'[id]) /\ ever[id] \in SUBSET ever'[id]
      BY <1>1, <3>1, HistoryGrows DEF HistoryTyped, Is
    <3>3. Cardinality(ever[id]) <= Cardinality(ever'[id])
          /\ Cardinality(ever[id]) \in Nat /\ Cardinality(ever'[id]) \in Nat
      BY <3>2, FS_Subset, FS_CardinalityType
    <3> QED
      BY <2>2, <3>3
  <2> QED
    BY <1>1, <2>1, <2>2 DEF Explained, Is, Pages
<1> QED
  BY <1>2, <1>3, <1>4

-----------------------------------------------------------------------------
(* What a report makes of an object.                                         *)

\* A question has a zone and a time range.
LEMMA AskTyped ==
  ASSUME Types, ~Is("idle")
  PROVE  /\ report.ask \in Questions /\ IsZone(report.ask.zone)
         /\ report.ask.from \in Int /\ report.ask.to \in Int
         /\ report.ask.from \in -Infinity..Infinity
<1>1. report.ask \in Questions
  BY Stage DEF Types
<1>2. -Infinity \in Int /\ Infinity \in Int
  BY TimeAssumption DEF Infinity
<1> QED
  BY <1>1, <1>2, QuestionsAssumption

\* What occurs is a candidate, ...
LEMMA OccursListed ==
  ASSUME Clocks, Types, ~Is("idle"), NEW n \in Live, Occurs(rows[n].object)
  PROVE  n \in Candidates
<1>1. /\ rows[n].object \in Known /\ rows[n].index = ComputeTimeRangeIndex(rows[n].object)
  BY DEF Types, RowsTyped
<1>2. IsObject(rows[n].object)
  BY <1>1, KnownObject
<1>3. Steady(rows[n].object, report.ask.zone) /\ UntilHolds(rows[n].object, report.ask.zone)
  BY <1>1, AskTyped DEF Clocks
<1>4. TrueOccurrences(rows[n].object, report.ask.zone, report.ask.from, report.ask.to) # {}
  BY DEF Occurs
<1>5. Prefilter(rows[n].index, report.ask.from, report.ask.to)
  BY <1>1, <1>2, <1>3, <1>4, AskTyped, OverlapsUnless
<1> QED
  BY <1>5 DEF Candidates

\* ... and matches.
LEMMA MatchesOccurs ==
  ASSUME Clocks, Unambiguous, Types, ~Is("idle"), NEW o \in Known
  PROVE  /\ Matches(o) <=> Occurs(o)
         /\ ExpandOccurrences(o, report.ask.zone, report.ask.from, report.ask.to)
            = TrueOccurrences(o, report.ask.zone, report.ask.from, report.ask.to)
<1>1. IsObject(o)
  BY KnownObject
<1>2. Steady(o, report.ask.zone) /\ ~AmbiguousLength(o, report.ask.zone)
  BY AskTyped DEF Clocks, Unambiguous
<1>3. ExpandOccurrences(o, report.ask.zone, report.ask.from, report.ask.to)
      = TrueOccurrences(o, report.ask.zone, report.ask.from, report.ask.to)
  BY <1>1, <1>2, AskTyped, NearTheRange
<1> QED
  BY <1>3 DEF Matches, Occurs

\* PagesExplained in these terms, as a formula with a name of its own.
FoundTyped == report.found \in Seq(Entries)

\* PagesExplained in these terms.
Accounted ==
  /\ \A id \in IdsIn(report.found) : OccurredOnce(id)
  /\ Full(report.found) \/ Cardinality(Missed(Live, IdsIn(report.found))) <= gone
  /\ Len(report.found) - Cardinality(IdsIn(report.found)) <= come
  /\ gone + come = 0 =>
       /\ InOrder(report.found)
       /\ \A n \in Missed(Live, IdsIn(report.found)) :
            Before(report.found[Len(report.found)], [name |-> n, id |-> rows[n].id])

\* That they are the same.
AccountFits == PagesExplained <=> Accounted

\* They are.
LEMMA AccountIs == FoundTyped => AccountFits
BY ExplainedIs DEF FoundTyped, AccountFits, Accounted

\* PagesExplained is about what was found, not about the step that is next.
LEMMA SameExplained ==
  ASSUME PagesExplained, report.found \in Seq(Entries), UNCHANGED <<rows, history>>,
         report'.ask = report.ask, report'.found = report.found
  PROVE  PagesExplained'
<1>1. Accounted
  BY AccountIs DEF FoundTyped, AccountFits
<1>2. PICK ids : ids = IdsIn(report.found)
  OBVIOUS
<1>3. IdsIn(report.found)' = ids /\ rows' = rows /\ ever' = ever /\ gone' = gone /\ come' = come
  BY <1>2 DEF IdsIn, history
<1>4. Missed(Live, ids)' = Missed(Live, ids)
  BY <1>3 DEF Missed, Live, Occurs
<1>5. \A id \in ids : OccurredOnce(id)'
  BY <1>1, <1>2, <1>3 DEF Accounted, OccurredOnce, Occurs
<1>6. Full(report.found)' <=> Full(report.found)
  BY DEF Full
<1>7. InOrder(report.found)' <=> InOrder(report.found)
  BY DEF InOrder, Before
<1>8. \A n : Before(report.found[Len(report.found)], [name |-> n, id |-> rows[n].id])'
             <=> Before(report.found[Len(report.found)], [name |-> n, id |-> rows[n].id])
  BY <1>3 DEF Before
<1>9. Missed(Live, IdsIn(report.found))' = Missed(Live, ids)
  <2>1. Missed(Live, IdsIn(report.found))' = Missed(Live, ids)'
    BY <1>3 DEF Missed
  <2> QED
    BY <1>4, <2>1
<1>10. Accounted'
  BY <1>1, <1>2, <1>3, <1>5, <1>6, <1>7, <1>8, <1>9 DEF Accounted
<1>11. (FoundTyped => AccountFits)'
  BY AccountIs, PTL
<1>12. FoundTyped'
  BY DEF FoundTyped, Entries
<1> QED
  BY <1>10, <1>11, <1>12 DEF AccountFits

\* When no candidates are left, all pages are explained.
LEMMA LastPageRead ==
  ASSUME Clocks, Types, Paging, Is("page"), Pages, Cardinality(Candidates) <= report.offset
  PROVE  PagesExplained
<1>1. ~Is("idle") /\ RowsTyped
  BY DEF Is, Types
<1>2. Walked = report.found /\ report.found \in Seq(Entries)
  <2>1. report.page = <<>>
    BY <1>1, Stage DEF Types, Is
  <2> QED
    BY <1>1, <2>1, WalkedIs
<1> DEFINE ids == IdsIn(report.found)
           n == Cardinality(Candidates)
<1>3. Passed = Candidates
  <2>1. \A m \in Candidates : Rank(Candidates, Less, m) + 1 \in 1..n
    BY <1>1, OrderedIs DEF OrderedRight
  <2>2. n \in Nat /\ report.offset \in Nat
    BY <1>1, OrderedIs, Stage DEF OrderedRight, Types
  <2>3. \A m \in Candidates : Rank(Candidates, Less, m) \in Nat
    BY <1>1, OrderedIs, CandidatesFinite, RankLess DEF OrderedRight, FiniteRows
  <2>4. \A m \in Candidates : Rank(Candidates, Less, m) < report.offset
    <3> HIDE DEF n
    <3> QED
      BY <2>1, <2>2, <2>3 DEF n
  <2> QED
    BY <2>4 DEF Passed, FirstOf
<1>4. /\ Cardinality(Missed(Passed, ids)) <= gone
      /\ Len(report.found) - Cardinality(ids) + Cardinality(Again(ids)) <= come
      /\ \A id \in ids : OccurredOnce(id)
      /\ gone + come = 0 => InOrder(report.found)
  BY <1>2 DEF Paging
<1> HIDE DEF ids
<1>5. gone \in Nat /\ come \in Nat
  BY DEF Types, HistoryTyped
<1>6. Missed(Live, ids) \subseteq Missed(Passed, ids)
  BY <1>1, <1>3, OccursListed DEF Missed
<1>7. Passed \in SUBSET Names /\ Again(ids) \in SUBSET Names
  BY DEF Passed, FirstOf, Again, Candidates, Live
<1>8. Cardinality(Missed(Live, ids)) <= gone /\ (gone = 0 => Missed(Live, ids) = {})
  <2>1. IsFiniteSet(Missed(Passed, ids)) /\ Cardinality(Missed(Passed, ids)) \in Nat
    BY <1>1, <1>7, MissedFinite
  <2>2. /\ IsFiniteSet(Missed(Live, ids)) /\ Cardinality(Missed(Live, ids)) \in Nat
        /\ Cardinality(Missed(Live, ids)) <= Cardinality(Missed(Passed, ids))
    BY <1>6, <2>1, FS_Subset, FS_CardinalityType
  <2>3. Cardinality(Missed(Live, ids)) <= gone
    BY <1>4, <1>5, <2>1, <2>2
  <2>4. Cardinality(Missed(Live, ids)) = 0 => Missed(Live, ids) = {}
    BY <2>2, FS_EmptySet
  <2> QED
    BY <1>5, <2>2, <2>3, <2>4
<1>9. Len(report.found) - Cardinality(ids) <= come
  <2>1. Cardinality(Again(ids)) \in Nat
    BY <1>1, <1>7, CandidatesFinite DEF FiniteRows
  <2>2. Len(report.found) \in Nat /\ Cardinality(ids) \in Nat
    BY <1>2, IdsInFinite DEF ids
  <2> QED
    BY <1>4, <1>5, <2>1, <2>2
<1>10. gone + come = 0 => Missed(Live, ids) = {}
  <2>1. \A a, b \in Nat : a + b = 0 => a = 0
    OBVIOUS
  <2> QED
    BY <1>5, <1>8, <2>1
<1> QED
  BY <1>2, <1>4, <1>8, <1>9, <1>10, ExplainedIs DEF ids

\* The rows of a page: those next in order.
LEMMA PageRows ==
  ASSUME RowsTyped, NEW k \in Nat, NEW last \in Nat, k < last, last <= Cardinality(Candidates)
  PROVE  LET page == [i \in 1..(last - k) |-> Entry(Ordered[k + i])]
             N == {m \in Candidates : k <= Rank(Candidates, Less, m) /\ Rank(Candidates, Less, m) < last}
         IN /\ \A i \in 1..(last - k) : /\ Ordered[k + i] \in N /\ page[i] = Entry(Ordered[k + i])
                                        /\ Rank(Candidates, Less, Ordered[k + i]) = k + i - 1
            /\ \A m \in N : \E i \in 1..(last - k) : Ordered[k + i] = m
            /\ IsFiniteSet(N) /\ Cardinality(N) = last - k
            /\ FirstOf(Candidates, Less, last) = FirstOf(Candidates, Less, k) \cup N
            /\ FirstOf(Candidates, Less, k) \cap N = {}
<1> DEFINE n == Cardinality(Candidates)
           rank(m) == Rank(Candidates, Less, m)
           page == [i \in 1..(last - k) |-> Entry(Ordered[k + i])]
           N == {m \in Candidates : k <= rank(m) /\ rank(m) < last}
           f == [i \in 1..(last - k) |-> Ordered[k + i]]
<1>1. /\ n \in Nat /\ Ordered \in [1..n -> Candidates]
      /\ \A i \in 1..n : rank(Ordered[i]) = i - 1
      /\ \A m \in Candidates : rank(m) + 1 \in 1..n /\ Ordered[rank(m) + 1] = m
      /\ \A i, j \in 1..n : Ordered[i] = Ordered[j] => i = j
  BY OrderedIs DEF OrderedRight
<1>2. \A m \in Candidates : rank(m) \in Nat
  BY OrderedIs, CandidatesFinite, RankLess DEF OrderedRight, FiniteRows
<1> HIDE DEF n, rank
<1>3. last - k \in Nat /\ \A i \in 1..(last - k) : k + i \in 1..n
  BY <1>1 DEF n
<1>4. \A i \in 1..(last - k) : /\ Ordered[k + i] \in N /\ rank(Ordered[k + i]) = k + i - 1
  <2>1. ASSUME NEW i \in 1..(last - k)
        PROVE  Ordered[k + i] \in N /\ rank(Ordered[k + i]) = k + i - 1
    <3>1. k + i \in 1..n
      BY <1>3
    <3>2. Ordered[k + i] \in Candidates /\ rank(Ordered[k + i]) = k + i - 1
      BY <1>1, <3>1
    <3>3. k <= k + i - 1 /\ k + i - 1 < last
      OBVIOUS
    <3> QED
      BY <3>2, <3>3
  <2> QED
    BY <2>1
<1>5. ASSUME NEW m \in N
      PROVE  \E i \in 1..(last - k) : Ordered[k + i] = m
  <2>1. rank(m) \in Nat /\ k <= rank(m) /\ rank(m) < last /\ Ordered[rank(m) + 1] = m
    BY <1>1, <1>2
  <2>2. rank(m) + 1 - k \in 1..(last - k) /\ k + (rank(m) + 1 - k) = rank(m) + 1
    BY <2>1
  <2> QED
    BY <2>1, <2>2
<1>6. IsFiniteSet(N) /\ Cardinality(N) = last - k
  <2>1. f \in [1..(last - k) -> N]
    BY <1>4
  <2>2. \A i, j \in 1..(last - k) : f[i] = f[j] => i = j
    <3>1. SUFFICES ASSUME NEW i \in 1..(last - k), NEW j \in 1..(last - k), f[i] = f[j]
                   PROVE  i = j
      OBVIOUS
    <3>2. k + i = k + j
      BY <1>1, <1>3, <3>1
    <3> QED
      BY <3>2
  <2>3. \A m \in N : \E i \in 1..(last - k) : f[i] = m
    BY <1>5
  <2>4. IsFiniteSet(1..(last - k)) /\ Cardinality(1..(last - k)) = last - k
    <3>1. \A x \in Nat : IsFiniteSet(1..x) /\ Cardinality(1..x) = x
      BY FS_Interval
    <3> QED
      BY <1>3, <3>1
  <2> HIDE DEF f, N
  <2>5. f \in Injection(1..(last - k), N)
    BY <2>1, <2>2 DEF Injection, IsInjective
  <2>6. f \in Surjection(1..(last - k), N)
    BY <2>1, <2>3 DEF Surjection
  <2> QED
    BY <2>4, <2>5, <2>6, FS_Surjection
<1>7. FirstOf(Candidates, Less, last) = FirstOf(Candidates, Less, k) \cup N
      /\ FirstOf(Candidates, Less, k) \cap N = {}
  <2>1. /\ FirstOf(Candidates, Less, last) = {m \in Candidates : rank(m) < last}
        /\ FirstOf(Candidates, Less, k) = {m \in Candidates : rank(m) < k}
    BY DEF FirstOf, rank
  <2>2. \A m \in Candidates : /\ rank(m) < last <=> rank(m) < k \/ (k <= rank(m) /\ rank(m) < last)
                              /\ ~(rank(m) < k /\ k <= rank(m))
    BY <1>2
  <2> QED
    BY <2>1, <2>2
<1> QED
  BY <1>4, <1>5, <1>6, <1>7 DEF rank

\* Reading the next page keeps the account.
LEMMA NextPageRead ==
  ASSUME Clocks, Types, Paging, Pages, Is("page"), NEW last \in Nat, ReadsUpTo(last),
         UNCHANGED <<rows, unused, writes, history>>
  PROVE  Paging'
<1> USE DEF ReadsUpTo
<1> DEFINE k == report.offset
           page == [i \in 1..(last - k) |-> Entry(Ordered[k + i])]
           N == {m \in Candidates : k <= Rank(Candidates, Less, m) /\ Rank(Candidates, Less, m) < last}
           found == report.found
           old == IdsIn(found)
           fresh == {rows[m].id : m \in N}
<1>1. /\ ~Is("idle") /\ RowsTyped /\ DOMAIN report = Fields /\ k \in Nat
      /\ found \in Seq(Entries) /\ report.page = <<>> /\ Walked = found
  <2>1. ~Is("idle") /\ RowsTyped
    BY DEF Is, Types
  <2>2. DOMAIN report = Fields /\ k \in Nat /\ found \in Seq(Entries) /\ report.page = <<>>
    BY <2>1, Stage DEF Types, Is
  <2> QED
    BY <2>1, <2>2, WalkedIs
<1>2. /\ report'.pc = "contents" /\ report'.offset = last /\ report'.page = page
      /\ report'.ask = report.ask /\ report'.found = found
  BY <1>1 DEF Fields
<1>3. /\ ~Full(found)
      /\ Cardinality(Missed(Passed, old)) <= gone
      /\ Len(found) - Cardinality(old) + Cardinality(Again(old)) <= come
      /\ \A id \in old : OccurredOnce(id)
      /\ gone + come = 0 =>
           /\ InOrder(found)
           /\ \A i \in 1..Len(found) : \E m \in Passed : found[i].name = m /\ found[i].id = rows[m].id
  BY <1>1 DEF Paging
<1>4. /\ \A i \in 1..(last - k) : /\ Ordered[k + i] \in N /\ page[i] = Entry(Ordered[k + i])
                                  /\ Rank(Candidates, Less, Ordered[k + i]) = k + i - 1
      /\ \A m \in N : \E i \in 1..(last - k) : Ordered[k + i] = m
      /\ IsFiniteSet(N) /\ Cardinality(N) = last - k
      /\ FirstOf(Candidates, Less, last) = Passed \cup N /\ Passed \cap N = {}
  BY <1>1, PageRows DEF Passed
<1>5. /\ Candidates' = Candidates /\ Live' = Live /\ Less' = Less
      /\ Passed' = Passed \cup N
  <2>1. Candidates' = Candidates /\ Live' = Live /\ Less' = Less
    BY <1>2 DEF Candidates, Live, Less, Before, Entry
  <2> QED
    BY <1>2, <1>4, <2>1 DEF Passed
<1>6. /\ N \subseteq Candidates /\ Candidates \subseteq Live /\ Live \subseteq Names
      /\ Passed \subseteq Candidates
  BY DEF Candidates, Live, Passed, FirstOf
<1>7. page \in Seq(Entries) /\ Len(page) = last - k
  <2>1. last - k \in Nat
    BY <1>1
  <2>2. \A i \in 1..(last - k) : Entry(Ordered[k + i]) \in Entries
    BY <1>1, <1>4, <1>6, EntriesTyped
  <2> QED
    BY <2>1, <2>2, IsASeq
<1> HIDE DEF N
<1>8. IdsIn(page) = fresh
  <2>1. DOMAIN page = 1..(last - k)
    OBVIOUS
  <2>2. \A i \in 1..(last - k) : page[i].id \in fresh
    BY <1>4 DEF Entry
  <2>3. \A m \in N : \E i \in 1..(last - k) : page[i].id = rows[m].id
    BY <1>4 DEF Entry
  <2> HIDE DEF page
  <2>4. IdsIn(page) \subseteq fresh
    <3> HIDE DEF fresh
    <3> QED
      BY <2>1, <2>2 DEF IdsIn
  <2>5. fresh \subseteq IdsIn(page)
    BY <2>1, <2>3 DEF IdsIn
  <2> QED
    BY <2>4, <2>5
<1> HIDE DEF k, page, found, old
<1>9. /\ Walked' \in Seq(Entries) /\ Len(Walked') = Len(found) + (last - k)
      /\ IdsIn(Walked') = old \cup fresh
      /\ \A i \in 1..Len(Walked') :
           IF i <= Len(found) THEN Walked'[i] = found[i]
           ELSE i - Len(found) \in 1..(last - k) /\ Walked'[i] = page[i - Len(found)]
  <2>1. Walked' = found \o page
    BY <1>2 DEF Walked
  <2>2. /\ found \o page \in Seq(Entries) /\ Len(found \o page) = Len(found) + (last - k)
        /\ \A i \in 1..(Len(found) + (last - k)) :
             (found \o page)[i] = IF i <= Len(found) THEN found[i] ELSE page[i - Len(found)]
    <3>1. /\ found \o page \in Seq(Entries) /\ Len(found \o page) = Len(found) + Len(page)
          /\ \A i \in 1..(Len(found) + Len(page)) :
               (found \o page)[i] = IF i <= Len(found) THEN found[i] ELSE page[i - Len(found)]
      BY <1>1, <1>7, ConcatProperties DEF found
    <3> QED
      BY <1>7, <3>1
  <2>3. Len(found) \in Nat /\ last - k \in Nat
    BY <1>1, <1>7 DEF found
  <2>4. \A i \in 1..(Len(found) + (last - k)) : ~(i <= Len(found)) => i - Len(found) \in 1..(last - k)
    BY <2>3
  <2>5. \A j \in 1..(last - k) : /\ j + Len(found) \in 1..(Len(found) + (last - k))
                                 /\ ~(j + Len(found) <= Len(found)) /\ (j + Len(found)) - Len(found) = j
    BY <2>3
  <2>6. DOMAIN found = 1..Len(found) /\ DOMAIN page = 1..(last - k)
        /\ DOMAIN (found \o page) = 1..(Len(found) + (last - k))
    BY <1>1, <1>7, <2>2 DEF found
  <2>7. IdsIn(found \o page) = IdsIn(found) \cup IdsIn(page)
    <3>1. \A i \in 1..Len(found) : i \in 1..(Len(found) + (last - k))
      BY <2>3
    <3>2. \A x \in IdsIn(found) : x \in IdsIn(found \o page)
      BY <2>2, <2>6, <3>1 DEF IdsIn
    <3>3. \A x \in IdsIn(page) : x \in IdsIn(found \o page)
      BY <2>2, <2>5, <2>6 DEF IdsIn
    <3>4. \A x \in IdsIn(found \o page) : x \in IdsIn(found) \/ x \in IdsIn(page)
      BY <2>2, <2>4, <2>6 DEF IdsIn
    <3> QED
      BY <3>2, <3>3, <3>4
  <2> QED
    BY <1>8, <2>1, <2>2, <2>4, <2>7 DEF old
<1>10. PICK seen : seen = old \cup fresh
  OBVIOUS
<1>11. \A S : /\ Missed(S, seen)' = Missed(S, seen)
  BY <1>2 DEF Missed, Occurs, history
<1>12. Missed(Passed \cup N, seen) \subseteq Missed(Passed, old)
  BY <1>10 DEF Missed
<1>13. gone \in Nat /\ come \in Nat
  BY DEF Types, HistoryTyped
<1>14. IsFiniteSet(Missed(Passed, old)) /\ Cardinality(Missed(Passed, old)) \in Nat
  <2>1. Passed \in SUBSET Names
    BY <1>6
  <2> QED
    BY <1>1, <2>1, MissedFinite
<1>15. Cardinality(Missed(Passed \cup N, seen)) <= gone
  <2>1. /\ Cardinality(Missed(Passed \cup N, seen)) <= Cardinality(Missed(Passed, old))
        /\ Cardinality(Missed(Passed \cup N, seen)) \in Nat
    BY <1>12, <1>14, FS_Subset, FS_CardinalityType
  <2> QED
    BY <1>3, <1>13, <1>14, <2>1
<1>16. LastPage(page) => Cardinality(Missed(Live, seen)) <= gone
  <2>1. SUFFICES ASSUME LastPage(page)
                 PROVE  Cardinality(Missed(Live, seen)) <= gone
    OBVIOUS
  <2>2. last - k < PageSize
    BY <1>7, <2>1 DEF LastPage
  <2>3. last = Cardinality(Candidates)
    BY <1>1, <2>2, PageAssumption DEF k
  <2>4. Passed \cup N = Candidates
    <3>1. \A m \in Candidates : Rank(Candidates, Less, m) + 1 \in 1..last
      BY <1>1, <2>3, OrderedIs DEF OrderedRight
    <3>2. \A m \in Candidates : Rank(Candidates, Less, m) \in Nat
      BY <1>1, OrderedIs, CandidatesFinite, RankLess DEF OrderedRight, FiniteRows
    <3>3. \A m \in Candidates : Rank(Candidates, Less, m) < last
      BY <3>1, <3>2
    <3> QED
      BY <1>4, <3>3 DEF FirstOf
  <2>5. Missed(Live, seen) \subseteq Missed(Passed \cup N, seen)
    BY <1>1, <2>4, OccursListed DEF Missed
  <2>6. Missed(Passed \cup N, seen) \subseteq Missed(Live, seen)
    BY <1>6 DEF Missed
  <2> QED
    BY <1>15, <2>5, <2>6
<1>17. Len(Walked') - Cardinality(seen) + Cardinality(Again(seen)') <= come
  <2> DEFINE twice == {m \in N : rows[m].id \in old}
             once == N \ twice
             again == {m \in Candidates \ (Passed \cup N) : rows[m].id \in seen}
             news == {rows[m].id : m \in once}
  <2>1. Again(seen)' = again
    BY <1>5 DEF Again
  <2>2. IsFiniteSet(twice) /\ IsFiniteSet(once) /\ Cardinality(twice) + Cardinality(once) = last - k
        /\ Cardinality(twice) \in Nat /\ Cardinality(once) \in Nat
    <3>1. twice \in SUBSET N /\ N \cap twice = twice
      OBVIOUS
    <3>2. IsFiniteSet(twice) /\ Cardinality(twice) \in Nat
      BY <1>4, <3>1, FS_Subset, FS_CardinalityType
    <3> HIDE DEF twice
    <3>3. IsFiniteSet(N \ twice) /\ Cardinality(N \ twice) = Cardinality(N) - Cardinality(N \cap twice)
      BY <1>4, FS_Difference
    <3>4. Cardinality(N \ twice) \in Nat
      BY <3>3, FS_CardinalityType
    <3>5. last - k \in Nat
      BY <1>4, FS_CardinalityType
    <3>6. Cardinality(N) = last - k /\ Cardinality(N \cap twice) = Cardinality(twice)
      BY <1>4, <3>1
    <3>7. Cardinality(N \ twice) = (last - k) - Cardinality(twice)
      BY <3>3, <3>6
    <3>8. \A x, y \in Nat, z \in Nat : z = x - y => y + z = x
      OBVIOUS
    <3>9. Cardinality(twice) + Cardinality(N \ twice) = last - k
      BY <3>2, <3>4, <3>5, <3>7, <3>8
    <3> QED
      BY <3>2, <3>3, <3>4, <3>9
  <2>3. IsFiniteSet(again) /\ Cardinality(again) \in Nat /\ IsFiniteSet(Again(old)) /\ Cardinality(Again(old)) \in Nat
    <3>1. again \in SUBSET Names /\ Again(old) \in SUBSET Names
      BY <1>6 DEF Again
    <3> HIDE DEF again
    <3> QED
      BY <1>1, <3>1, CandidatesFinite DEF FiniteRows
  <2>4. \A m, j \in Candidates : rows[m].id = rows[j].id => m = j
    BY <1>1, <1>6 DEF RowsTyped
  <2>5. again \cup twice \subseteq Again(old) /\ again \cap twice = {}
    <3>1. again \cap twice = {} /\ twice \subseteq Again(old)
      BY <1>4, <1>6 DEF Again
    <3>2. ASSUME NEW m \in again
          PROVE  m \in Again(old)
      <4>1. rows[m].id \notin fresh
        BY <1>6, <2>4
      <4> QED
        BY <1>10, <4>1 DEF Again
    <3> QED
      BY <3>1, <3>2
  <2>6. Cardinality(again) + Cardinality(twice) <= Cardinality(Again(old))
    <3> HIDE DEF again, twice
    <3>1. again \cup twice \in SUBSET Again(old)
      BY <2>5
    <3>2. Cardinality(again \cup twice) <= Cardinality(Again(old))
      BY <2>3, <3>1, FS_Subset
    <3>3. Cardinality(again \cup twice) = Cardinality(again) + Cardinality(twice) - Cardinality(again \cap twice)
      BY <2>2, <2>3, FS_Union
    <3>4. Cardinality(again \cap twice) = 0
      BY <2>5, FS_EmptySet
    <3> QED
      BY <2>2, <2>3, <3>2, <3>3, <3>4
  <2>7. IsFiniteSet(old) /\ Cardinality(old) \in Nat
    BY <1>1, IdsInFinite DEF old, found
  <2>8. IsFiniteSet(news) /\ Cardinality(news) = Cardinality(once)
    <3> DEFINE f == [m \in once |-> rows[m].id]
    <3>1. once \subseteq Candidates
      BY <1>6
    <3>2. f \in [once -> news] /\ (\A m, j \in once : f[m] = f[j] => m = j)
          /\ (\A x \in news : \E m \in once : f[m] = x)
      BY <2>4, <3>1
    <3> HIDE DEF f, once, news
    <3>3. f \in Injection(once, news)
      BY <3>2 DEF Injection, IsInjective
    <3>4. f \in Surjection(once, news)
      BY <3>2 DEF Surjection
    <3> QED
      BY <2>2, <3>3, <3>4, FS_Surjection
  <2>9. news \cap old = {} /\ old \cup news \subseteq seen
    BY <1>10
  <2>10. IsFiniteSet(seen) /\ Cardinality(seen) \in Nat /\ Cardinality(old) + Cardinality(once) <= Cardinality(seen)
    <3>1. IsFiniteSet(seen)
      <4>1. IdsIn(Walked') = seen
        BY <1>9, <1>10
      <4> QED
        BY <1>9, <4>1, IdsInFinite
    <3> HIDE DEF news, once
    <3>2. old \cup news \in SUBSET seen
      BY <2>9
    <3>3. Cardinality(old \cup news) <= Cardinality(seen)
      BY <3>1, <3>2, FS_Subset
    <3>4. Cardinality(old \cup news) = Cardinality(old) + Cardinality(news) - Cardinality(old \cap news)
      BY <2>7, <2>8, FS_Union
    <3>5. Cardinality(old \cap news) = 0
      <4>1. old \cap news = {}
        BY <2>9
      <4> QED
        BY <4>1, FS_EmptySet
    <3>6. Cardinality(seen) \in Nat
      BY <3>1, FS_CardinalityType
    <3> QED
      BY <2>2, <2>7, <2>8, <3>1, <3>3, <3>4, <3>5, <3>6
  <2>11. Len(found) \in Nat
    BY <1>1 DEF found
  <2> HIDE DEF again, twice, once, news
  <2>12. Cardinality(Again(seen)') = Cardinality(again)
    BY <2>1
  <2>13. Len(Walked') = Len(found) + Cardinality(twice) + Cardinality(once)
    BY <1>9, <2>2, <2>11
  <2> QED
    <3>1. \A l, t, o, s, a, d, b, c \in Nat :
            l - d + b <= c /\ a + t <= b /\ d + o <= s => l + t + o - s + a <= c
      OBVIOUS
    <3>2. Len(found) - Cardinality(old) + Cardinality(Again(old)) <= come
      BY <1>3
    <3>3. /\ Len(found) \in Nat /\ Cardinality(old) \in Nat /\ Cardinality(seen) \in Nat
          /\ Cardinality(twice) \in Nat /\ Cardinality(once) \in Nat
          /\ Cardinality(again) \in Nat /\ Cardinality(Again(old)) \in Nat /\ come \in Nat
      BY <1>13, <2>2, <2>3, <2>7, <2>10, <2>11
    <3>4. /\ Cardinality(again) + Cardinality(twice) <= Cardinality(Again(old))
          /\ Cardinality(old) + Cardinality(once) <= Cardinality(seen)
      BY <2>6, <2>10
    <3> DEFINE L == Len(found)
               CO == Cardinality(old)
               CS == Cardinality(seen)
               CT == Cardinality(twice)
               CN == Cardinality(once)
               CA == Cardinality(again)
               CB == Cardinality(Again(old))
    <3>5. /\ L \in Nat /\ CO \in Nat /\ CS \in Nat /\ CT \in Nat /\ CN \in Nat
          /\ CA \in Nat /\ CB \in Nat /\ come \in Nat
          /\ L - CO + CB <= come /\ CA + CT <= CB /\ CO + CN <= CS
      BY <3>2, <3>3, <3>4
    <3>6. Len(Walked') = L + CT + CN /\ Cardinality(seen) = CS /\ Cardinality(Again(seen)') = CA
      BY <2>12, <2>13
    <3> HIDE DEF L, CO, CS, CT, CN, CA, CB
    <3>7. L + CT + CN - CS + CA <= come
      BY <3>5
    <3>8. \A w, s, a : w = L + CT + CN /\ s = CS /\ a = CA => w - s + a <= come
      BY <3>5, <3>7
    <3> QED
      BY <3>6, <3>8
<1>18. \A id \in old : OccurredOnce(id)'
  BY <1>2, <1>3 DEF OccurredOnce, Occurs, history
<1>19. gone + come = 0 =>
         /\ \A i, j \in 1..Len(Walked') : i < j => Before(Walked'[i], Walked'[j])
         /\ \A i \in 1..Len(Walked') :
              \E m \in Passed \cup N : Walked'[i].name = m /\ Walked'[i].id = rows[m].id
  <2>1. SUFFICES ASSUME gone + come = 0
                 PROVE  /\ \A i, j \in 1..Len(Walked') : i < j => Before(Walked'[i], Walked'[j])
                        /\ \A i \in 1..Len(Walked') :
                             \E m \in Passed \cup N : Walked'[i].name = m /\ Walked'[i].id = rows[m].id
    OBVIOUS
  <2>2. /\ InOrder(found)
        /\ \A i \in 1..Len(found) : \E m \in Passed : found[i].name = m /\ found[i].id = rows[m].id
    BY <1>3, <2>1
  <2>3. \A m, j \in Candidates : Rank(Candidates, Less, m) < Rank(Candidates, Less, j)
                                 => Before(Entry(m), Entry(j))
    <3>1. \A m, j \in Candidates : Rank(Candidates, Less, m) < Rank(Candidates, Less, j) => <<m, j>> \in Less
      BY <1>1, OrderedIs, CandidatesFinite, RankLess DEF OrderedRight, FiniteRows
    <3> QED
      BY <1>1, <1>6, <3>1, OrderedIs DEF OrderedRight
  <2>4. \A m, j : \A e, f : /\ e.name = m /\ e.id = rows[m].id /\ f.name = j /\ f.id = rows[j].id
                            /\ Before(Entry(m), Entry(j))
                            => Before(e, f)
    BY DEF Before, Entry
  <2>5. ASSUME NEW i \in 1..Len(Walked')
        PROVE  IF i <= Len(found)
               THEN \E m \in Passed : Walked'[i].name = m /\ Walked'[i].id = rows[m].id
               ELSE /\ i - Len(found) \in 1..(last - k) /\ Ordered[k + (i - Len(found))] \in N
                    /\ Walked'[i].name = Ordered[k + (i - Len(found))]
                    /\ Walked'[i].id = rows[Ordered[k + (i - Len(found))]].id
    <3>1. CASE i <= Len(found)
      <4>1. i \in 1..Len(found) /\ Walked'[i] = found[i]
        BY <1>1, <1>9, <3>1 DEF found
      <4> QED
        BY <2>2, <3>1, <4>1
    <3>2. CASE ~(i <= Len(found))
      <4>1. i - Len(found) \in 1..(last - k) /\ Walked'[i] = page[i - Len(found)]
        BY <1>9, <3>2
      <4>2. /\ Ordered[k + (i - Len(found))] \in N
            /\ page[i - Len(found)] = Entry(Ordered[k + (i - Len(found))])
        BY <1>4, <4>1 DEF k, page
      <4> QED
        BY <3>2, <4>1, <4>2 DEF Entry
    <3> QED
      BY <3>1, <3>2
  <2>6. \A i \in 1..Len(Walked') :
          \E m \in Passed \cup N : Walked'[i].name = m /\ Walked'[i].id = rows[m].id
    BY <2>5
  <2>7. ASSUME NEW i \in 1..Len(Walked'), NEW j \in 1..Len(Walked'), i < j
        PROVE  Before(Walked'[i], Walked'[j])
    <3>1. i \in Int /\ j \in Int /\ Len(found) \in Nat
      BY <1>1 DEF found
    <3>2. CASE j <= Len(found)
      <4>1. i \in 1..Len(found) /\ j \in 1..Len(found) /\ i <= Len(found)
        BY <2>7, <3>1, <3>2
      <4>2. Walked'[i] = found[i] /\ Walked'[j] = found[j]
        BY <1>9, <3>2, <4>1
      <4> QED
        BY <2>2, <2>7, <4>1, <4>2 DEF InOrder
    <3>3. CASE i <= Len(found) /\ ~(j <= Len(found))
      <4>1. PICK m \in Passed : Walked'[i].name = m /\ Walked'[i].id = rows[m].id
        BY <2>5, <3>3
      <4>2. PICK l \in N : Walked'[j].name = l /\ Walked'[j].id = rows[l].id
        BY <2>5, <3>3
      <4>3. Rank(Candidates, Less, m) < Rank(Candidates, Less, l) /\ m \in Candidates /\ l \in Candidates
        <5>1. m \in Candidates /\ l \in Candidates
          BY <1>6
        <5>2. Rank(Candidates, Less, m) < k /\ k <= Rank(Candidates, Less, l)
          BY DEF Passed, FirstOf, N, k
        <5>3. \A x \in Candidates : Rank(Candidates, Less, x) \in Nat
          BY <1>1, OrderedIs, CandidatesFinite, RankLess DEF OrderedRight, FiniteRows
        <5> QED
          BY <1>1, <5>1, <5>2, <5>3 DEF k
      <4> QED
        BY <2>3, <2>4, <4>1, <4>2, <4>3
    <3>4. CASE ~(i <= Len(found))
      <4> DEFINE a == i - Len(found)
                 b == j - Len(found)
      <4>1. ~(j <= Len(found))
        BY <2>7, <3>1, <3>4
      <4>2. /\ a \in 1..(last - k) /\ Ordered[k + a] \in N
            /\ Walked'[i].name = Ordered[k + a] /\ Walked'[i].id = rows[Ordered[k + a]].id
        BY <2>5, <3>4
      <4>3. /\ b \in 1..(last - k) /\ Ordered[k + b] \in N
            /\ Walked'[j].name = Ordered[k + b] /\ Walked'[j].id = rows[Ordered[k + b]].id
        BY <2>5, <4>1
      <4>4. a < b
        BY <2>7, <3>1
      <4> HIDE DEF a, b
      <4>5. /\ Rank(Candidates, Less, Ordered[k + a]) = k + a - 1
            /\ Rank(Candidates, Less, Ordered[k + b]) = k + b - 1
        BY <1>4, <4>2, <4>3 DEF k, page
      <4>6. Rank(Candidates, Less, Ordered[k + a]) < Rank(Candidates, Less, Ordered[k + b])
        BY <1>1, <4>2, <4>3, <4>4, <4>5 DEF k
      <4>7. Ordered[k + a] \in Candidates /\ Ordered[k + b] \in Candidates
        BY <1>6, <4>2, <4>3
      <4>8. Before(Entry(Ordered[k + a]), Entry(Ordered[k + b]))
        BY <2>3, <4>6, <4>7
      <4> QED
        BY <2>4, <4>2, <4>3, <4>8
    <3> QED
      BY <3>2, <3>3, <3>4
  <2> QED
    BY <2>6, <2>7
<1>20. IdsIn(Walked)' = seen /\ gone' = gone /\ come' = come /\ rows' = rows
  BY <1>9, <1>10 DEF IdsIn, history
<1>21. /\ Missed(Live, IdsIn(Walked))' = Missed(Live, seen)
       /\ Missed(Passed, IdsIn(Walked))' = Missed(Passed \cup N, seen)
       /\ Again(IdsIn(Walked))' = Again(seen)'
       /\ IdsIn(report.found)' = old
  BY <1>2, <1>5, <1>20 DEF Missed, Again, Occurs, IdsIn, history, old, found
<1>22. ~Full(report.found)'
  BY <1>2, <1>3 DEF Full, found
<1>23. LastPage(report.page)' <=> LastPage(page)
  BY <1>2 DEF LastPage
<1>24. InOrder(Walked)' <=> \A i, j \in 1..Len(Walked') : i < j => Before(Walked'[i], Walked'[j])
  BY <1>2 DEF InOrder, Before
<1>25. Cardinality(Missed(Passed, IdsIn(Walked)))' <= gone'
  BY <1>15, <1>20, <1>21
<1>26. (Is("contents") /\ LastPage(report.page))' => Cardinality(Missed(Live, IdsIn(Walked)))' <= gone'
  BY <1>16, <1>20, <1>21, <1>23
<1>27. (Len(Walked) - Cardinality(IdsIn(Walked)) + Cardinality(Again(IdsIn(Walked))))' <= come'
  BY <1>17, <1>20, <1>21
<1>28. (\A id \in IdsIn(report.found) : OccurredOnce(id))'
  BY <1>18, <1>21
<1>29. (gone + come = 0 =>
         /\ InOrder(Walked)
         /\ \A i \in 1..Len(Walked) :
              \E m \in Passed : Walked[i].name = m /\ Walked[i].id = rows[m].id)'
  BY <1>5, <1>19, <1>20, <1>24
<1> QED
  BY <1>22, <1>25, <1>26, <1>27, <1>28, <1>29 DEF Paging

\* What F of the rows walked is found when the texts of a page were read.
Matched(F, g) ==
  /\ F \in Seq(Entries) /\ Thins(F, Walked, g)
  /\ \A i \in 1..Len(F) : g[i] <= Len(report.found) \/ Taken(Walked[g[i]])
  /\ \A z \in 1..Len(Walked) :
       z <= Len(report.found) \/ Taken(Walked[z]) =>
         \/ \E i \in 1..Len(F) : g[i] = z
         \/ Full(F) /\ Len(F) = MaxResults + 1 /\ g[MaxResults + 1] < z

\* Each of them did occur, ...
LEMMA MatchedOccurred ==
  ASSUME Clocks, Unambiguous, Types, Paging, Pages, Is("contents"), NEW F, NEW g, Matched(F, g)
  PROVE  \A id \in IdsIn(F) : OccurredOnce(id)
<1>1. ~Is("idle") /\ RowsTyped /\ HistoryTyped
  BY DEF Is, Types
<1>2. /\ Walked \in Seq(Entries) /\ report.found \in Seq(Entries) /\ report.page \in Seq(Entries)
      /\ \A z \in 1..Len(Walked) : z <= Len(report.found) => Walked[z] = report.found[z]
  <2>1. Walked \in Seq(Entries) /\ report.found \in Seq(Entries) /\ report.page \in Seq(Entries)
    BY <1>1, WalkedIs, Stage DEF Types
  <2>2. /\ Len(Walked) = Len(report.found) + Len(report.page)
        /\ \A z \in 1..(Len(report.found) + Len(report.page)) :
             Walked[z] = IF z <= Len(report.found) THEN report.found[z]
                         ELSE report.page[z - Len(report.found)]
    BY <2>1, ConcatProperties DEF Walked
  <2> QED
    BY <2>1, <2>2
<1>3. /\ g \in [1..Len(F) -> 1..Len(Walked)]
      /\ \A i \in 1..Len(F) : F[i] = Walked[g[i]]
      /\ \A i \in 1..Len(F) : g[i] <= Len(report.found) \/ Taken(Walked[g[i]])
      /\ DOMAIN F = 1..Len(F)
  BY DEF Matched, Thins
<1>4. ASSUME NEW i \in 1..Len(F)
      PROVE  OccurredOnce(F[i].id)
  <2>1. g[i] \in 1..Len(Walked) /\ F[i] = Walked[g[i]]
    BY <1>3
  <2>2. CASE g[i] <= Len(report.found)
    <3>1. F[i] = report.found[g[i]]
      BY <1>2, <2>1, <2>2
    <3>2. g[i] \in 1..Len(report.found) /\ DOMAIN report.found = 1..Len(report.found)
      <4>1. Len(report.found) \in Nat
        BY <1>2
      <4> QED
        BY <1>2, <2>1, <2>2, <4>1
    <3>3. F[i].id \in IdsIn(report.found)
      BY <3>1, <3>2 DEF IdsIn
    <3> QED
      BY <3>3 DEF Paging
  <2>3. CASE Taken(Walked[g[i]])
    <3>1. F[i].id \in Ids
      <4>1. Walked[g[i]] \in Entries
        BY <1>2, <2>1
      <4>2. F[i] \in Entries
        BY <2>1, <4>1
      <4> QED
        BY <4>2 DEF Entries
    <3>2. PICK o : o = ObjectOf(F[i].id)
      OBVIOUS
    <3>3. o # None /\ Matches(o)
      BY <2>1, <2>3, <3>2 DEF Taken
    <3>4. o \in ever[F[i].id] /\ o \in Known
      BY <1>1, <3>1, <3>2, <3>3 DEF HistoryTyped
    <3>5. Occurs(o)
      BY <1>1, <3>3, <3>4, MatchesOccurs
    <3> QED
      BY <3>3, <3>4, <3>5 DEF OccurredOnce
  <2> QED
    BY <1>3, <2>2, <2>3
<1> QED
  BY <1>3, <1>4 DEF IdsIn

\* ... and what was walked and still occurs is among them, or after a full answer.
LEMMA MatchedOrLater ==
  ASSUME Clocks, Unambiguous, Types, Is("contents"), NEW F, NEW g, Matched(F, g),
         NEW n \in Live, Occurs(rows[n].object), rows[n].id \in IdsIn(Walked), rows[n].id \notin IdsIn(F)
  PROVE  \E z \in 1..Len(Walked) : /\ Walked[z].id = rows[n].id
                                   /\ Full(F) /\ Len(F) = MaxResults + 1 /\ g[MaxResults + 1] < z
<1>1. ~Is("idle") /\ RowsTyped
  BY DEF Is, Types
<1>2. Walked \in Seq(Entries)
  BY <1>1, WalkedIs
<1>3. PICK z \in 1..Len(Walked) : Walked[z].id = rows[n].id
  <2>1. DOMAIN Walked = 1..Len(Walked)
    BY <1>2
  <2> QED
    BY <2>1 DEF IdsIn
<1>4. Taken(Walked[z])
  <2>1. ObjectOf(rows[n].id) = rows[n].object /\ rows[n].object \in Known
    BY <1>1, ObjectHeld DEF ObjectsHeld, RowsTyped
  <2>2. Matches(rows[n].object) /\ rows[n].object # None
    BY <1>1, <2>1, KnownObject, MatchesOccurs
  <2> QED
    BY <1>3, <2>1, <2>2 DEF Taken
<1>5. ASSUME NEW i \in 1..Len(F), g[i] = z
      PROVE  FALSE
  <2>1. F[i] = Walked[z] /\ DOMAIN F = 1..Len(F)
    BY <1>5 DEF Matched, Thins
  <2>2. F[i].id \in IdsIn(F)
    BY <2>1 DEF IdsIn
  <2> QED
    BY <1>3, <2>1, <2>2
<1> QED
  BY <1>3, <1>4, <1>5 DEF Matched

\* Of the rows walked, a page's texts lose none, unless enough are found.
LEMMA MatchedCounts ==
  ASSUME Clocks, Unambiguous, Types, Paging, Pages, Is("contents"), NEW F, NEW g, Matched(F, g)
  PROVE  /\ \A S \in SUBSET Live : ~Full(F) => Missed(S, IdsIn(F)) \subseteq Missed(S, IdsIn(Walked))
         /\ IdsIn(F) \subseteq IdsIn(Walked)
         /\ ~Full(F) => Cardinality(Missed(Passed, IdsIn(F))) <= gone
         /\ ~Full(F) /\ LastPage(report.page) => Cardinality(Missed(Live, IdsIn(F))) <= gone
         /\ Len(F) - Cardinality(IdsIn(F)) + Cardinality(Again(IdsIn(F))) <= come
         /\ Len(F) - Cardinality(IdsIn(F)) <= come
<1>1. ~Is("idle") /\ RowsTyped /\ gone \in Nat /\ come \in Nat
  BY DEF Is, Types, HistoryTyped
<1>2. Walked \in Seq(Entries) /\ F \in Seq(Entries)
  BY <1>1, WalkedIs DEF Matched
<1>3. /\ IdsIn(F) \subseteq IdsIn(Walked)
      /\ Len(F) - Cardinality(IdsIn(F)) <= Len(Walked) - Cardinality(IdsIn(Walked))
  <2>1. Thins(F, Walked, g)
    BY DEF Matched
  <2> QED
    BY <1>2, <2>1, Thinned
<1>4. ASSUME NEW S \in SUBSET Live, ~Full(F)
      PROVE  Missed(S, IdsIn(F)) \subseteq Missed(S, IdsIn(Walked))
  <2>1. ASSUME NEW n \in Missed(S, IdsIn(F)), rows[n].id \in IdsIn(Walked)
        PROVE  FALSE
    <3>1. n \in Live /\ Occurs(rows[n].object) /\ rows[n].id \notin IdsIn(F)
      BY DEF Missed
    <3> QED
      BY <1>4, <2>1, <3>1, MatchedOrLater
  <2> QED
    BY <2>1 DEF Missed
<1>5. /\ Cardinality(Missed(Passed, IdsIn(Walked))) <= gone
      /\ LastPage(report.page) => Cardinality(Missed(Live, IdsIn(Walked))) <= gone
      /\ Len(Walked) - Cardinality(IdsIn(Walked)) + Cardinality(Again(IdsIn(Walked))) <= come
  BY DEF Paging
<1>6. Passed \in SUBSET Live /\ Live \in SUBSET Live /\ Live \subseteq Names
  BY DEF Passed, FirstOf, Candidates, Live
<1>7. ASSUME NEW S \in SUBSET Live, ~Full(F), Cardinality(Missed(S, IdsIn(Walked))) <= gone
      PROVE  Cardinality(Missed(S, IdsIn(F))) <= gone
  <2>1. S \in SUBSET Names
    BY <1>6
  <2>2. IsFiniteSet(Missed(S, IdsIn(Walked))) /\ Cardinality(Missed(S, IdsIn(Walked))) \in Nat
    BY <1>1, <2>1, MissedFinite
  <2>3. Cardinality(Missed(S, IdsIn(F))) \in Nat
    BY <1>1, <2>1, MissedFinite
  <2>4. Missed(S, IdsIn(F)) \in SUBSET Missed(S, IdsIn(Walked))
    BY <1>4, <1>7
  <2>5. Cardinality(Missed(S, IdsIn(F))) <= Cardinality(Missed(S, IdsIn(Walked)))
    BY <2>2, <2>4, FS_Subset
  <2> QED
    BY <1>1, <1>7, <2>2, <2>3, <2>5
<1>8. /\ Cardinality(Again(IdsIn(F))) \in Nat /\ Cardinality(Again(IdsIn(Walked))) \in Nat
      /\ Cardinality(Again(IdsIn(F))) <= Cardinality(Again(IdsIn(Walked)))
  <2>1. Again(IdsIn(Walked)) \in SUBSET Names /\ Again(IdsIn(F)) \in SUBSET Again(IdsIn(Walked))
    BY <1>3 DEF Again, Candidates, Live
  <2>2. IsFiniteSet(Again(IdsIn(Walked)))
    BY <1>1, <2>1, CandidatesFinite DEF FiniteRows
  <2> QED
    BY <2>1, <2>2, FS_Subset, FS_CardinalityType
<1>9. /\ Len(F) \in Nat /\ Cardinality(IdsIn(F)) \in Nat
      /\ Len(Walked) \in Nat /\ Cardinality(IdsIn(Walked)) \in Nat
  <2>1. Len(F) \in Nat /\ Len(Walked) \in Nat
    BY <1>2
  <2>2. Cardinality(IdsIn(F)) \in Nat
    BY <1>2, IdsInFinite
  <2>3. Cardinality(IdsIn(Walked)) \in Nat
    BY <1>2, IdsInFinite
  <2> QED
    BY <2>1, <2>2, <2>3
<1>10. /\ Len(F) - Cardinality(IdsIn(F)) + Cardinality(Again(IdsIn(F))) <= come
       /\ Len(F) - Cardinality(IdsIn(F)) <= come
  <2> DEFINE l == Len(F)
             i == Cardinality(IdsIn(F))
             w == Len(Walked)
             j == Cardinality(IdsIn(Walked))
             a == Cardinality(Again(IdsIn(F)))
             b == Cardinality(Again(IdsIn(Walked)))
  <2>1. /\ l \in Nat /\ i \in Nat /\ w \in Nat /\ j \in Nat /\ a \in Nat /\ b \in Nat
        /\ l - i <= w - j /\ w - j + b <= come /\ a <= b
    BY <1>3, <1>5, <1>8, <1>9
  <2> HIDE DEF l, i, w, j, a, b
  <2>2. l - i + a <= come /\ l - i <= come
    BY <1>1, <2>1
  <2> QED
    BY <2>2 DEF l, i, a
<1> QED
  BY <1>3, <1>4, <1>5, <1>6, <1>7, <1>10

\* If nothing moved, what is found is in order and comes before what is not.
LEMMA MatchedInOrder ==
  ASSUME Clocks, Unambiguous, Types, Paging, Pages, Is("contents"), NEW F, NEW g, Matched(F, g),
         gone + come = 0
  PROVE  /\ InOrder(F)
         /\ \A i \in 1..Len(F) : \E n \in Passed : F[i].name = n /\ F[i].id = rows[n].id
         /\ Full(F) \/ LastPage(report.page) =>
              \A n \in Missed(Live, IdsIn(F)) : Before(F[Len(F)], [name |-> n, id |-> rows[n].id])
<1>1. ~Is("idle") /\ RowsTyped /\ gone \in Nat /\ come \in Nat
  BY DEF Is, Types, HistoryTyped
<1>2. Walked \in Seq(Entries) /\ F \in Seq(Entries) /\ Len(F) \in Nat
  BY <1>1, WalkedIs DEF Matched
<1>3. /\ g \in [1..Len(F) -> 1..Len(Walked)]
      /\ \A i, j \in 1..Len(F) : i < j => g[i] < g[j]
      /\ \A i \in 1..Len(F) : F[i] = Walked[g[i]]
  BY DEF Matched, Thins
<1>4. /\ InOrder(Walked)
      /\ \A z \in 1..Len(Walked) : \E n \in Passed : Walked[z].name = n /\ Walked[z].id = rows[n].id
  BY DEF Paging
<1>5. InOrder(F)
  BY <1>3, <1>4 DEF InOrder
<1>6. \A i \in 1..Len(F) : \E n \in Passed : F[i].name = n /\ F[i].id = rows[n].id
  BY <1>3, <1>4
<1>7. gone = 0
  BY <1>1
<1>8. ASSUME NEW S, IsFiniteSet(S), Cardinality(S) \in Nat, Cardinality(S) <= gone
      PROVE  S = {}
  <2>1. Cardinality(S) = 0
    BY <1>7, <1>8
  <2> QED
    BY <1>8, <2>1, FS_EmptySet
<1>9. ASSUME ~Full(F), LastPage(report.page)
      PROVE  Missed(Live, IdsIn(F)) = {}
  <2>1. Cardinality(Missed(Live, IdsIn(F))) <= gone
    BY <1>9, MatchedCounts
  <2>2. Live \in SUBSET Names
    BY DEF Live
  <2>3. IsFiniteSet(Missed(Live, IdsIn(F))) /\ Cardinality(Missed(Live, IdsIn(F))) \in Nat
    BY <1>1, <2>2, MissedFinite
  <2> QED
    BY <1>8, <2>1, <2>3
<1>10. Missed(Passed, IdsIn(Walked)) = {}
  <2>1. Cardinality(Missed(Passed, IdsIn(Walked))) <= gone
    BY DEF Paging
  <2>2. Passed \in SUBSET Names
    BY DEF Passed, FirstOf, Candidates, Live
  <2>3. IsFiniteSet(Missed(Passed, IdsIn(Walked))) /\ Cardinality(Missed(Passed, IdsIn(Walked))) \in Nat
    BY <1>1, <2>2, MissedFinite
  <2> QED
    BY <1>8, <2>1, <2>3
<1>11. ASSUME Full(F), NEW n \in Missed(Live, IdsIn(F))
       PROVE  Before(F[Len(F)], [name |-> n, id |-> rows[n].id])
  <2>1. n \in Live /\ Occurs(rows[n].object) /\ rows[n].id \notin IdsIn(F)
        /\ ever[rows[n].id] = {rows[n].object}
    BY DEF Missed
  <2>2. Len(F) \in 1..Len(F)
    BY <1>2, <1>11, PageAssumption DEF Full
  <2>3. PICK l : l = Len(F)
    OBVIOUS
  <2>4. g[l] \in 1..Len(Walked) /\ F[l] = Walked[g[l]]
    BY <1>3, <2>2, <2>3
  <2>5. PICK m \in Passed : F[l].name = m /\ F[l].id = rows[m].id
    BY <1>6, <2>2, <2>3
  <2>6. CASE rows[n].id \in IdsIn(Walked)
    <3>1. PICK z \in 1..Len(Walked) : Walked[z].id = rows[n].id /\ l = MaxResults + 1 /\ g[l] < z
      BY <2>1, <2>3, <2>6, MatchedOrLater
    <3>2. Before(F[l], Walked[z])
      BY <1>4, <2>4, <3>1 DEF InOrder
    <3>3. Walked[z].name = n
      <4>1. PICK j \in Passed : Walked[z].name = j /\ Walked[z].id = rows[j].id
        BY <1>4
      <4>2. j \in Live
        BY DEF Passed, FirstOf, Candidates
      <4> QED
        BY <1>1, <2>1, <3>1, <4>1, <4>2 DEF RowsTyped
    <3> QED
      BY <2>3, <3>1, <3>2, <3>3 DEF Before
  <2>7. CASE rows[n].id \notin IdsIn(Walked)
    <3>1. n \notin Passed
      BY <1>10, <2>1, <2>7 DEF Missed
    <3>2. n \in Candidates /\ m \in Candidates /\ Candidates \subseteq Live
      BY <1>1, <2>1, OccursListed DEF Passed, FirstOf, Candidates
    <3>3. Rank(Candidates, Less, m) < report.offset /\ ~(Rank(Candidates, Less, n) < report.offset)
      BY <3>1, <3>2 DEF Passed, FirstOf
    <3>4. IsFiniteSet(Candidates) /\ Orders(Less, Candidates)
      BY <1>1, CandidatesFinite, OrderedIs DEF FiniteRows, OrderedRight
    <3>5. \A x \in Candidates : Rank(Candidates, Less, x) \in Int
      BY <3>4, RankLess
    <3>6. report.offset \in Nat
      BY <1>1, Stage DEF Types
    <3>7. Rank(Candidates, Less, m) < Rank(Candidates, Less, n)
      BY <3>2, <3>3, <3>5, <3>6
    <3>8. <<m, n>> \in Less
      BY <3>2, <3>4, <3>7, RankLess
    <3>9. Before(Entry(m), Entry(n))
      BY <1>1, <3>2, <3>8, OrderedIs DEF OrderedRight
    <3> QED
      BY <2>3, <2>5, <3>9 DEF Before, Entry
  <2> QED
    BY <2>6, <2>7
<1> QED
  BY <1>5, <1>6, <1>9, <1>11

\* Reading the texts of a page keeps the account.
LEMMA ReadContentsKeepsPaging ==
  ASSUME Clocks, Unambiguous, Types, Paging, Pages, ReadContents
  PROVE  Paging' /\ (Is("collected")' => PagesExplained')
<1>1. /\ Is("contents") /\ ~Is("idle") /\ RowsTyped /\ rows' = rows /\ ever' = ever
      /\ gone' = gone /\ come' = come /\ gone \in Nat /\ come \in Nat
  BY DEF ReadContents, Is, Types, HistoryTyped, history
<1>2. PICK F : F = report'.found
  OBVIOUS
<1>3. /\ report'.ask = report.ask /\ report'.offset = report.offset /\ report'.page = <<>>
      /\ report'.pc = IF Full(F) \/ LastPage(report.page) THEN "collected" ELSE "page"
      /\ F \in Seq(Entries)
      /\ \E g : Matched(F, g)
  <2>1. /\ report'.ask = report.ask /\ report'.offset = report.offset /\ report'.page = <<>>
        /\ report'.pc = IF Full(report'.found) \/ LastPage(report.page) THEN "collected" ELSE "page"
        /\ report'.found \in Seq(Entries)
        /\ \E g : Matched(report'.found, g)
    BY ContentsRead DEF Types, Matched, Walked
  <2> QED
    BY <1>2, <2>1
<1>4. PICK g : Matched(F, g)
  BY <1>3
<1>5. /\ \A id \in IdsIn(F) : OccurredOnce(id)
      /\ ~Full(F) => Cardinality(Missed(Passed, IdsIn(F))) <= gone
      /\ ~Full(F) /\ LastPage(report.page) => Cardinality(Missed(Live, IdsIn(F))) <= gone
      /\ Len(F) - Cardinality(IdsIn(F)) + Cardinality(Again(IdsIn(F))) <= come
      /\ Len(F) - Cardinality(IdsIn(F)) <= come
      /\ gone + come = 0 =>
           /\ InOrder(F)
           /\ \A i \in 1..Len(F) : \E n \in Passed : F[i].name = n /\ F[i].id = rows[n].id
           /\ Full(F) \/ LastPage(report.page) =>
              \A n \in Missed(Live, IdsIn(F)) : Before(F[Len(F)], [name |-> n, id |-> rows[n].id])
  BY <1>1, <1>4, MatchedOccurred, MatchedCounts, MatchedInOrder
<1>6. /\ Walked' = F /\ Live' = Live /\ Candidates' = Candidates /\ Passed' = Passed
  <2>1. Walked' = F
    <3>1. F \o <<>> = F
      BY <1>3, ConcatEmptySeq
    <3> QED
      BY <1>2, <1>3, <3>1 DEF Walked
  <2>2. Live' = Live /\ Candidates' = Candidates /\ Less' = Less
    BY <1>1, <1>3 DEF Live, Candidates, Less, Before, Entry
  <2> QED
    BY <1>3, <2>1, <2>2 DEF Passed
<1>7. PICK ids : ids = IdsIn(F)
  OBVIOUS
<1>8. IdsIn(Walked)' = ids /\ IdsIn(report.found)' = ids
  BY <1>2, <1>6, <1>7 DEF IdsIn
<1>9. /\ Missed(Live, IdsIn(Walked))' = Missed(Live, ids)
      /\ Missed(Live, IdsIn(report.found))' = Missed(Live, ids)
      /\ Missed(Passed, IdsIn(Walked))' = Missed(Passed, ids)
      /\ Again(IdsIn(Walked))' = Again(ids)
  BY <1>1, <1>3, <1>6, <1>8 DEF Missed, Again, Occurs
<1>10. \A id : OccurredOnce(id)' <=> OccurredOnce(id)
  BY <1>1, <1>3 DEF OccurredOnce, Occurs
<1>11. (Full(report.found)' <=> Full(F)) /\ (InOrder(report.found)' <=> InOrder(F))
       /\ (InOrder(Walked)' <=> InOrder(F))
  BY <1>2, <1>3, <1>6 DEF Full, InOrder, Before
<1>12. Is("page")' \/ Is("contents")' => ~Full(F) /\ ~LastPage(report.page) /\ ~Is("contents")'
  BY <1>3 DEF Is
<1>13. Is("collected")' => Full(F) \/ LastPage(report.page)
  BY <1>3 DEF Is
<1>14. Paging'
  <2>1. Cardinality(Missed(Passed, IdsIn(Walked)))' <= gone' \/ Full(F)
    BY <1>1, <1>5, <1>7, <1>9
  <2>2. (Len(Walked) - Cardinality(IdsIn(Walked)) + Cardinality(Again(IdsIn(Walked))))' <= come'
    BY <1>1, <1>5, <1>6, <1>7, <1>8, <1>9
  <2>3. (\A id \in IdsIn(report.found) : OccurredOnce(id))'
    BY <1>5, <1>7, <1>8, <1>10
  <2>4. (gone + come = 0 =>
         /\ InOrder(Walked)
         /\ \A i \in 1..Len(Walked) :
              \E n \in Passed : Walked[i].name = n /\ Walked[i].id = rows[n].id)'
    BY <1>1, <1>5, <1>6, <1>11
  <2> QED
    BY <1>11, <1>12, <2>1, <2>2, <2>3, <2>4 DEF Paging
<1>15. Is("collected")' => PagesExplained'
  <2>1. SUFFICES ASSUME Is("collected")'
                 PROVE  PagesExplained'
    OBVIOUS
  <2>2. (\A id \in IdsIn(report.found) : OccurredOnce(id))'
    BY <1>5, <1>7, <1>8, <1>10
  <2>3. (Full(report.found) \/ Cardinality(Missed(Live, IdsIn(report.found))) <= gone)'
    BY <1>1, <1>5, <1>7, <1>9, <1>11, <1>13, <2>1
  <2>4. (Len(report.found) - Cardinality(IdsIn(report.found)) <= come)'
    BY <1>1, <1>2, <1>5, <1>7, <1>8
  <2>5. \A n : Before(report.found[Len(report.found)], [name |-> n, id |-> rows[n].id])'
               <=> Before(F[Len(F)], [name |-> n, id |-> rows[n].id])
    BY <1>1, <1>2, <1>3 DEF Before
  <2>6. (gone + come = 0 =>
           /\ InOrder(report.found)
           /\ \A n \in Missed(Live, IdsIn(report.found)) :
                Before(report.found[Len(report.found)], [name |-> n, id |-> rows[n].id]))'
    BY <1>1, <1>5, <1>7, <1>9, <1>11, <1>13, <2>1, <2>5
  <2>7. Accounted'
    BY <2>2, <2>3, <2>4, <2>6 DEF Accounted
  <2>8. (FoundTyped => AccountFits)'
    BY AccountIs, PTL
  <2>9. FoundTyped'
    BY <1>2, <1>3 DEF FoundTyped, Entries
  <2> QED
    BY <2>7, <2>8, <2>9 DEF AccountFits
<1> QED
  BY <1>14, <1>15

\* So does looking for a page.
LEMMA ReadPageKeepsPaging ==
  ASSUME Clocks, Types, Paging, Pages, ReadPage
  PROVE  Paging' /\ (Is("collected")' => PagesExplained')
<1>1. /\ Is("page") /\ ~Is("idle") /\ RowsTyped /\ ReportTyped /\ DOMAIN report = Fields
      /\ UNCHANGED <<rows, unused, writes, history>>
  BY Stage DEF ReadPage, Is, Types
<1>2. CASE Cardinality(Candidates) <= report.offset /\ report' = [report EXCEPT !.pc = "collected"]
  <2>1. /\ report'.pc = "collected" /\ report'.ask = report.ask /\ report'.found = report.found
    BY <1>1, <1>2 DEF Fields
  <2>2. PagesExplained
    BY <1>1, <1>2, LastPageRead
  <2>3. report.found \in Seq(Entries)
    BY <1>1, WalkedIs
  <2>4. PagesExplained'
    BY <1>1, <2>1, <2>2, <2>3, SameExplained
  <2>5. Paging'
    BY <2>1 DEF Paging, Is
  <2> QED
    BY <2>4, <2>5
<1>3. ASSUME NEW last \in Nat, ReadsUpTo(last)
      PROVE  Paging' /\ ~Is("collected")'
  <2>1. Paging'
    BY <1>1, <1>3, NextPageRead
  <2>2. report'.pc = "contents"
    BY <1>1, <1>3 DEF ReadsUpTo, Fields
  <2>3. ~Is("collected")'
    BY <2>2 DEF Is
  <2> QED
    BY <2>1, <2>3
<1> QED
  BY <1>1, <1>2, <1>3, PageRead

\* A report begins with nothing to account for.
LEMMA BeginKeepsPaging ==
  ASSUME Types, Types', NEW q \in Questions, Begin(q)
  PROVE  Paging' /\ Explained'
<1>1. /\ report'.pc = (IF q.kind = "multiget" THEN "names" ELSE "page") /\ report'.ask = q
      /\ report'.offset = 0 /\ report'.page = <<>> /\ report'.found = <<>>
  BY DEF Begin
<1>2. gone' \in Nat /\ come' \in Nat
  BY DEF Types, HistoryTyped
<1>3. Passed' = {}
  <2>1. RowsTyped' /\ (RowsTyped => FiniteRows)' /\ (RowsTyped => OrderedRight)'
    BY CandidatesFinite, OrderedIs, PTL DEF Types
  <2>2. IsFiniteSet(Candidates') /\ Orders(Less', Candidates')
    BY <2>1 DEF FiniteRows, OrderedRight
  <2>3. \A m \in Candidates' : Rank(Candidates', Less', m) \in 0..(Cardinality(Candidates') - 1)
    BY <2>2, RankLess
  <2>4. FirstOf(Candidates', Less', 0) = {}
    BY <2>3 DEF FirstOf
  <2> QED
    BY <1>1, <2>4 DEF Passed
<1>4. Walked' = <<>> /\ IdsIn(Walked)' = {} /\ IdsIn(report.found)' = {}
  <2>1. <<>> \o <<>> = <<>>
    OBVIOUS
  <2>2. Walked' = <<>>
    BY <1>1, <2>1 DEF Walked
  <2> QED
    BY <1>1, <2>2 DEF IdsIn
<1>5. Missed(Passed, IdsIn(Walked))' = {} /\ Again(IdsIn(Walked))' = {}
  BY <1>3, <1>4 DEF Missed, Again
<1>6. Cardinality({}) = 0 /\ Len(<<>>) = 0
  BY FS_EmptySet
<1>7. ~Full(report.found)'
  BY <1>1, <1>6, PageAssumption DEF Full
<1>8. ~Is("contents")'
  BY <1>1 DEF Is
<1>9. Cardinality(Missed(Passed, IdsIn(Walked)))' <= gone'
  BY <1>2, <1>5, <1>6
<1>10. (Len(Walked) - Cardinality(IdsIn(Walked)) + Cardinality(Again(IdsIn(Walked))))' <= come'
  <2>1. Len(Walked') = 0 /\ Cardinality(IdsIn(Walked)') = 0
        /\ Cardinality(Again(IdsIn(Walked))') = 0
    BY <1>4, <1>5, <1>6
  <2>2. 0 - 0 + 0 <= come'
    BY <1>2
  <2> QED
    BY <2>1, <2>2
<1>11. (InOrder(Walked) /\ \A i \in 1..Len(Walked) :
              \E n \in Passed : Walked[i].name = n /\ Walked[i].id = rows[n].id)'
  BY <1>4, <1>6 DEF InOrder
<1>12. Paging'
  BY <1>4, <1>7, <1>8, <1>9, <1>10, <1>11 DEF Paging
<1>13. Explained'
  BY <1>1 DEF Explained, Is, Pages
<1> QED
  BY <1>12, <1>13

\* An object that occurred in the range can be expanded within it.
LEMMA FailureExplained ==
  ASSUME Clocks, Types, Pages, PagesExplained, Fail,
         report.ask.expand.from >= report.ask.from, report.ask.expand.to <= report.ask.to
  PROVE  \E id \in Ids : Cardinality(ever[id]) > 1
<1>1. /\ Is("loaded") /\ ~Is("idle") /\ HistoryTyped /\ report.found \in Seq(Entries)
  BY Stage DEF Fail, Types, Is
<1>2. PICK i \in DOMAIN report.data : Unexpandable(report.data[i].object)
  BY DEF Fail
<1>3. PICK o : o = report.data[i].object
  OBVIOUS
<1>4. PICK id : id = report.found[i].id
  OBVIOUS
<1>5. o \in ever[id] /\ i \in DOMAIN report.found
  BY <1>1, <1>2, <1>3, <1>4 DEF Types, DataTyped
<1>6. id \in Ids /\ id \in IdsIn(report.found)
  <2>1. id \in IdsIn(report.found)
    BY <1>4, <1>5 DEF IdsIn
  <2> QED
    BY <1>1, <2>1, WalkedIs
<1>7. PICK p \in ever[id] \ {None} : Occurs(p)
  <2>1. OccurredOnce(id)
    BY <1>1, <1>6, ExplainedIs
  <2> QED
    BY <2>1 DEF OccurredOnce
<1>8. CASE o = p
  <2>1. /\ o # None /\ report.ask.expand # None
        /\ TooLarge(o, report.ask.zone, report.ask.expand.from, report.ask.expand.to)
    BY <1>2, <1>3 DEF Unexpandable
  <2>2. o \in Known /\ IsObject(o) /\ Steady(o, report.ask.zone)
    BY <1>1, <1>5, <1>6, <2>1, AskTyped, KnownObject DEF HistoryTyped, Clocks
  <2>3. /\ report.ask.from \in -Infinity..Infinity /\ report.ask.to \in Int /\ IsZone(report.ask.zone)
    BY <1>1, AskTyped
  <2>4. /\ report.ask.expand.from \in -Infinity..Infinity /\ report.ask.expand.to \in -Infinity..Infinity
        /\ report.ask.expand.from < report.ask.expand.to
    BY <1>1, <2>1, AskTyped, QuestionsAssumption
  <2>5. /\ report.ask.from <= report.ask.expand.from /\ report.ask.expand.to \in Int
    <3>1. -Infinity \in Int /\ Infinity \in Int
      BY TimeAssumption DEF Infinity
    <3> QED
      BY <2>3, <2>4, <3>1
  <2>6. TooLarge(o, report.ask.zone, report.ask.from, report.ask.to)
    BY <2>1, <2>2, <2>3, <2>4, <2>5, TooLargeWithin
  <2> QED
    BY <1>7, <1>8, <2>6 DEF Occurs
<1>9. CASE o # p
  <2>1. IsFiniteSet(ever[id]) /\ {o, p} \in SUBSET ever[id]
    BY <1>1, <1>5, <1>6, <1>7 DEF HistoryTyped
  <2>2. Cardinality({o, p}) = 2
    <3>1. IsFiniteSet({o}) /\ Cardinality({o}) = 1
      BY FS_Singleton
    <3>2. Cardinality({o} \cup {p}) = Cardinality({o}) + 1
      BY <1>9, <3>1, FS_AddElement
    <3>3. {o} \cup {p} = {o, p}
      OBVIOUS
    <3> QED
      BY <3>1, <3>2, <3>3
  <2>3. Cardinality({o, p}) <= Cardinality(ever[id]) /\ Cardinality(ever[id]) \in Nat
    BY <2>1, FS_Subset, FS_CardinalityType
  <2>4. Cardinality(ever[id]) > 1
    BY <2>2, <2>3
  <2> QED
    BY <1>6, <2>4
<1> QED
  BY <1>8, <1>9

\* What has been found is sent as it is, whatever becomes of the objects.
LEMMA SendingKeepsExplained ==
  ASSUME Clocks, Types, Explained, LoadData \/ Answer \/ Fail \/ AnswerFreeBusy
  PROVE  Explained'
<1>1. /\ ~Is("idle") /\ DOMAIN report = Fields /\ report.found \in Seq(Entries)
      /\ UNCHANGED <<rows, history>>
  BY Stage DEF Types, LoadData, Answer, Fail, AnswerFreeBusy, Is
<1>2. report'.ask = report.ask /\ report'.found = report.found
  BY <1>1 DEF LoadData, Answer, Fail, AnswerFreeBusy, Fields
<1>3. report'.pc \in {"loaded", "answered", "failed"} /\ (report'.pc = "failed" => Fail)
      /\ report.pc \in {"collected", "loaded"}
  BY <1>1 DEF LoadData, Answer, Fail, AnswerFreeBusy, Fields, Is
<1>4. SUFFICES ASSUME Pages
               PROVE  Explained'
  BY <1>2 DEF Explained, Pages
<1>5. PagesExplained
  BY <1>3, <1>4 DEF Explained, Is
<1>6. PagesExplained'
  BY <1>1, <1>2, <1>5, SameExplained
<1>7. ASSUME Fail, report.ask.expand.from >= report.ask.from, report.ask.expand.to <= report.ask.to
      PROVE  \E id \in Ids : Cardinality(ever[id]) > 1
  BY <1>4, <1>5, <1>7, FailureExplained
<1>8. ever' = ever
  BY <1>1 DEF history
<1> QED
  BY <1>2, <1>3, <1>6, <1>7, <1>8 DEF Explained, Is

\* Every step keeps the account, and what has been explained.
LEMMA StepKeepsPaging ==
  ASSUME Clocks, Unambiguous, Types, Types', Paging, Explained, [Next]_vars
  PROVE  Paging' /\ Explained'
<1>1. CASE \E n \in Names : Delete(n) \/ \E o \in Objects : Put(n, o)
  <2>1. PICK n \in Names : Changes(n)
    BY <1>1, WritesChange DEF Types
  <2> QED
    BY <2>1, WriteKeepsPaging, WriteKeepsExplained
<1>2. CASE \E q \in Questions : Begin(q)
  BY <1>2, BeginKeepsPaging
<1>3. CASE ReadNames
  <2>1. ~Pages /\ Is("names")
    BY <1>3 DEF ReadNames, Explained
  <2>2. ~Pages'
    <3>1. DOMAIN report = Fields
      BY <2>1, Stage DEF Types, Is
    <3>2. report'.ask = report.ask
      BY <1>3, <3>1 DEF ReadNames, Fields
    <3> QED
      BY <2>1, <3>2 DEF Pages
  <2> QED
    BY <2>2 DEF Paging, Explained
<1>4. ASSUME ReadPage \/ ReadContents
      PROVE  Paging' /\ Explained'
  <2>1. /\ report'.ask = report.ask /\ report'.pc \in {"page", "contents", "collected"}
    <3>1. DOMAIN report = Fields
      BY <1>4, Stage DEF Types, ReadPage, ReadContents, Is
    <3> QED
      BY <1>4, <3>1 DEF ReadPage, ReadContents, Fields
  <2>2. CASE ~Pages
    BY <2>1, <2>2 DEF Paging, Explained, Pages
  <2>3. CASE Pages
    <3>1. Paging' /\ (Is("collected")' => PagesExplained')
      BY <1>4, <2>3, ReadPageKeepsPaging, ReadContentsKeepsPaging
    <3> QED
      BY <2>1, <3>1 DEF Explained, Is
  <2> QED
    BY <2>2, <2>3
<1>5. CASE LoadData \/ Answer \/ Fail \/ AnswerFreeBusy
  <2>1. Explained'
    BY <1>5, SendingKeepsExplained
  <2>2. report'.pc \in {"loaded", "answered", "failed"}
    <3>1. DOMAIN report = Fields
      BY <1>5, Stage DEF Types, LoadData, Answer, Fail, AnswerFreeBusy, Is
    <3> QED
      BY <1>5, <3>1 DEF LoadData, Answer, Fail, AnswerFreeBusy, Fields
  <2> QED
    BY <2>1, <2>2 DEF Paging, Is
<1>6. CASE UNCHANGED vars
  <2>1. rows' = rows /\ report' = report /\ ever' = ever /\ gone' = gone /\ come' = come
    BY <1>6 DEF vars, history
  <2>2. /\ Live' = Live /\ Candidates' = Candidates /\ Less' = Less /\ Walked' = Walked
    BY <2>1 DEF Live, Candidates, Less, Walked, Before, Entry
  <2>3. Passed' = Passed
    BY <2>1, <2>2 DEF Passed
  <2>4. Paging'
    BY <2>1, <2>2, <2>3 DEF Paging, Is, Pages, Full, Missed, IdsIn, Again, OccurredOnce, Occurs,
       InOrder, Before
  <2>5. Explained'
    <3>1. ASSUME Pages, Is("collected") \/ Is("loaded") \/ Is("answered")
          PROVE  PagesExplained'
      <4>1. PagesExplained /\ ~Is("idle")
        BY <3>1 DEF Explained, Is
      <4>2. report.found \in Seq(Entries)
        BY <4>1, WalkedIs
      <4> QED
        BY <2>1, <4>1, <4>2, SameExplained DEF history
    <3> QED
      BY <2>1, <3>1 DEF Explained, Is, Pages
  <2> QED
    BY <2>4, <2>5
<1> QED
  BY <1>1, <1>2, <1>3, <1>4, <1>5, <1>6 DEF Next

\* A report loses no more than left it and repeats no more than joined it
\* while it paged, and fails only over what was written meanwhile.
THEOREM PagingLosesNothing ==
  ASSUME Clocks, Unambiguous
  PROVE  Spec => []QueryExplained
<1>1. Init => Types /\ Paging /\ Explained
  <2>1. Init => report = Idle
    BY DEF Init
  <2>2. report = Idle => Paging /\ Explained
    BY DEF Paging, Explained, Is, Idle
  <2> QED
    BY <2>1, <2>2, InitTypes
<1>2. Types /\ Paging /\ Explained /\ [Next]_vars => (Types /\ Paging /\ Explained)'
  BY StepKeepsTypes, StepKeepsPaging
<1>3. Explained => QueryExplained
  BY DEF Explained, QueryExplained
<1> QED
  BY <1>1, <1>2, <1>3, PTL DEF Spec

-----------------------------------------------------------------------------
(* Recursion along the naturals.                                           *)

\* What holds of 0, and of n + 1 if of n, holds of every natural.
LEMMA Inductive ==
  ASSUME NEW S \in SUBSET Nat, 0 \in S, \A n \in S : n + 1 \in S
  PROVE  S = Nat
<1>1. SUFFICES ASSUME Nat \ S # {}
               PROVE  FALSE
  OBVIOUS
<1>2. PICK m \in Nat \ S : \A n \in Nat \ S : ~(<<n, m>> \in OpToRel(<, Nat))
  BY <1>1, NatLessThanWellFounded, WFMin
<1>3. \A n \in Nat \ S : ~(n < m)
  BY <1>2 DEF OpToRel
<1>4. m - 1 \in Nat \ S /\ m - 1 < m
  <2>1. m \in Nat /\ m \notin S /\ m # 0
    BY <1>2
  <2>2. m - 1 \in Nat /\ m - 1 < m /\ (m - 1) + 1 = m
    BY <2>1
  <2> QED
    BY <2>1, <2>2
<1> QED
  BY <1>3, <1>4

\* A sequence that starts at base and goes on by a function of what came last.
GoesBy(f, base, step, n) ==
  /\ DOMAIN f = 0..n
  /\ f[0] = base
  /\ \A i \in 1..n : f[i] = step[<<i, f[i - 1]>>]

\* A step can be taken n times.
LEMMA Recursion ==
  ASSUME NEW X, NEW base \in X, NEW step \in [(Nat \X X) -> X]
  PROVE  \A n \in Nat : \E f \in [0..n -> X] : GoesBy(f, base, step, n)
<1> DEFINE T == {n \in Nat : \E f \in [0..n -> X] : GoesBy(f, base, step, n)}
<1>1. 0 \in T
  <2> DEFINE f == [i \in 0..0 |-> base]
  <2>1. f \in [0..0 -> X] /\ GoesBy(f, base, step, 0)
    BY DEF GoesBy
  <2> QED
    BY <2>1
<1>2. ASSUME NEW n \in T
      PROVE  n + 1 \in T
  <2>1. PICK f \in [0..n -> X] : GoesBy(f, base, step, n)
    OBVIOUS
  <2>2. n \in Nat /\ n \in 0..n /\ n + 1 \in Nat
    OBVIOUS
  <2>3. PICK next \in X : next = step[<<n + 1, f[n]>>]
    BY <2>2
  <2> DEFINE g == [i \in 0..(n + 1) |-> IF i = n + 1 THEN next ELSE f[i]]
  <2>4. g \in [0..(n + 1) -> X]
    BY <2>2
  <2>5. g[0] = base
    BY <2>1, <2>2 DEF GoesBy
  <2>6. ASSUME NEW i \in 1..(n + 1)
        PROVE  g[i] = step[<<i, g[i - 1]>>]
    <3>1. i - 1 \in 0..n /\ i - 1 # n + 1 /\ i \in 0..(n + 1)
      BY <2>2
    <3>2. g[i - 1] = f[i - 1]
      BY <2>2, <3>1
    <3>3. CASE i = n + 1
      <4>1. i - 1 = n
        BY <2>2, <3>3
      <4> QED
        BY <2>3, <3>1, <3>2, <3>3, <4>1
    <3>4. CASE i # n + 1
      <4>1. i \in 1..n
        BY <2>2, <3>4
      <4> QED
        BY <2>1, <3>1, <3>2, <3>4, <4>1 DEF GoesBy
    <3> QED
      BY <3>3, <3>4
  <2>7. GoesBy(g, base, step, n + 1)
    BY <2>4, <2>5, <2>6 DEF GoesBy
  <2> QED
    BY <2>2, <2>4, <2>7
<1> HIDE DEF T
<1>3. T = Nat
  BY <1>1, <1>2, Inductive DEF T
<1> QED
  BY <1>3 DEF T
-----------------------------------------------------------------------------
(* Blocks of busy time.                                                      *)

\* Busy time of one type.
Piece(b) == [start : Int, end : Int, busy : {b}]

\* An instant is in a block,
Covered(s, t) == \E j \in 1..Len(s) : s[j].start <= t /\ t < s[j].end
\* or in an interval.
Within(S, t) == \E x \in S : x.start <= t /\ t < x.end

\* s covers what S does, in blocks apart from each other; the last begins
\* where one of S does.
Blocked(s, S, b) ==
  /\ s \in Seq(Piece(b))
  /\ \A t \in Int : Covered(s, t) <=> Within(S, t)
  /\ \A i, j \in 1..Len(s) : i < j => s[i].end < s[j].start
  /\ Len(s) > 0 => \E x \in S : s[Len(s)].start = x.start

\* Extend lengthens the last block or adds one.
LEMMA ExtendIs ==
  ASSUME NEW b, NEW s \in Seq(Piece(b)), NEW i \in Piece(b)
  PROVE  LET e == Extend(s, i)
             n == Len(s)
         IN /\ e \in Seq(Piece(b)) /\ n \in Nat
            /\ IF n > 0 /\ i.start <= s[n].end
               THEN /\ Len(e) = n /\ \A j \in 1..n : j < n => e[j] = s[j]
                    /\ e[n].start = s[n].start
                    /\ e[n].end = IF s[n].end < i.end THEN i.end ELSE s[n].end
               ELSE Len(e) = n + 1 /\ (\A j \in 1..n : e[j] = s[j]) /\ e[n + 1] = i
<1> DEFINE n == Len(s)
           e == Extend(s, i)
<1>1. n \in Nat /\ DOMAIN s = 1..n /\ (s = <<>> <=> n = 0)
  OBVIOUS
<1>2. \A j \in 1..n : s[j] \in Piece(b)
  BY <1>1
<1>3. CASE n > 0 /\ i.start <= s[n].end
  <2>1. n \in 1..n /\ s[n] \in Piece(b)
    BY <1>1, <1>3
  <2>2. s[n].end \in Int /\ i.end \in Int /\ DOMAIN s[n] = {"start", "end", "busy"}
    BY <2>1 DEF Piece
  <2>3. PICK m : m = Max({s[n].end, i.end})
    OBVIOUS
  <2>4. m = IF s[n].end < i.end THEN i.end ELSE s[n].end
    BY <2>2, <2>3, Greater
  <2>5. e = [s EXCEPT ![n].end = m]
    <3>1. s # <<>> /\ Touches(s[Len(s)], i)
      BY <1>1, <1>3 DEF Touches
    <3>2. e = [s EXCEPT ![Len(s)].end = Max({@, i.end})]
      BY <3>1 DEF Extend
    <3> QED
      BY <2>1, <2>3, <3>2
  <2>6. [s[n] EXCEPT !.end = m] \in Piece(b)
    BY <2>1, <2>2, <2>4 DEF Piece
  <2>7. PICK p \in Piece(b) : p = [s[n] EXCEPT !.end = m]
    BY <2>6
  <2>8. e = [s EXCEPT ![n] = p]
    BY <2>5, <2>7
  <2>9. p.start = s[n].start /\ p.end = m
    BY <2>2, <2>7
  <2> HIDE DEF e, n
  <2>10. e \in Seq(Piece(b)) /\ Len(e) = n /\ (\A j \in 1..n : j < n => e[j] = s[j]) /\ e[n] = p
    <3>1. DOMAIN e = 1..n /\ e[n] = p /\ \A j \in 1..n : j < n => e[j] = s[j]
      BY <1>1, <2>1, <2>8
    <3>2. e = [j \in 1..n |-> e[j]]
      BY <1>1, <2>8, <3>1, Zenon
    <3>3. \A j \in 1..n : e[j] \in Piece(b)
      <4>1. \A j \in 1..n : j < n \/ j = n
        BY <1>1
      <4> QED
        BY <1>2, <3>1, <4>1
    <3> QED
      BY <1>1, <3>1, <3>2, <3>3, IsASeq
  <2> QED
    BY <1>1, <1>3, <2>4, <2>9, <2>10 DEF e, n
<1>4. CASE ~(n > 0 /\ i.start <= s[n].end)
  <2>1. e = Append(s, i)
    <3>1. ~(s # <<>> /\ Touches(s[Len(s)], i))
      BY <1>1, <1>4 DEF Touches
    <3> QED
      BY <3>1 DEF Extend
  <2>2. Append(s, i) \in Seq(Piece(b)) /\ Len(Append(s, i)) = n + 1
        /\ (\A j \in 1..n : Append(s, i)[j] = s[j]) /\ Append(s, i)[n + 1] = i
    BY <1>1
  <2>3. /\ e \in Seq(Piece(b)) /\ Len(e) = n + 1 /\ e[n + 1] = i
        /\ \A j \in 1..n : e[j] = s[j]
    BY <2>1, <2>2
  <2> HIDE DEF e, n
  <2> QED
    BY <1>1, <1>4, <2>3 DEF e, n
<1> QED
  BY <1>3, <1>4

\* Extending the blocks of S by an interval that starts no earlier makes the
\* blocks of S and the interval.
LEMMA ExtendBlocks ==
  ASSUME NEW b, NEW S \in SUBSET Piece(b), NEW s, Blocked(s, S, b), NEW i \in Piece(b),
         \A x \in S : x.start <= i.start
  PROVE  Blocked(Extend(s, i), S \cup {i}, b)
<1> DEFINE n == Len(s)
           e == Extend(s, i)
<1>1. /\ s \in Seq(Piece(b)) /\ n \in Nat /\ e \in Seq(Piece(b))
      /\ \A t \in Int : Covered(s, t) <=> Within(S, t)
      /\ \A j, k \in 1..n : j < k => s[j].end < s[k].start
      /\ n > 0 => \E x \in S : s[n].start = x.start
      /\ \A j \in 1..n : s[j].start \in Int /\ s[j].end \in Int
      /\ i.start \in Int /\ i.end \in Int
  <2>1. s \in Seq(Piece(b))
    BY DEF Blocked
  <2>2. e \in Seq(Piece(b)) /\ n \in Nat
    BY <2>1, ExtendIs
  <2>3. \A j \in 1..n : s[j] \in Piece(b)
    BY <2>1
  <2>4. \A p \in Piece(b) : p.start \in Int /\ p.end \in Int
    BY DEF Piece
  <2> QED
    BY <2>1, <2>2, <2>3, <2>4 DEF Blocked
<1>2. \A t : Within(S \cup {i}, t) <=> Within(S, t) \/ (i.start <= t /\ t < i.end)
  BY DEF Within
<1>3. n > 0 => s[n].start <= i.start
  BY <1>1
<1>4. CASE n > 0 /\ i.start <= s[n].end
  <2>1. /\ Len(e) = n /\ \A j \in 1..n : j < n => e[j] = s[j]
        /\ e[n].start = s[n].start
        /\ e[n].end = IF s[n].end < i.end THEN i.end ELSE s[n].end
    BY <1>1, <1>4, ExtendIs
  <2> HIDE DEF n, e
  <2>2. n \in 1..n /\ \A j \in 1..n : j < n \/ j = n
    BY <1>1, <1>4
  <2>3. ASSUME NEW t \in Int
        PROVE  e[n].start <= t /\ t < e[n].end
               <=> (s[n].start <= t /\ t < s[n].end) \/ (i.start <= t /\ t < i.end)
    BY <1>1, <1>3, <1>4, <2>1, <2>2
  <2>4. ASSUME NEW t \in Int
        PROVE  Covered(e, t) <=> Covered(s, t) \/ (i.start <= t /\ t < i.end)
    <3>1. Covered(e, t) <=> (\E j \in 1..n : j < n /\ s[j].start <= t /\ t < s[j].end)
                            \/ (e[n].start <= t /\ t < e[n].end)
      BY <2>1, <2>2 DEF Covered
    <3>2. Covered(s, t) <=> (\E j \in 1..n : j < n /\ s[j].start <= t /\ t < s[j].end)
                            \/ (s[n].start <= t /\ t < s[n].end)
      BY <2>2 DEF Covered, n
    <3> QED
      BY <2>3, <3>1, <3>2
  <2>5. ASSUME NEW j \in 1..n, NEW k \in 1..n, j < k
        PROVE  e[j].end < e[k].start
    <3>1. j < n /\ e[j] = s[j]
      BY <1>1, <2>1, <2>5
    <3>2. e[k].start = s[k].start
      BY <2>1, <2>2
    <3> QED
      BY <1>1, <2>5, <3>1, <3>2
  <2>6. \E x \in S \cup {i} : e[n].start = x.start
    BY <1>1, <1>4, <2>1
  <2> QED
    BY <1>1, <1>2, <2>1, <2>4, <2>5, <2>6 DEF Blocked, e
<1>5. CASE ~(n > 0 /\ i.start <= s[n].end)
  <2>1. Len(e) = n + 1 /\ (\A j \in 1..n : e[j] = s[j]) /\ e[n + 1] = i
    BY <1>1, <1>5, ExtendIs
  <2> HIDE DEF n, e
  <2>2. /\ n + 1 \in 1..(n + 1) /\ (\A j \in 1..(n + 1) : j \in 1..n \/ j = n + 1)
        /\ \A j \in 1..n : j \in 1..(n + 1)
    BY <1>1
  <2>3. ASSUME NEW t \in Int
        PROVE  Covered(e, t) <=> Covered(s, t) \/ (i.start <= t /\ t < i.end)
    <3>1. Covered(s, t) <=> \E j \in 1..n : s[j].start <= t /\ t < s[j].end
      BY DEF Covered, n
    <3>2. Covered(e, t) <=> \E j \in 1..(n + 1) : e[j].start <= t /\ t < e[j].end
      BY <2>1 DEF Covered
    <3> QED
      BY <2>1, <2>2, <3>1, <3>2
  <2>4. \A j \in 1..n : s[j].end < i.start
    <3>1. SUFFICES ASSUME NEW j \in 1..n
                   PROVE  s[j].end < i.start
      OBVIOUS
    <3>2. n > 0 /\ n \in 1..n
      BY <1>1
    <3>3. s[n].end < i.start
      BY <1>1, <1>5, <3>2
    <3>4. CASE j = n
      BY <3>3, <3>4
    <3>5. CASE j # n
      <4>1. j < n
        BY <1>1, <3>5
      <4>2. s[j].end < s[n].start
        BY <1>1, <3>2, <4>1
      <4> QED
        BY <1>1, <1>3, <3>2, <4>2
    <3> QED
      BY <3>4, <3>5
  <2>5. ASSUME NEW j \in 1..(n + 1), NEW k \in 1..(n + 1), j < k
        PROVE  e[j].end < e[k].start
    <3>1. j \in 1..n /\ e[j] = s[j]
      BY <1>1, <2>1, <2>5
    <3>2. CASE k \in 1..n
      <4>1. e[k] = s[k]
        BY <2>1, <3>2
      <4> QED
        BY <1>1, <2>5, <3>1, <3>2, <4>1
    <3>3. CASE k = n + 1
      BY <2>1, <2>4, <3>1, <3>3
    <3> QED
      BY <2>2, <3>2, <3>3
  <2>6. \E x \in S \cup {i} : e[n + 1].start = x.start
    BY <2>1
  <2> QED
    BY <1>1, <1>2, <2>1, <2>3, <2>5, <2>6 DEF Blocked, e
<1> QED
  BY <1>4, <1>5

\* The recursion there is.
Builds(f, sorted, n) ==
  f = [k \in 0..n |-> IF k = 0 THEN <<>> ELSE Extend(f[k - 1], sorted[k])]

\* Blocks can be built of any sequence of intervals.
LEMMA BuildsExists ==
  ASSUME NEW b, NEW n \in Nat, NEW sorted \in [1..n -> Piece(b)]
  PROVE  \E f : Builds(f, sorted, n)
<1> DEFINE X == Seq(Piece(b))
           step == [k \in Nat \X X |-> IF k[1] \in 1..n THEN Extend(k[2], sorted[k[1]]) ELSE k[2]]
<1>1. <<>> \in X
  OBVIOUS
<1>2. \A s \in X, k \in 1..n : Extend(s, sorted[k]) \in X
  BY ExtendIs
<1>3. step \in [(Nat \X X) -> X]
  <2> HIDE DEF X
  <2>1. ASSUME NEW k \in Nat \X X
        PROVE  (IF k[1] \in 1..n THEN Extend(k[2], sorted[k[1]]) ELSE k[2]) \in X
    BY <1>2
  <2> QED
    BY <2>1
<1>4. \A i \in 1..n : \A s \in X : step[<<i, s>>] = Extend(s, sorted[i])
  OBVIOUS
<1> HIDE DEF X, step
<1>5. PICK f \in [0..n -> X] : GoesBy(f, <<>>, step, n)
  BY <1>1, <1>3, Recursion
<1>6. ASSUME NEW i \in 0..n
      PROVE  f[i] = IF i = 0 THEN <<>> ELSE Extend(f[i - 1], sorted[i])
  <2>1. CASE i = 0
    BY <1>5, <2>1 DEF GoesBy
  <2>2. CASE i # 0
    <3>1. i \in 1..n /\ i \in Nat /\ i - 1 \in 0..n
      BY <2>2
    <3>2. f[i - 1] \in X
      BY <3>1
    <3> QED
      BY <1>4, <1>5, <2>2, <3>1, <3>2 DEF GoesBy
  <2> QED
    BY <2>1, <2>2
<1> QED
  BY <1>6 DEF Builds

\* The blocks cover what the intervals do and lie apart.
LEMMA CoalesceIs ==
  ASSUME NEW b, NEW S \in SUBSET Piece(b), IsFiniteSet(S)
  PROVE  Blocked(Coalesce(S), S, b)
<1> DEFINE less == {p \in S \X S : Earlier(p[1], p[2])}
           sorted == Ranked(S, less)
           n == Cardinality(S)
           F == CHOOSE f : Builds(f, sorted, n)
<1>1. Orders(less, S)
  <2>1. \A x, y \in S : <<x, y>> \in less <=> Earlier(x, y)
    OBVIOUS
  <2>2. \A x \in S : x.start \in Int /\ x.end \in Int /\ x = [start |-> x.start, end |-> x.end, busy |-> b]
    BY DEF Piece
  <2>3. \A x, y \in S : x.start = y.start /\ x.end = y.end => x = y
    BY <2>2
  <2>4. \A x \in S : ~Earlier(x, x)
    BY <2>2 DEF Earlier
  <2>5. \A x, y, z \in S : Earlier(x, y) /\ Earlier(y, z) => Earlier(x, z)
    BY <2>2 DEF Earlier
  <2>6. \A x, y \in S : x = y \/ Earlier(x, y) \/ Earlier(y, x)
    BY <2>2, <2>3 DEF Earlier
  <2> HIDE DEF less
  <2> QED
    BY <2>1, <2>4, <2>5, <2>6 DEF Orders
<1>2. /\ n \in Nat /\ sorted \in [1..n -> S]
      /\ \A x \in S : \E i \in 1..n : sorted[i] = x
      /\ \A i, j \in 1..n : i < j => <<sorted[i], sorted[j]>> \in less
  <2> HIDE DEF less
  <2> QED
    BY <1>1, RankedInOrder
<1>3. \A i, j \in 1..n : i < j => sorted[i].start <= sorted[j].start
  <2>1. \A x \in S : x.start \in Int
    BY DEF Piece
  <2>2. \A i \in 1..n : sorted[i].start \in Int
    BY <1>2, <2>1
  <2>3. \A i, j \in 1..n : i < j => Earlier(sorted[i], sorted[j])
    BY <1>2
  <2> HIDE DEF sorted
  <2> QED
    BY <2>2, <2>3 DEF Earlier
<1>4. Len(sorted) = n
  BY <1>2
<1>5. sorted \in [1..n -> Piece(b)]
  BY <1>2
<1>6. Builds(F, sorted, n)
  <2> HIDE DEF sorted, n
  <2> QED
    BY <1>2, <1>5, BuildsExists
<1>7. Coalesce(S) = F[n]
  BY <1>4, Zenon DEF Coalesce, Builds
<1> HIDE DEF less, sorted, n, F
<1> DEFINE done(k) == {sorted[j] : j \in 1..k}
           T == {k \in Nat : k <= n => Blocked(F[k], done(k), b)}
<1>8. 0 \in T
  <2>1. F[0] = <<>>
    BY <1>2, <1>6 DEF Builds
  <2>2. done(0) = {}
    OBVIOUS
  <2>3. \A t : ~Covered(<<>>, t) /\ ~Within({}, t)
    BY DEF Covered, Within
  <2>4. Blocked(<<>>, {}, b)
    BY <2>3 DEF Blocked
  <2> QED
    BY <2>1, <2>2, <2>4
<1>9. ASSUME NEW k \in T
      PROVE  k + 1 \in T
  <2> SUFFICES ASSUME k + 1 <= n
               PROVE  Blocked(F[k + 1], done(k + 1), b)
    OBVIOUS
  <2>1. k \in Nat /\ k + 1 \in 1..n /\ k + 1 \in 0..n /\ (k + 1) - 1 = k /\ k + 1 # 0 /\ k <= n
    BY <1>2
  <2>2. Blocked(F[k], done(k), b)
    BY <2>1
  <2>3. F[k + 1] = Extend(F[k], sorted[k + 1])
    BY <1>6, <2>1 DEF Builds
  <2>4. done(k + 1) = done(k) \cup {sorted[k + 1]}
    <3>1. \A j : j \in 1..(k + 1) <=> j \in 1..k \/ j = k + 1
      BY <2>1
    <3> QED
      BY <3>1
  <2>5. \A j \in 1..k : j \in 1..n /\ j < k + 1
    BY <1>2, <2>1
  <2>6. done(k) \in SUBSET Piece(b) /\ sorted[k + 1] \in Piece(b)
    BY <1>5, <2>1, <2>5
  <2>7. \A x \in done(k) : x.start <= sorted[k + 1].start
    BY <1>3, <2>1, <2>5
  <2> HIDE DEF done
  <2> QED
    BY <2>2, <2>3, <2>4, <2>6, <2>7, ExtendBlocks
<1> HIDE DEF T
<1>10. T = Nat
  <2>1. T \in SUBSET Nat
    BY DEF T
  <2> QED
    BY <1>8, <1>9, <2>1, Inductive
<1>11. Blocked(F[n], done(n), b)
  <2>1. n \in T /\ n <= n
    BY <1>2, <1>10
  <2> HIDE DEF done
  <2> QED
    BY <2>1 DEF T
<1>12. done(n) = S
  BY <1>2
<1> QED
  BY <1>7, <1>11, <1>12

-----------------------------------------------------------------------------
(* Busy time.                                                                *)

\* An event occurs but so often, at times that are known.
LEMMA OccurrencesTyped ==
  ASSUME NEW o, IsObject(o), NEW floating, IsZone(floating), NEW from \in Int, NEW to \in Int
  PROVE  /\ IsFiniteSet(TrueOccurrences(o, floating, from, to))
         /\ \A x \in TrueOccurrences(o, floating, from, to) : x.start \in Int /\ x.end \in Int
<1> DEFINE Made(c) == Occurrence(StartOf(o, floating, c), EndOf(o, floating, c), ToInstant(o, floating, c.of), c)
           kept == {d \in o.overrides : Overlaps(StartOf(o, floating, d), EndOf(o, floating, d),
                                                 d.ends = "dtend", from, to)}
           f == [c \in kept |-> Made(c)]
<1>1. OverrideOccurrences(o, floating, from, to) = {f[c] : c \in kept}
  BY DEF OverrideOccurrences
<1>2. IsFiniteSet(kept) /\ \A c \in kept : f[c].start \in Int /\ f[c].end \in Int
  <2>1. IsFiniteSet(o.overrides) /\ kept \in SUBSET o.overrides
    BY DEF IsObject
  <2>2. IsFiniteSet(kept)
    <3> HIDE DEF kept
    <3> QED
      BY <2>1, FS_Subset
  <2>3. ASSUME NEW c \in kept
        PROVE  f[c].start \in Int /\ f[c].end \in Int
    <3>1. IsComponent(c)
      BY DEF IsObject
    <3>2. StartOf(o, floating, c) \in Int /\ EndOf(o, floating, c) \in Int
      BY <3>1, TimesOf
    <3>3. f[c] = Made(c)
      OBVIOUS
    <3> HIDE DEF kept, f
    <3> QED
      BY <3>2, <3>3 DEF Occurrence
  <2> QED
    BY <2>2, <2>3
<1> HIDE DEF f, kept
<1>3. /\ IsFiniteSet(OverrideOccurrences(o, floating, from, to))
      /\ \A x \in OverrideOccurrences(o, floating, from, to) : x.start \in Int /\ x.end \in Int
  <2>1. IsFiniteSet({f[c] : c \in kept})
    BY <1>2, FiniteImage
  <2> QED
    BY <1>1, <1>2, <2>1
<1>4. CASE o.master = None
  <2>1. TrueOccurrences(o, floating, from, to) = OverrideOccurrences(o, floating, from, to)
    BY <1>4 DEF TrueOccurrences
  <2> QED
    BY <1>3, <2>1
<1>5. CASE o.master # None
  <2> DEFINE ruled == InstantsOf(o, floating, Recurring(o, floating))
             dates == InstantsOf(o, floating, DOMAIN o.rdates)
             starts == {t \in (ruled \cup dates) \ (Excluded(o, floating) \cup Overridden(o, floating)) :
                          Overlaps(t, t + LengthAt(o, floating, ruled, t),
                                   ExplicitAt(o, floating, ruled, t), from, to)}
             g == [s \in starts |-> Occurrence(s, s + LengthAt(o, floating, ruled, s), None, o.master)]
             own == Occurring(o, floating, ruled, from, to)
  <2>1. TrueOccurrences(o, floating, from, to) = OverrideOccurrences(o, floating, from, to) \cup own
    BY <1>5, TrueIs
  <2>2. own = {g[s] : s \in starts}
    BY DEF Occurring
  <2>3. ruled \subseteq Int /\ IsFiniteSet(ruled)
    <3>1. Recurring(o, floating) \in SUBSET Int /\ IsFiniteSet(Recurring(o, floating))
      BY <1>5, RecurringFinite
    <3> QED
      BY <3>1, InstantsFinite
  <2>4. dates \subseteq Int /\ IsFiniteSet(dates)
    <3>1. DOMAIN o.rdates \in SUBSET Int /\ IsFiniteSet(DOMAIN o.rdates)
      BY DEF IsObject
    <3> QED
      BY <3>1, InstantsFinite
  <2>5. starts \in SUBSET (ruled \cup dates)
    OBVIOUS
  <2>6. \A s \in ruled \cup dates : s \in Int /\ LengthAt(o, floating, ruled, s) \in Int
    BY <1>5, <2>3, <2>4, LengthTyped
  <2>7. \A s \in starts : g[s].start \in Int /\ g[s].end \in Int
    <3>1. \A s \in starts : g[s].start = s /\ g[s].end = s + LengthAt(o, floating, ruled, s)
      BY DEF Occurrence
    <3> HIDE DEF g, starts, ruled, dates
    <3> QED
      BY <2>5, <2>6, <3>1
  <2> HIDE DEF g, starts, ruled, dates, own
  <2>8. IsFiniteSet(starts)
    <3>1. IsFiniteSet(ruled \cup dates)
      BY <2>3, <2>4, FS_Union
    <3> QED
      BY <2>5, <3>1, FS_Subset
  <2>9. IsFiniteSet({g[s] : s \in starts})
    BY <2>8, FiniteImage
  <2>10. IsFiniteSet(OverrideOccurrences(o, floating, from, to) \cup own)
    BY <1>3, <2>2, <2>9, FS_Union
  <2> QED
    BY <1>3, <2>1, <2>2, <2>7, <2>10
<1> QED
  BY <1>4, <1>5

\* So much for the busy time of an object a report may find.
LEMMA BusyIntervals ==
  ASSUME Clocks, Unambiguous, Types, ~Is("idle"), NEW o \in Known
  PROVE  /\ IsFiniteSet(BusyIntervalsOf(o))
         /\ \A i \in BusyIntervalsOf(o) :
              /\ i.start \in Int /\ i.end \in Int
              /\ i = [start |-> i.start, end |-> i.end, busy |-> i.busy]
         /\ \A i : i \in BusyIntervalsOf(o) <=>
              \E x \in TrueOccurrences(o, report.ask.zone, report.ask.from, report.ask.to) :
                x.busy # "free" /\ i = [start |-> x.start, end |-> x.end, busy |-> x.busy]
<1> DEFINE all == TrueOccurrences(o, report.ask.zone, report.ask.from, report.ask.to)
           taken == {x \in all : x.busy # "free"}
           f == [x \in taken |-> [start |-> x.start, end |-> x.end, busy |-> x.busy]]
<1>1. ExpandOccurrences(o, report.ask.zone, report.ask.from, report.ask.to) = all
  BY MatchesOccurs
<1>2. IsFiniteSet(all) /\ \A x \in all : x.start \in Int /\ x.end \in Int
  BY KnownObject, AskTyped, OccurrencesTyped
<1>3. BusyIntervalsOf(o) = {[start |-> x.start, end |-> x.end, busy |-> x.busy] : x \in taken}
  BY <1>1 DEF BusyIntervalsOf
<1> HIDE DEF all
<1>4. taken \in SUBSET all
  OBVIOUS
<1>5. IsFiniteSet(BusyIntervalsOf(o))
  <2>1. BusyIntervalsOf(o) = {f[x] : x \in taken}
    BY <1>3
  <2> HIDE DEF f, taken
  <2>2. IsFiniteSet(taken)
    BY <1>2, <1>4, FS_Subset
  <2>3. IsFiniteSet({f[x] : x \in taken})
    BY <2>2, FiniteImage
  <2> QED
    BY <2>1, <2>3
<1> QED
  BY <1>2, <1>3, <1>5 DEF all

\* B is the busy time of what was found, as it was at some time.
Fits(B) ==
  /\ \A i \in B : \E id \in IdsIn(report.found) : \E o \in ever[id] \ {None} : i \in BusyIntervalsOf(o)
  /\ \A id \in IdsIn(report.found) : \E o \in ever[id] \ {None} : BusyIntervalsOf(o) \subseteq B

\* The answer to a free-busy query is the busy time of what was found.
Busied ==
  report.ask.kind = "freebusy" /\ (Is("page") \/ Is("contents") \/ Is("collected") \/ Is("answered")) =>
    \E B : /\ Fits(B)
           /\ ~Is("answered") => report.busy = B
           /\ Is("answered") =>
                report.answer = [busy \in BusyTypes |-> Coalesce({i \in B : i.busy = busy})]

\* Nobody wrote.
Undisturbed == \A id \in Ids : Cardinality(ever[id]) = 1
\* A report that nothing disturbed has seen nothing go or come.
Settled == Is("idle") \/ Undisturbed => gone = 0 /\ come = 0

\* What fits what was found still does when more has been observed.
LEMMA SameFit ==
  ASSUME NEW B, Fits(B), report'.ask = report.ask, report'.found = report.found,
         \A id \in IdsIn(report.found) : ever[id] \subseteq ever'[id]
  PROVE  Fits(B)'
<1>1. IdsIn(report.found)' = IdsIn(report.found)
  BY DEF IdsIn
<1>2. \A o : BusyIntervalsOf(o)' = BusyIntervalsOf(o)
  BY DEF BusyIntervalsOf
<1> QED
  BY <1>1, <1>2 DEF Fits

\* The ids of two sequences.
LEMMA IdsOfBoth ==
  ASSUME NEW T, NEW s \in Seq(T), NEW t \in Seq(T)
  PROVE  IdsIn(s \o t) = IdsIn(s) \cup IdsIn(t)
<1>1. /\ Len(s) \in Nat /\ Len(t) \in Nat /\ DOMAIN s = 1..Len(s) /\ DOMAIN t = 1..Len(t)
  OBVIOUS
<1>2. /\ DOMAIN (s \o t) = 1..(Len(s) + Len(t))
      /\ \A i \in 1..(Len(s) + Len(t)) : (s \o t)[i] = IF i <= Len(s) THEN s[i] ELSE t[i - Len(s)]
  BY <1>1, ConcatProperties
<1>3. \A i \in 1..(Len(s) + Len(t)) : IF i <= Len(s) THEN i \in 1..Len(s) ELSE i - Len(s) \in 1..Len(t)
  BY <1>1
<1>4. \A i \in 1..Len(s) : i \in 1..(Len(s) + Len(t)) /\ i <= Len(s)
  BY <1>1
<1>5. \A i \in 1..Len(t) : /\ i + Len(s) \in 1..(Len(s) + Len(t)) /\ ~(i + Len(s) <= Len(s))
                           /\ (i + Len(s)) - Len(s) = i
  BY <1>1
<1>6. \A x \in IdsIn(s) : x \in IdsIn(s \o t)
  BY <1>1, <1>2, <1>4 DEF IdsIn
<1>7. \A x \in IdsIn(t) : x \in IdsIn(s \o t)
  BY <1>1, <1>2, <1>5 DEF IdsIn
<1>8. \A x \in IdsIn(s \o t) : x \in IdsIn(s) \/ x \in IdsIn(t)
  BY <1>1, <1>2, <1>3 DEF IdsIn
<1> QED
  BY <1>6, <1>7, <1>8

\* The texts of a page add the busy time of those that match.
LEMMA ReadContentsKeepsBusied ==
  ASSUME Types, Busied, ReadContents
  PROVE  Busied'
<1> DEFINE page == report.page
           I == {i \in DOMAIN page : Taken(page[i])}
           matched == At(page, I)
           more == UNION {BusyIntervalsOf(ObjectOf(matched[i].id)) : i \in DOMAIN matched}
<1>1. /\ Is("contents") /\ ~Is("idle") /\ HistoryTyped /\ DOMAIN report = Fields
      /\ page \in Seq(Entries) /\ report.found \in Seq(Entries) /\ ever' = ever
  BY Stage DEF Types, ReadContents, Is, history
<1>2. SUFFICES ASSUME report.ask.kind = "freebusy"
               PROVE  Busied'
  <2>1. report'.ask = report.ask
    BY <1>1 DEF ReadContents, Fields
  <2> QED
    BY <2>1 DEF Busied
<1>3. I = {i \in DOMAIN page : ObjectOf(page[i].id) # None /\ Matches(ObjectOf(page[i].id))}
  <2>1. \A e : Taken(e) <=> ObjectOf(e.id) # None /\ Matches(ObjectOf(e.id))
    BY DEF Taken
  <2> QED
    BY <2>1
<1>4. /\ report'.ask = report.ask /\ report'.found = report.found \o matched
      /\ report'.busy = report.busy \cup more /\ report'.pc # "answered"
  BY <1>1, <1>2, <1>3 DEF ReadContents, Fields, Full
<1>5. PICK B : Fits(B) /\ report.busy = B
  BY <1>1, <1>2 DEF Busied, Is
<1>6. matched \in Seq(Entries) /\ DOMAIN matched = 1..Len(matched)
      /\ \A i \in 1..Len(matched) : Taken(matched[i]) /\ matched[i].id \in Ids
  <2>1. I \in SUBSET DOMAIN page
    OBVIOUS
  <2>2. /\ matched \in Seq(Entries)
        /\ \E g \in [1..Len(matched) -> I] : \A i \in 1..Len(matched) : matched[i] = page[g[i]]
    <3>1. page \in Seq(Entries)
      BY <1>1
    <3> HIDE DEF I, page, more
    <3> QED
      BY <2>1, <3>1, AtIs
  <2>3. \A i \in 1..Len(matched) : Taken(matched[i])
    <3> HIDE DEF matched
    <3> QED
      BY <2>2
  <2> HIDE DEF matched
  <2>4. \A i \in 1..Len(matched) : matched[i] \in Entries
    BY <2>2
  <2>5. \A e \in Entries : e.id \in Ids
    BY DEF Entries
  <2> QED
    BY <2>2, <2>3, <2>4, <2>5
<1> HIDE DEF matched
<1>7. \A i \in 1..Len(matched) : ObjectOf(matched[i].id) \in ever[matched[i].id] \ {None}
  BY <1>1, <1>6 DEF HistoryTyped, Taken
<1>8. IdsIn(report'.found) = IdsIn(report.found) \cup IdsIn(matched)
  BY <1>1, <1>4, <1>6, IdsOfBoth
<1>9. \A o : BusyIntervalsOf(o)' = BusyIntervalsOf(o)
  BY <1>4 DEF BusyIntervalsOf
<1>10. PICK both : both = IdsIn(report'.found)
  OBVIOUS
<1>11. ASSUME NEW i \in B \cup more
       PROVE  \E id \in both : \E o \in ever[id] \ {None} : i \in BusyIntervalsOf(o)
  <2>1. CASE i \in B
    BY <1>5, <1>8, <1>10, <2>1 DEF Fits
  <2>2. CASE i \in more
    <3>1. PICK k \in 1..Len(matched) : i \in BusyIntervalsOf(ObjectOf(matched[k].id))
      BY <1>6, <2>2
    <3>2. matched[k].id \in both
      BY <1>6, <1>8, <1>10 DEF IdsIn
    <3> QED
      BY <1>7, <3>1, <3>2
  <2> QED
    BY <2>1, <2>2
<1>12. ASSUME NEW id \in both
       PROVE  \E o \in ever[id] \ {None} : BusyIntervalsOf(o) \subseteq B \cup more
  <2>1. CASE id \in IdsIn(report.found)
    BY <1>5, <2>1 DEF Fits
  <2>2. CASE id \in IdsIn(matched)
    <3>1. PICK k \in 1..Len(matched) : id = matched[k].id
      BY <1>6, <2>2 DEF IdsIn
    <3>2. BusyIntervalsOf(ObjectOf(id)) \subseteq more
      BY <1>6, <3>1
    <3> QED
      BY <1>7, <3>1, <3>2
  <2> QED
    BY <1>8, <1>10, <2>1, <2>2
<1> HIDE DEF more
<1>13. PICK C : C = B \cup more
  OBVIOUS
<1>14. Fits(C)'
  <2>1. IdsIn(report.found)' = both
    BY <1>10 DEF IdsIn
  <2> QED
    BY <1>1, <1>9, <1>11, <1>12, <1>13, <2>1 DEF Fits
<1>15. report'.busy = C
  BY <1>4, <1>5, <1>13
<1> QED
  BY <1>4, <1>14, <1>15 DEF Busied, Is

\* Every step keeps the busy time that of what was found.
LEMMA StepKeepsBusied ==
  ASSUME Types, Explained, Busied, [Next]_vars
  PROVE  Busied'
<1>1. CASE \E n \in Names : Delete(n) \/ \E o \in Objects : Put(n, o)
  <2>1. PICK n \in Names : Changes(n)
    BY <1>1, WritesChange DEF Types
  <2>2. report' = report
    BY <2>1 DEF Changes
  <2>3. SUFFICES ASSUME report.ask.kind = "freebusy",
                        Is("page") \/ Is("contents") \/ Is("collected") \/ Is("answered")
                 PROVE  Busied'
    BY <2>2 DEF Busied, Is
  <2>4. PICK B : /\ Fits(B)
                 /\ ~Is("answered") => report.busy = B
                 /\ Is("answered") =>
                      report.answer = [busy \in BusyTypes |-> Coalesce({i \in B : i.busy = busy})]
    BY <2>3 DEF Busied
  <2>5. ~Is("idle")
    BY <2>3 DEF Is
  <2>6. IdsIn(report.found) \subseteq Ids
    BY <2>5, WalkedIs
  <2>7. \A id \in IdsIn(report.found) : ever[id] \subseteq ever'[id]
    BY <2>1, <2>5, <2>6 DEF Changes, Observed
  <2>8. Fits(B)'
    BY <2>2, <2>4, <2>7, SameFit
  <2> QED
    BY <2>2, <2>4, <2>8 DEF Busied, Is
<1>2. ASSUME NEW q \in Questions, Begin(q)
      PROVE  Busied'
  <2>1. /\ report'.pc = (IF q.kind = "multiget" THEN "names" ELSE "page")
        /\ report'.found = <<>> /\ report'.busy = {}
    BY <1>2 DEF Begin
  <2>2. Fits({})'
    <3>1. IdsIn(report.found)' = {}
      BY <2>1 DEF IdsIn
    <3> QED
      BY <3>1 DEF Fits
  <2> QED
    BY <2>1, <2>2 DEF Busied, Is
<1>3. CASE ReadNames
  <2>1. ~Pages /\ DOMAIN report = Fields
    BY <1>3, Stage DEF ReadNames, Explained, Types, Is
  <2>2. report'.ask = report.ask
    BY <1>3, <2>1 DEF ReadNames, Fields
  <2> QED
    BY <2>1, <2>2 DEF Pages, Busied
<1>4. CASE ReadPage
  <2>1. /\ Is("page") /\ DOMAIN report = Fields /\ ever' = ever
    BY <1>4, Stage DEF ReadPage, Types, Is, history
  <2>2. report'.ask = report.ask /\ report'.found = report.found /\ report'.busy = report.busy
        /\ report'.pc # "answered"
    BY <1>4, <2>1 DEF ReadPage, Fields
  <2>3. SUFFICES ASSUME report.ask.kind = "freebusy"
                 PROVE  Busied'
    BY <2>2 DEF Busied
  <2>4. PICK B : Fits(B) /\ report.busy = B
    BY <2>1, <2>3 DEF Busied, Is
  <2>5. Fits(B)'
    BY <2>1, <2>2, <2>4, SameFit
  <2> QED
    BY <2>2, <2>4, <2>5 DEF Busied, Is
<1>5. CASE ReadContents
  BY <1>5, ReadContentsKeepsBusied
<1>6. CASE LoadData \/ Answer \/ Fail
  <2>1. Sends /\ DOMAIN report = Fields
    BY <1>6, Stage DEF LoadData, Answer, Fail, Types, DataTyped, Is
  <2>2. report'.ask = report.ask
    BY <1>6, <2>1 DEF LoadData, Answer, Fail, Fields
  <2> QED
    BY <2>1, <2>2 DEF Sends, Busied
<1>7. CASE AnswerFreeBusy
  <2>1. /\ Is("collected") /\ DOMAIN report = Fields /\ ever' = ever /\ report.ask.kind = "freebusy"
    BY <1>7, Stage DEF AnswerFreeBusy, Types, Is, history
  <2>2. /\ report'.ask = report.ask /\ report'.found = report.found /\ report'.pc = "answered"
        /\ report'.answer = [busy \in BusyTypes |-> Coalesced(busy)]
    BY <1>7, <2>1 DEF AnswerFreeBusy, Fields
  <2>3. PICK B : Fits(B) /\ report.busy = B
    BY <2>1 DEF Busied, Is
  <2>4. Fits(B)'
    BY <2>1, <2>2, <2>3, SameFit
  <2>5. report'.answer = [busy \in BusyTypes |-> Coalesce({i \in B : i.busy = busy})]
    BY <2>2, <2>3 DEF Coalesced
  <2> QED
    BY <2>2, <2>4, <2>5 DEF Busied, Is
<1>8. CASE UNCHANGED vars
  <2>1. report' = report /\ ever' = ever
    BY <1>8 DEF vars, history
  <2>2. \A B : Fits(B) => Fits(B)'
    BY <2>1, SameFit
  <2> QED
    BY <2>1, <2>2 DEF Busied, Is
<1> QED
  BY <1>1, <1>2, <1>3, <1>4, <1>5, <1>6, <1>7, <1>8 DEF Next

\* The candidates are those whose objects the index lets through.
CandidatesFit ==
  /\ IdsOf(Candidates) \subseteq Ids
  /\ \A id \in Ids : id \in IdsOf(Candidates) <=>
       /\ ObjectOf(id) # None
       /\ Prefilter(ComputeTimeRangeIndex(ObjectOf(id)), report.ask.from, report.ask.to)

\* The candidates are the rows whose index passes.
LEMMA CandidatesByObject == RowsTyped => CandidatesFit
<1> SUFFICES ASSUME RowsTyped
             PROVE  CandidatesFit
  OBVIOUS
<1>1. IdsOf(Candidates) \subseteq Ids
  BY DEF IdsOf, Candidates, RowsTyped
<1>2. ASSUME NEW id \in Ids, id \in IdsOf(Candidates)
      PROVE  /\ ObjectOf(id) # None
             /\ Prefilter(ComputeTimeRangeIndex(ObjectOf(id)), report.ask.from, report.ask.to)
  <2>1. PICK n \in Candidates : rows[n].id = id
    BY <1>2 DEF IdsOf
  <2>2. /\ n \in Live /\ Prefilter(rows[n].index, report.ask.from, report.ask.to)
    BY DEF Candidates
  <2>3. ObjectOf(id) = rows[n].object
    BY <2>1, <2>2, ObjectHeld DEF ObjectsHeld
  <2> QED
    BY <2>2, <2>3, KnownObject DEF RowsTyped
<1>3. ASSUME NEW id \in Ids, ObjectOf(id) # None,
             Prefilter(ComputeTimeRangeIndex(ObjectOf(id)), report.ask.from, report.ask.to)
      PROVE  id \in IdsOf(Candidates)
  <2>1. PICK n \in Live : rows[n].id = id /\ ObjectOf(id) = rows[n].object
    BY <1>3, ObjectHeld DEF ObjectsHeld
  <2>2. rows[n].index = ComputeTimeRangeIndex(ObjectOf(id))
    BY <2>1 DEF RowsTyped
  <2> QED
    BY <1>3, <2>1, <2>2 DEF IdsOf, Candidates
<1> QED
  BY <1>1, <1>2, <1>3 DEF CandidatesFit

\* What has held one thing holds it still.
LEMMA OneThing ==
  ASSUME NEW S, Cardinality(S) = 1, IsFiniteSet(S), NEW x \in S
  PROVE  S = {x}
<1>1. IsFiniteSet(S \ {x}) /\ Cardinality(S \ {x}) = Cardinality(S) - 1
  BY FS_RemoveElement
<1>2. S \ {x} = {}
  BY <1>1, FS_EmptySet
<1> QED
  BY <1>2

\* Every step keeps an undisturbed report settled.
LEMMA StepKeepsSettled ==
  ASSUME Types, Types', Settled, [Next]_vars
  PROVE  Settled'
<1>1. CASE \E n \in Names : Delete(n) \/ \E o \in Objects : Put(n, o)
  <2>1. PICK n \in Names : Changes(n)
    BY <1>1, WritesChange DEF Types
  <2>2. report' = report
    BY <2>1 DEF Changes
  <2>3. CASE Is("idle")
    BY <2>1, <2>2, <2>3 DEF Changes, Settled, history
  <2>4. CASE ~Is("idle")
    <3>1. SUFFICES ASSUME Undisturbed'
                   PROVE  gone' = 0 /\ come' = 0
      BY <2>2, <2>4 DEF Settled, Is
    <3>2. Observed /\ HistoryTyped /\ HistoryTyped' /\ ~Is("idle")'
      BY <2>1, <2>2, <2>4 DEF Changes, Types, Is
    <3>3. ASSUME NEW id \in Ids
          PROVE  ever'[id] = {ObjectOf(id)} /\ ObjectOf(id)' = ObjectOf(id) /\ Cardinality(ever[id]) = 1
      <4>1. /\ ever'[id] = ever[id] \cup {ObjectOf(id)'} /\ ObjectOf(id) \in ever[id]
            /\ IsFiniteSet(ever'[id]) /\ Cardinality(ever'[id]) = 1
        BY <2>4, <3>1, <3>2 DEF Observed, HistoryTyped, Undisturbed
      <4>2. ever'[id] = {ObjectOf(id)}
        BY <4>1, OneThing
      <4>3. ever[id] = {ObjectOf(id)}
        BY <4>1, <4>2
      <4> QED
        BY <4>1, <4>2, <4>3
    <3>4. gone = 0 /\ come = 0
      BY <3>3 DEF Settled, Undisturbed
    <3>5. CandidatesFit /\ CandidatesFit'
      <4>1. (RowsTyped => CandidatesFit)'
        BY CandidatesByObject, PTL
      <4> QED
        BY <4>1, CandidatesByObject DEF Types
    <3>6. \A id \in Ids : id \in IdsOf(Candidates) <=> id \in IdsOf(Candidates)'
      BY <2>2, <3>3, <3>5 DEF CandidatesFit
    <3>7. IdsOf(Candidates)' = IdsOf(Candidates)
      BY <3>5, <3>6 DEF CandidatesFit
    <3>8. IdsOf(Candidates) \ IdsOf(Candidates)' = {} /\ IdsOf(Candidates)' \ IdsOf(Candidates) = {}
      BY <3>7
    <3>9. Cardinality({}) = 0
      BY FS_EmptySet
    <3> QED
      BY <3>2, <3>4, <3>8, <3>9 DEF Observed
  <2> QED
    BY <2>3, <2>4
<1>2. CASE \E q \in Questions : Begin(q)
  BY <1>2 DEF Begin, Settled
<1>3. CASE ReadNames \/ ReadPage \/ ReadContents \/ LoadData \/ Answer \/ Fail \/ AnswerFreeBusy
  <2>1. ~Is("idle") /\ ever' = ever /\ gone' = gone /\ come' = come /\ DOMAIN report = Fields
    BY <1>3, Stage DEF ReadNames, ReadPage, ReadContents, LoadData, Answer, Fail, AnswerFreeBusy,
       history, Types, Is
  <2>2. report'.pc # "idle"
    BY <1>3, <2>1 DEF ReadNames, ReadPage, ReadContents, LoadData, Answer, Fail, AnswerFreeBusy, Fields
  <2>3. ~Is("idle")'
    BY <2>2 DEF Is
  <2>4. Undisturbed' <=> Undisturbed
    BY <2>1 DEF Undisturbed
  <2>5. Undisturbed => gone = 0 /\ come = 0
    BY DEF Settled
  <2>6. Undisturbed' => gone' = 0 /\ come' = 0
    BY <2>1, <2>4, <2>5, Zenon
  <2> QED
    BY <2>3, <2>6, Zenon DEF Settled
<1>4. CASE UNCHANGED vars
  BY <1>4 DEF vars, history, Settled, Undisturbed, Is
<1> QED
  BY <1>1, <1>2, <1>3, <1>4 DEF Next

\* If nobody wrote, what was found is what occurs.
LEMMA FoundWhatOccurs ==
  ASSUME Clocks, Unambiguous, Types, Explained, Settled, Is("answered"),
         report.ask.kind = "freebusy", Undisturbed
  PROVE  /\ \A id \in IdsIn(report.found) : \A o \in ever[id] :
              \E n \in Live : rows[n].id = id /\ rows[n].object = o /\ Occurs(o)
         /\ \A n \in Live : Occurs(rows[n].object) =>
              rows[n].id \in IdsIn(report.found) /\ ever[rows[n].id] = {rows[n].object}
<1>1. ~Is("idle") /\ Pages /\ ~Full(report.found) /\ PagesExplained /\ gone = 0 /\ come = 0
      /\ RowsTyped /\ HistoryTyped
  BY DEF Is, Pages, Full, Explained, Settled, Types
<1>2. report.found \in Seq(Entries) /\ IdsIn(report.found) \subseteq Ids
  BY <1>1, WalkedIs
<1>3. /\ \A id \in IdsIn(report.found) : OccurredOnce(id)
      /\ Cardinality(Missed(Live, IdsIn(report.found))) <= 0
  BY <1>1, <1>2, ExplainedIs
<1>4. \A id \in Ids : ever[id] = {ObjectOf(id)}
  <2>1. \A id \in Ids : IsFiniteSet(ever[id]) /\ ObjectOf(id) \in ever[id] /\ Cardinality(ever[id]) = 1
    BY <1>1 DEF HistoryTyped, Undisturbed
  <2> QED
    BY <2>1, OneThing
<1>5. Missed(Live, IdsIn(report.found)) = {}
  <2>1. Live \in SUBSET Names
    BY DEF Live
  <2>2. /\ IsFiniteSet(Missed(Live, IdsIn(report.found)))
        /\ Cardinality(Missed(Live, IdsIn(report.found))) \in Nat
    BY <1>1, <2>1, MissedFinite
  <2>3. Cardinality(Missed(Live, IdsIn(report.found))) = 0
    BY <1>3, <2>2
  <2> QED
    BY <2>2, <2>3, FS_EmptySet
<1>6. ASSUME NEW id \in IdsIn(report.found), NEW o \in ever[id]
      PROVE  \E n \in Live : rows[n].id = id /\ rows[n].object = o /\ Occurs(o)
  <2>1. o = ObjectOf(id) /\ id \in Ids
    BY <1>2, <1>4
  <2>2. o # None /\ Occurs(o)
    BY <1>3, <1>4, <2>1 DEF OccurredOnce
  <2>3. PICK n \in Live : rows[n].id = id
    BY <1>1, <2>1, <2>2, ObjectHeld DEF ObjectsHeld
  <2>4. rows[n].object = o
    BY <1>1, <2>1, <2>3, ObjectHeld DEF ObjectsHeld
  <2> QED
    BY <2>2, <2>3, <2>4
<1>7. ASSUME NEW n \in Live, Occurs(rows[n].object)
      PROVE  rows[n].id \in IdsIn(report.found) /\ ever[rows[n].id] = {rows[n].object}
  <2>1. rows[n].id \in Ids /\ ObjectOf(rows[n].id) = rows[n].object
    BY <1>1, ObjectHeld DEF ObjectsHeld, RowsTyped
  <2>2. ever[rows[n].id] = {rows[n].object}
    BY <1>4, <2>1
  <2> QED
    BY <1>5, <1>7, <2>2 DEF Missed
<1> QED
  BY <1>6, <1>7

\* The objects, over all times, by which the found ones' busy time is finite.
LEMMA FitIsFinite ==
  ASSUME Clocks, Unambiguous, Types, ~Is("idle"), NEW B, Fits(B)
  PROVE  /\ IsFiniteSet(B)
         /\ \A i \in B : /\ i.start \in Int /\ i.end \in Int
                         /\ i = [start |-> i.start, end |-> i.end, busy |-> i.busy]
<1> DEFINE ids == IdsIn(report.found)
           e == [id \in ids |-> ever[id] \ {None}]
           O == UNION {e[id] : id \in ids}
           f == [o \in O |-> BusyIntervalsOf(o)]
<1>1. report.found \in Seq(Entries) /\ ids \subseteq Ids /\ IsFiniteSet(ids) /\ HistoryTyped
  BY WalkedIs, IdsInFinite DEF Types
<1>2. \A id \in ids : IsFiniteSet(e[id]) /\ e[id] \subseteq Known
  <2>1. SUFFICES ASSUME NEW id \in ids
                 PROVE  IsFiniteSet(ever[id] \ {None}) /\ ever[id] \ {None} \subseteq Known
    OBVIOUS
  <2>2. IsFiniteSet(ever[id]) /\ ever[id] \subseteq Known \cup {None}
    BY <1>1 DEF HistoryTyped
  <2>3. ever[id] \ {None} \in SUBSET ever[id]
    OBVIOUS
  <2> QED
    BY <2>2, <2>3, FS_Subset
<1>3. \A i \in B : \E id \in ids : \E o \in e[id] : i \in BusyIntervalsOf(o)
  BY DEF Fits
<1> HIDE DEF e, ids
<1>4. IsFiniteSet({e[id] : id \in ids})
  BY <1>1, FiniteImage
<1>5. IsFiniteSet(O) /\ O \subseteq Known
  <2>1. \A T \in {e[id] : id \in ids} : IsFiniteSet(T)
    BY <1>2
  <2>2. IsFiniteSet(O)
    BY <1>4, <2>1, FS_UNION
  <2> QED
    BY <1>2, <2>2
<1>6. \A o \in O : f[o] = BusyIntervalsOf(o)
  OBVIOUS
<1>7. \A i \in B : \E o \in O : i \in f[o]
  BY <1>3, <1>6
<1> HIDE DEF O, f
<1>8. \A o \in O : /\ IsFiniteSet(f[o])
                   /\ \A i \in f[o] : /\ i.start \in Int /\ i.end \in Int
                                      /\ i = [start |-> i.start, end |-> i.end, busy |-> i.busy]
  BY <1>5, <1>6, BusyIntervals
<1>9. IsFiniteSet({f[o] : o \in O})
  BY <1>5, FiniteImage
<1>10. IsFiniteSet(UNION {f[o] : o \in O})
  <2>1. \A T \in {f[o] : o \in O} : IsFiniteSet(T)
    BY <1>8
  <2> QED
    BY <1>9, <2>1, FS_UNION
<1>11. B \in SUBSET UNION {f[o] : o \in O}
  BY <1>7
<1>12. IsFiniteSet(B)
  BY <1>10, <1>11, FS_Subset
<1> QED
  BY <1>7, <1>8, <1>12

\* If nothing disturbs the report, the busy time is where events are.
LEMMA BusyIsRight ==
  ASSUME Clocks, Unambiguous, Types, Explained, Busied, Settled
  PROVE  BusyTimeRight
<1>1. SUFFICES ASSUME Is("answered"), report.ask.kind = "freebusy", Undisturbed
               PROVE  \A busy \in BusyTypes :
       LET q == report.ask
           blocks == report.answer[busy]
           events == UNION {TrueOccurrences(rows[n].object, q.zone, q.from, q.to) :
                              n \in {m \in Live : Occurs(rows[m].object)}}
       IN /\ \A t \in q.from..(q.to - 1) :
               (\E i \in DOMAIN blocks : blocks[i].start <= t /\ t < blocks[i].end)
               <=> \E x \in events : x.busy = busy /\ x.start <= t /\ t < x.end
          /\ \A i, j \in DOMAIN blocks : i < j => blocks[i].end < blocks[j].start
  BY DEF BusyTimeRight, Undisturbed
<1> DEFINE True(o) == TrueOccurrences(o, report.ask.zone, report.ask.from, report.ask.to)
           occurring == {m \in Live : Occurs(rows[m].object)}
           events == UNION {True(rows[n].object) : n \in occurring}
<1>2. ~Is("idle") /\ RowsTyped
  BY <1>1 DEF Is, Types
<1>3. PICK B : /\ Fits(B)
               /\ report.answer = [busy \in BusyTypes |-> Coalesce({i \in B : i.busy = busy})]
  BY <1>1 DEF Busied
<1>4. /\ IsFiniteSet(B)
      /\ \A i \in B : /\ i.start \in Int /\ i.end \in Int
                      /\ i = [start |-> i.start, end |-> i.end, busy |-> i.busy]
  BY <1>2, <1>3, FitIsFinite
<1>5. \A n \in Live : rows[n].object \in Known
  BY <1>2 DEF RowsTyped
<1>6. ASSUME NEW o \in Known
      PROVE  \A i : i \in BusyIntervalsOf(o) <=>
                \E x \in True(o) : x.busy # "free" /\ i = [start |-> x.start, end |-> x.end, busy |-> x.busy]
  BY <1>2, BusyIntervals
<1> HIDE DEF True
<1>7. ASSUME NEW i \in B
      PROVE  \E x \in events : x.busy = i.busy /\ x.start = i.start /\ x.end = i.end
  <2>1. PICK id \in IdsIn(report.found) : \E o \in ever[id] \ {None} : i \in BusyIntervalsOf(o)
    BY <1>3 DEF Fits
  <2>2. PICK o \in ever[id] \ {None} : i \in BusyIntervalsOf(o)
    BY <2>1
  <2>3. PICK n \in Live : rows[n].id = id /\ rows[n].object = o /\ Occurs(o)
    BY <1>1, <2>2, FoundWhatOccurs
  <2>4. PICK x \in True(o) : i = [start |-> x.start, end |-> x.end, busy |-> x.busy]
    BY <1>5, <1>6, <2>2, <2>3
  <2>5. x \in events
    BY <2>3
  <2> QED
    BY <2>4, <2>5
<1>8. ASSUME NEW x \in events, x.busy # "free"
      PROVE  [start |-> x.start, end |-> x.end, busy |-> x.busy] \in B
  <2>1. PICK n \in Live : Occurs(rows[n].object) /\ x \in True(rows[n].object)
    OBVIOUS
  <2>2. rows[n].id \in IdsIn(report.found) /\ ever[rows[n].id] = {rows[n].object}
    BY <1>1, <2>1, FoundWhatOccurs
  <2>3. BusyIntervalsOf(rows[n].object) \subseteq B
    BY <1>3, <2>2 DEF Fits
  <2>4. [start |-> x.start, end |-> x.end, busy |-> x.busy] \in BusyIntervalsOf(rows[n].object)
    BY <1>5, <1>6, <1>8, <2>1
  <2> QED
    BY <2>3, <2>4
<1> HIDE DEF events
<1>9. ASSUME NEW busy \in BusyTypes
      PROVE  /\ \A t \in report.ask.from..(report.ask.to - 1) :
                  (\E i \in DOMAIN report.answer[busy] :
                     report.answer[busy][i].start <= t /\ t < report.answer[busy][i].end)
                  <=> \E x \in events : x.busy = busy /\ x.start <= t /\ t < x.end
             /\ \A i, j \in DOMAIN report.answer[busy] :
                  i < j => report.answer[busy][i].end < report.answer[busy][j].start
  <2> DEFINE S == {i \in B : i.busy = busy}
  <2>1. S \in SUBSET B
    OBVIOUS
  <2>2. S \in SUBSET Piece(busy)
    <3>1. \A i \in S : i.start \in Int /\ i.end \in Int /\ i = [start |-> i.start, end |-> i.end, busy |-> busy]
      BY <1>4
    <3> HIDE DEF S
    <3> QED
      BY <3>1 DEF Piece
  <2>3. busy # "free"
    BY DEF BusyTypes
  <2>4. report.answer[busy] = Coalesce(S)
    BY <1>3
  <2>5. \A t : Within(S, t) <=> \E x \in events : x.busy = busy /\ x.start <= t /\ t < x.end
    <3>1. ASSUME NEW t, Within(S, t)
          PROVE  \E x \in events : x.busy = busy /\ x.start <= t /\ t < x.end
      <4>1. PICK i \in S : i.start <= t /\ t < i.end
        BY <3>1 DEF Within
      <4>2. i \in B /\ i.busy = busy
        OBVIOUS
      <4>3. PICK x \in events : x.busy = i.busy /\ x.start = i.start /\ x.end = i.end
        BY <1>7, <4>2
      <4> QED
        BY <4>1, <4>2, <4>3
    <3>2. ASSUME NEW t, NEW x \in events, x.busy = busy, x.start <= t, t < x.end
          PROVE  Within(S, t)
      <4>1. PICK i : i = [start |-> x.start, end |-> x.end, busy |-> x.busy]
        OBVIOUS
      <4>2. i \in B
        BY <1>8, <2>3, <3>2, <4>1
      <4>3. i.start = x.start /\ i.end = x.end /\ i.busy = busy
        BY <3>2, <4>1
      <4>4. i \in S
        BY <4>2, <4>3
      <4> HIDE DEF S
      <4> QED
        BY <3>2, <4>3, <4>4 DEF Within
    <3> QED
      BY <3>1, <3>2
  <2> HIDE DEF S
  <2>6. IsFiniteSet(S)
    BY <1>4, <2>1, FS_Subset
  <2>7. Blocked(report.answer[busy], S, busy)
    BY <2>2, <2>4, <2>6, CoalesceIs
  <2>8. DOMAIN report.answer[busy] = 1..Len(report.answer[busy])
    <3>1. report.answer[busy] \in Seq(Piece(busy))
      BY <2>7 DEF Blocked
    <3> QED
      BY <3>1
  <2>9. \A i, j \in DOMAIN report.answer[busy] :
                  i < j => report.answer[busy][i].end < report.answer[busy][j].start
    BY <2>7, <2>8 DEF Blocked
  <2>10. \A t \in Int : (\E i \in DOMAIN report.answer[busy] :
                     report.answer[busy][i].start <= t /\ t < report.answer[busy][i].end)
                  <=> Within(S, t)
    BY <2>7, <2>8 DEF Blocked, Covered
  <2>11. \A t \in report.ask.from..(report.ask.to - 1) : t \in Int
    BY <1>2, AskTyped
  <2> QED
    BY <2>5, <2>9, <2>10, <2>11
<1> QED
  BY <1>9 DEF events, occurring, True

\* The free-busy answer to a report that nothing disturbed is busy at an
\* instant of the time range just when an event that counts takes place then,
\* in blocks that neither overlap nor touch.
THEOREM BusyTimeIsRight ==
  ASSUME Clocks, Unambiguous
  PROVE  Spec => []BusyTimeRight
<1> DEFINE Inv == Types /\ Paging /\ Explained /\ Busied /\ Settled
<1>1. Init => Inv
  <2>1. Init => report = Idle /\ gone = 0 /\ come = 0
    BY DEF Init
  <2>2. report = Idle => Paging /\ Explained /\ Busied
    BY DEF Paging, Explained, Busied, Is, Idle
  <2> QED
    BY <2>1, <2>2, InitTypes DEF Settled
<1>2. Inv /\ [Next]_vars => Inv'
  BY StepKeepsTypes, StepKeepsPaging, StepKeepsBusied, StepKeepsSettled
<1>3. Inv => BusyTimeRight
  BY BusyIsRight
<1> HIDE DEF Inv
<1> QED
  BY <1>1, <1>2, <1>3, PTL DEF Spec
=============================================================================
