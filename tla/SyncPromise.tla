----------------------------- MODULE SyncPromise -----------------------------
(***************************************************************************)
(* What {DAV:}sync-collection promises a client, with no token, no change  *)
(* log and no report in it.  The server owes each client a set of names:   *)
(* those that may differ between the client's copy and the collection.  A  *)
(* change adds names to what every client is owed; a synchronisation may   *)
(* settle any of them; a name that is not owed is right in the client's    *)
(* copy.  Nobody is ever owed less than the truth.                         *)
(***************************************************************************)
CONSTANTS Segments, Etags, Absent, Clients

VARIABLES member, view, owed

vars == <<member, view, owed>>

Contents == [Segments -> Etags \cup {Absent}]

Init ==
  /\ member = [n \in Segments |-> Absent]
  /\ view = [c \in Clients |-> [n \in Segments |-> Absent]]
  /\ owed = [c \in Clients |-> Segments]

\* The members named in S change, in one transaction.
Change(S) ==
  /\ member' \in Contents
  /\ \A n \in Segments \ S : member'[n] = member[n]
  /\ owed' = [c \in Clients |-> owed[c] \cup S]
  /\ UNCHANGED view

\* Client c takes in an answer, which leaves it owed only D.
Sync(c, D) ==
  /\ D \subseteq owed[c]
  /\ owed' = [owed EXCEPT ![c] = D]
  /\ view' \in [Clients -> Contents]
  /\ \A d \in Clients \ {c} : view'[d] = view[d]
  /\ \A n \in Segments \ D : view'[c][n] = member[n]
  /\ UNCHANGED member

Next ==
  \/ \E S \in SUBSET Segments : Change(S)
  \/ \E c \in Clients, D \in SUBSET Segments : Sync(c, D)

Spec == Init /\ [][Next]_vars

\* A name that is not owed is right in the client's copy.
NothingOwedIsWrong ==
  \A c \in Clients, n \in Segments : n \notin owed[c] => view[c][n] = member[n]
=============================================================================
