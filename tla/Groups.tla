------------------------------- MODULE Groups -------------------------------
(***************************************************************************)
(* Groups and their members.  Groups may be members of groups, and adding  *)
(* a member looks for a cycle first: it walks down from the new member,    *)
(* one query per group, and inserts the row after the last query, with no  *)
(* transaction around the two.  Other administrators write in between.     *)
(*                                                                         *)
(* A group and its principal are created and deleted together and are one  *)
(* value here.  Names, and the duplicates they may be, are left out.       *)
(***************************************************************************)
EXTENDS Naturals, Sequences, FiniteSets, SequencesExt

CONSTANTS Users,      \* principals of users
          Groups,     \* groups, and their principals
          Spare,      \* groups that may still have to be created
          Start,      \* bound: the memberships there may be at first
          NewRows,    \* bound: the memberships that are asked for
          Admins,     \* requests to the admin API that may be in progress at once
          MaxWrites   \* bound: changes of groups, memberships and lists

ASSUME PrincipalsAssumption ==
  /\ Users \cap Groups = {} /\ Spare \subseteq Groups
  /\ IsFiniteSet(Groups) /\ IsFiniteSet(Admins)
ASSUME MaxWritesAssumption == MaxWrites \in Nat

VARIABLES live,      \* the groups that exist
          unused,    \* ids no group had yet
          members,   \* rows <<g, p>>: p is a member of g
          adds,      \* the requests to add a member that are in progress
          writes,    \* changes so far
          raced      \* a row was inserted between another's check and insert

groupVars == <<live, unused, members, adds, writes, raced>>

Principals == Users \cup Groups
Idle == [pc |-> "idle"]

DirectMembers(g) == {p \in Principals : <<g, p>> \in members}
GroupsOf(p) == {g \in Groups : <<g, p>> \in members}
Exists(p) == p \in Users \cup live

\* The members of g through any number of rows: what is in every set that the
\* rows do not lead out of.
Closed(rows, g, S) == \A row \in rows : row[1] \in S \cup {g} => row[2] \in S
Below(rows, g) ==
  LET all == {row[2] : row \in rows}
  IN {p \in all : \A S \in SUBSET all : Closed(rows, g, S) => p \in S}

Acyclic(rows) == \A g \in Groups : g \notin Below(rows, g)

ASSUME RowsAssumption ==
  /\ NewRows \subseteq Groups \X Principals
  /\ \A rows \in Start : rows \subseteq Groups \X Principals /\ Acyclic(rows)

Checking(a) == adds[a].pc = "checking"
\* The bound leaves room for the rows still to be inserted.
MayWrite == writes + Cardinality({a \in Admins : Checking(a)}) < MaxWrites

-----------------------------------------------------------------------------
(* addMember *)

BeginAdd(a, g, p) ==
  /\ adds[a] = Idle
  /\ MayWrite
  /\ Exists(g) /\ Exists(p)
  /\ g # p
  /\ adds' = [adds EXCEPT ![a] =
       [pc |-> "checking", group |-> g, member |-> p, late |-> FALSE, found |-> {},
        queue |-> IF p \in Groups THEN <<p>> ELSE <<>>, visited |-> {}]]
  /\ UNCHANGED <<live, unused, members, writes, raced>>

\* One turn of collectTransitiveMemberPrincipalIds: the members of a group not
\* visited before, and those of them that are groups, in any order.
Walk(a) ==
  /\ Checking(a)
  /\ adds[a].queue # <<>>
  /\ LET r == adds[a]
         g == Head(r.queue)
         direct == DirectMembers(g)
     IN IF g \in r.visited
        THEN adds' = [adds EXCEPT ![a].queue = Tail(r.queue)]
        ELSE \E nested \in SetToSeqs((direct \cap live) \ (r.visited \cup {g})) :
               adds' = [adds EXCEPT ![a] =
                 [r EXCEPT !.queue = Tail(r.queue) \o nested,
                           !.visited = r.visited \cup {g},
                           !.found = r.found \cup direct]]
  /\ UNCHANGED <<live, unused, members, writes, raced>>

Checked(a) == Checking(a) /\ adds[a].queue = <<>>
WouldClose_Mutant(a) == adds[a].group \in DirectMembers(adds[a].member)
WouldClose(a) == adds[a].group \in adds[a].found

\* The row violates a reference or the unique index.
CannotInsert(a) ==
  \/ ~Exists(adds[a].group) \/ ~Exists(adds[a].member)
  \/ <<adds[a].group, adds[a].member>> \in members

RefuseAdd(a) ==
  /\ Checked(a)
  /\ WouldClose(a) \/ CannotInsert(a)
  /\ adds' = [adds EXCEPT ![a] = Idle]
  /\ UNCHANGED <<live, unused, members, writes, raced>>

Insert(a) ==
  /\ Checked(a)
  /\ ~WouldClose(a) /\ ~CannotInsert(a)
  /\ writes' = writes + 1
  /\ members' = members \cup {<<adds[a].group, adds[a].member>>}
  /\ raced' = (raced \/ adds[a].late)
  /\ adds' = [b \in Admins |->
       IF b = a THEN Idle
       ELSE IF Checking(b) THEN [adds[b] EXCEPT !.late = TRUE] ELSE adds[b]]
  /\ UNCHANGED <<live, unused>>

-----------------------------------------------------------------------------
RemoveMember(g, p) ==
  /\ MayWrite
  /\ <<g, p>> \in members
  /\ writes' = writes + 1
  /\ members' = members \ {<<g, p>>}
  /\ UNCHANGED <<live, unused, adds, raced>>

\* createGroup; a deleted group does not come back.
CreateGroup(g) ==
  /\ MayWrite
  /\ g \in unused
  /\ writes' = writes + 1
  /\ live' = live \cup {g}
  /\ unused' = unused \ {g}
  /\ UNCHANGED <<members, adds, raced>>

\* deleteGroup: its rows on either side, then the group and its principal.
DeleteGroup(g) ==
  /\ MayWrite
  /\ g \in live
  /\ writes' = writes + 1
  /\ live' = live \ {g}
  /\ members' = {row \in members : g # row[1] /\ g # row[2]}
  /\ UNCHANGED <<unused, adds, raced>>

GroupInit ==
  /\ unused \in {{}, Spare}
  /\ live = Groups \ unused
  /\ members \in {rows \in Start : \A row \in rows : Exists(row[1]) /\ Exists(row[2])}
  /\ adds = [a \in Admins |-> Idle]
  /\ writes = 0
  /\ raced = FALSE

Administer ==
  \/ \E a \in Admins :
       \/ \E row \in NewRows : BeginAdd(a, row[1], row[2])
       \/ Walk(a) \/ RefuseAdd(a) \/ Insert(a)
  \/ \E g \in Groups, p \in Principals : RemoveMember(g, p)
  \/ \E g \in Groups : CreateGroup(g) \/ DeleteGroup(g)

-----------------------------------------------------------------------------
\* Unless two rows were inserted on one check, no group is a member of itself
\* through others: the walk meets every row that could close a cycle, also
\* while rows and groups are removed under it.
MembershipsAcyclic == raced \/ Acyclic(members)
=============================================================================
