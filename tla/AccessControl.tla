--------------------------- MODULE AccessControl ---------------------------
(***************************************************************************)
(* Who may do what to a collection or file.  Every resource has a list of  *)
(* ACEs; a check reads the list of the resource and those of its           *)
(* collections, nearest first, and at the same time looks up the groups    *)
(* the requester belongs to, level by level, then lets the first ACE that  *)
(* applies decide.  These are separate queries, and the ACL method and the *)
(* administrators of groups write between them.                            *)
(*                                                                         *)
(* A list is in the order of its positions, so an ACE has none.  Resources *)
(* neither come nor go.                                                    *)
(***************************************************************************)
EXTENDS Groups

CONSTANTS Resources,
          Parent,      \* the collection each resource is in
          Owner,       \* the user each belongs to
          None,
          Requests,    \* requests to DAV that may be in progress at once
          Wanted,      \* bound: the privileges requests ask for
          Lists,       \* bound: the lists that ACL requests carry
          StartLists,  \* bound: what earlier ACL requests may have left
          MaxBusy      \* bound: requests in progress of any kind

\* The resources whose lists concern x, nearest first.
IsLineage(near, x) ==
  /\ near[1] = x
  /\ \A n \in DOMAIN near :
       /\ Parent[near[n]] = IF n = Len(near) THEN None ELSE near[n + 1]
       /\ \A m \in 1..(n - 1) : near[m] # near[n]
Lineages == UNION {[1..n -> Resources] : n \in 1..Cardinality(Resources)}

ASSUME TreeAssumption ==
  /\ Parent \in [Resources -> Resources \cup {None}] /\ None \notin Resources
  /\ Owner \in [Resources -> Users] /\ IsFiniteSet(Resources)
  /\ \A x \in Resources : \E near \in Lineages : IsLineage(near, x)

Lineage == [x \in Resources |-> CHOOSE near \in Lineages : IsLineage(near, x)]

VARIABLES acl,      \* [Resources -> sequence of ACEs]
          reqs      \* the requests to DAV

vars == <<groupVars, acl, reqs>>

Elementary == {"read", "write-properties", "write-content", "bind", "unbind",
               "unlock", "read-acl", "write-acl", "read-current-user-privilege-set"}
ALL_PRIVILEGES == Elementary \cup {"write", "all"}

\* The privileges an aggregated one stands for.
ExpandPrivilege(privilege) ==
  CASE privilege = "all" -> ALL_PRIVILEGES
    [] privilege = "write" -> {"write-properties", "write-content"}
    [] OTHER -> {privilege}
PrivilegeSatisfies(granted, requested) == requested \in ExpandPrivilege(granted)

Ace(who, grant, privilege) ==
  [who |-> who, grant |-> grant, privilege |-> privilege, protected |-> FALSE]
OwnerAllAce(owner) ==
  [who |-> owner, grant |-> TRUE, privilege |-> "all", protected |-> TRUE]

Aces == [who : Principals \cup {"authenticated", "all", "owner"}, grant : BOOLEAN,
         privilege : ALL_PRIVILEGES, protected : BOOLEAN]
ProtectedAces == {ace \in Aces : ace.protected}

\* Requests ask for privileges one by one and name no protected ACE.
ASSUME RequestsAssumption ==
  /\ Wanted \subseteq Elementary
  /\ Lists \subseteq Seq(Aces \ ProtectedAces)
  /\ StartLists \subseteq [Resources -> Seq(Aces \ ProtectedAces)]

\* The elements of a list that are in S, in their order.
Kept(list, S) ==
  LET from[n \in 0..Len(list)] ==
        IF n = 0 THEN <<>>
        ELSE IF list[n] \in S THEN Append(from[n - 1], list[n]) ELSE from[n - 1]
  IN from[Len(list)]
Protected(list) == Kept(list, ProtectedAces)

-----------------------------------------------------------------------------
(* hasPrivilege.  aces is what was read so far and at the resource to read *)
(* next; queue, visited, held and found are those of the walk up through   *)
(* the groups: found are rows read whose group is still to be looked up.   *)
(* The last four fields are history: what stood at some time during the    *)
(* request, and which rows stood all the time.                             *)

Reading(r) == reqs[r].pc = "reading"
Busy == Cardinality({a \in Admins : Checking(a)} \cup {r \in Requests : reqs[r] # Idle})

\* A request of u for privilege on x; with a list, an ACL request.
Begin(r, u, x, privilege, list) ==
  /\ reqs[r] = Idle
  /\ Busy < MaxBusy
  /\ list # <<>> => privilege = "write-acl" /\ MayWrite
  /\ reqs' = [reqs EXCEPT ![r] =
       [pc |-> "reading", user |-> u, target |-> x, privilege |-> privilege,
        list |-> list, aces |-> <<>>, at |-> x, queue |-> <<u>>, visited |-> {},
        held |-> {}, found |-> {}, answer |-> FALSE,
        lists |-> [y \in Resources |-> {acl[y]}], ever |-> members, always |-> members]]
  /\ UNCHANGED <<groupVars, acl>>

\* collectAces: the list of one resource and the id of its parent.
ReadAces(r) ==
  /\ Reading(r)
  /\ reqs[r].at # None
  /\ reqs' = [reqs EXCEPT ![r].aces = reqs[r].aces \o acl[reqs[r].at],
                          ![r].at = Parent[reqs[r].at]]
  /\ UNCHANGED <<groupVars, acl>>

\* collectTransitiveGroupIds: the rows of one principal, ...
ReadMemberships_Mutant(r) ==
  /\ Reading(r)
  /\ reqs[r].found = {}
  /\ reqs[r].queue # <<>>
  /\ LET p == Head(reqs[r].queue)
     IN reqs' = [reqs EXCEPT ![r].queue = Tail(reqs[r].queue),
                             ![r].found = IF p \in reqs[r].visited THEN {} ELSE GroupsOf(p)]
  /\ UNCHANGED <<groupVars, acl>>
ReadMemberships(r) ==
  /\ Reading(r)
  /\ reqs[r].found = {}
  /\ reqs[r].queue # <<>>
  /\ LET p == Head(reqs[r].queue)
     IN reqs' = [reqs EXCEPT ![r].queue = Tail(reqs[r].queue),
                             ![r].visited = reqs[r].visited \cup {p},
                             ![r].found = IF p \in reqs[r].visited THEN {} ELSE GroupsOf(p)]
  /\ UNCHANGED <<groupVars, acl>>

\* ... then the group of each row, in any order.
LookUpGroup_Mutant(r, g) ==
  /\ Reading(r)
  /\ g \in reqs[r].found
  /\ g \in live
  /\ reqs' = [reqs EXCEPT ![r].found = reqs[r].found \ {g},
                          ![r].held = reqs[r].held \cup {g}]
  /\ UNCHANGED <<groupVars, acl>>
LookUpGroup(r, g) ==
  /\ Reading(r)
  /\ g \in reqs[r].found
  /\ g \in live
  /\ reqs' = [reqs EXCEPT
       ![r].found = reqs[r].found \ {g},
       ![r].held = reqs[r].held \cup {g},
       ![r].queue = IF g \in reqs[r].visited THEN reqs[r].queue
                    ELSE Append(reqs[r].queue, g)]
  /\ UNCHANGED <<groupVars, acl>>

\* findOneByOrFail: the group was deleted after its row was read.
FailLookUp(r, g) ==
  /\ Reading(r)
  /\ g \in reqs[r].found
  /\ g \notin live
  /\ reqs' = [reqs EXCEPT ![r] = Idle]
  /\ UNCHANGED <<groupVars, acl>>

Collected(r) == Reading(r) /\ reqs[r].at = None /\ reqs[r].found = {} /\ reqs[r].queue = <<>>

\* The principals an ACE may name to mean u, given the groups of u.
MatchingPrincipals(u, x, held) ==
  {u} \cup held \cup {"authenticated", "all"} \cup (IF u = Owner[x] THEN {"owner"} ELSE {})

\* The first ACE that applies decides; none denies.
EvaluateAces(aces, matching, privilege) ==
  LET Applies(i) == /\ aces[i].who \in matching
                    /\ PrivilegeSatisfies(aces[i].privilege, privilege)
  IN \E i \in DOMAIN aces :
       aces[i].grant /\ Applies(i) /\ \A j \in 1..(i - 1) : ~Applies(j)

\* The groups found are loaded by their ids and the ACEs evaluated.  A request
\* that is granted goes on to the ACL method or is served.
Decide(r) ==
  /\ Collected(r)
  /\ LET q == reqs[r]
         matching == MatchingPrincipals(q.user, q.target, q.held \cap live)
     IN reqs' = [reqs EXCEPT ![r] =
          [q EXCEPT !.pc = "decided", !.aces = <<>>, !.held = {}, !.visited = {},
                    !.answer = EvaluateAces(q.aces, matching, q.privilege)]]
  /\ UNCHANGED <<groupVars, acl>>

Finish(r) ==
  /\ reqs[r].pc = "decided"
  /\ reqs[r].list = <<>> \/ ~reqs[r].answer
  /\ reqs' = [reqs EXCEPT ![r] = Idle]
  /\ UNCHANGED <<groupVars, acl>>

-----------------------------------------------------------------------------
(* The ACL method *)

\* What requests in progress could have read, after acl and members change.
Observed ==
  [r \in Requests |->
     IF Reading(r)
     THEN [reqs[r] EXCEPT !.lists = [y \in Resources |-> reqs[r].lists[y] \cup {acl'[y]}],
                          !.ever = reqs[r].ever \cup members',
                          !.always = reqs[r].always \cap members']
     ELSE reqs[r]]

Authorized(r) == reqs[r].pc = "decided" /\ reqs[r].list # <<>> /\ reqs[r].answer
Recognized(list) == \A i \in DOMAIN list : list[i].who \in Groups => list[i].who \in live

\* An ACE for the principal of a protected one, and not the same.
ConflictsWithProtectedAces(list, existing) ==
  \E i \in DOMAIN list, j \in DOMAIN existing :
    /\ existing[j].protected
    /\ list[i].who = existing[j].who
    /\ <<list[i].privilege, list[i].grant>> # <<existing[j].privilege, existing[j].grant>>

CheckAcl(r) ==
  /\ Authorized(r)
  /\ reqs' = [reqs EXCEPT ![r] =
       IF Recognized(reqs[r].list)
          /\ ~ConflictsWithProtectedAces(reqs[r].list, acl[reqs[r].target])
       THEN [reqs[r] EXCEPT !.pc = "replacing"]
       ELSE Idle]
  /\ UNCHANGED <<groupVars, acl>>

\* Protected ACEs stay; the new ones get the positions after theirs.
Replaced_Mutant(list, new) == new \o Protected(list)
Replaced(list, new) == Protected(list) \o new

\* The transaction; it fails on the reference to a group deleted meanwhile.
ReplaceAces(r) ==
  /\ reqs[r].pc = "replacing"
  /\ MayWrite
  /\ writes' = writes + 1
  /\ LET q == reqs[r]
     IN acl' = IF Recognized(q.list)
               THEN [acl EXCEPT ![q.target] = Replaced(acl[q.target], q.list)]
               ELSE acl
  /\ UNCHANGED <<live, unused, members, adds, raced>>
  /\ reqs' = [Observed EXCEPT ![r] = Idle]

-----------------------------------------------------------------------------
\* A group that is deleted takes its ACEs along.
ChangeGroups ==
  /\ Administer
  /\ acl' = [y \in Resources |->
       Kept(acl[y], {ace \in Aces : ace.who \notin live \ live'})]
  /\ reqs' = Observed
  /\ Busy' <= MaxBusy

Init ==
  /\ GroupInit
  /\ \E lists \in StartLists :
       /\ \A y \in Resources : Recognized(lists[y])
       /\ acl = [y \in Resources |-> <<OwnerAllAce(Owner[y])>> \o lists[y]]
  /\ reqs = [r \in Requests |-> Idle]

Evaluate(r) ==
  \/ ReadAces(r) \/ ReadMemberships(r) \/ Decide(r)
  \/ \E g \in Groups : LookUpGroup(r, g) \/ FailLookUp(r, g)

Next ==
  \/ \E r \in Requests, u \in Users, x \in Resources :
       \/ \E privilege \in Wanted : Begin(r, u, x, privilege, <<>>)
       \/ \E list \in Lists : Begin(r, u, x, "write-acl", list)
  \/ \E r \in Requests : Evaluate(r) \/ Finish(r) \/ CheckAcl(r) \/ ReplaceAces(r)
  \/ ChangeGroups

\* A request that is served gets its queries answered.
Fairness == \A r \in Requests : WF_vars(Evaluate(r))

Spec == Init /\ [][Next]_vars /\ Fairness

-----------------------------------------------------------------------------
(* What the answers should be, apart from how they are found. *)

\* The groups u is in through any number of rows.
Above(rows, u) == {g \in Groups : u \in Below(rows, g)}

Concerns(ace, u, x, groups, privilege) ==
  /\ \/ ace.who \in {u, "authenticated", "all"} \cup groups
     \/ ace.who = "owner" /\ u = Owner[x]
  /\ ace.privilege = privilege \/ PrivilegeSatisfies(ace.privilege, privilege)

\* Some ACE grants, and none that concerns the request is nearer, or as near
\* and before it.
Permitted(lists, u, x, groups, privilege) ==
  LET near == Lineage[x]
      Says(n, i) == Concerns(lists[near[n]][i], u, x, groups, privilege)
  IN \E n \in DOMAIN near :
       \E i \in DOMAIN lists[near[n]] :
         /\ Says(n, i) /\ lists[near[n]][i].grant
         /\ \A j \in 1..(i - 1) : ~Says(n, j)
         /\ \A m \in 1..(n - 1) : \A j \in DOMAIN lists[near[m]] : ~Says(m, j)

TypeOK ==
  /\ live \in SUBSET Groups /\ unused \in SUBSET Groups /\ live \cap unused = {}
  /\ \A row \in members : row[1] \in live /\ Exists(row[2]) /\ row[1] # row[2]
  /\ writes \in 0..MaxWrites /\ raced \in BOOLEAN
  /\ \A y \in Resources : \A i \in DOMAIN acl[y] :
       acl[y][i].who \in Groups => acl[y][i].who \in live

\* Every answer is right for lists and memberships that stood while it was
\* found: each list at some time, no row that never stood, every row that
\* always stood.  With no change in between that is the one right answer.
AnswersExplained ==
  \A r \in Requests : reqs[r].pc = "decided" =>
    LET q == reqs[r]
        Held == {groups \in SUBSET Above(q.ever, q.user) :
                   Above(q.always, q.user) \subseteq groups}
        Read == {lists \in [Resources -> UNION {q.lists[y] : y \in Resources}] :
                   \A y \in Resources : lists[y] \in q.lists[y]}
    IN \E lists \in Read, groups \in Held :
         q.answer = Permitted(lists, q.user, q.target, groups, q.privilege)

\* No ACL request takes anything from an owner, by the groups the owner is in
\* either.
OwnerKeepsAccess ==
  \A x \in Resources :
    LET groups == Above(members, Owner[x])
    IN \A privilege \in Elementary : Permitted(acl, Owner[x], x, groups, privilege)

\* Every check comes to an end, over a membership cycle as well.
EvaluationsEnd == \A r \in Requests : Reading(r) ~> ~Reading(r)
=============================================================================
