----------------------------- MODULE MCScheduling -----------------------------
EXTENDS Scheduling, TLC

CONSTANTS ann, bob, org, desk, phone

AllLists == SUBSET Attendees
NonemptyLists == AllLists \ {{}}

\* The second attendee is always invited, the first, who files copies, comes and
\* goes.
TwoLists == {L \in AllLists : bob \in L}

\* The organizer's clients do the same.
SameDevices == Permutations(Devices)

\* Bound: while requests of the organizer overlap, nobody's event is made a second
\* time, and no merge has replaced the organizer's.
Overlapping == overtaken # {} \/ Cardinality({d \in Devices : req[d] # Idle}) > 1
SmallOverlaps == Overlapping => Organizer \notin stale /\ \A p \in People : rows[p] <= 1
=============================================================================
