------------------------------ MODULE Scheduling ------------------------------
(***************************************************************************)
(* Implicit scheduling of one meeting (one UID): the organizer's calendar  *)
(* object and the copies filed in the attendees' default calendars.  A PUT *)
(* or DELETE looks its object up, commits its own write, and then delivers *)
(* to one recipient after the other; a delivery is an inbox row (left out: *)
(* nothing reads it), a read of the recipient's copy and a write of it,    *)
(* each of them a transaction of its own.                                  *)
(*                                                                         *)
(* A calendar object is its row id and its text; the ETag is a hash of the *)
(* text, so comparing ETags is comparing texts.  A text is the SEQUENCE    *)
(* and, for every attendee, the PARTSTAT of its line ("out" if it has      *)
(* none).  Clients send If-Match when they change an object they fetched   *)
(* and If-None-Match when they make one, and wait for the answer.  The     *)
(* organizer may use several (Devices): nothing keeps the deliveries of    *)
(* one request from overlapping those of the next.                         *)
(*                                                                         *)
(* A definition whose name ends in _Mutant is a plausible error of the one *)
(* that follows it; nothing but mutation testing uses it.                  *)
(***************************************************************************)
EXTENDS Integers, FiniteSets

CONSTANTS Organizer,
          Devices,      \* the organizer's clients
          Attendees,    \* local users other than the organizer, a client each
          Filing,       \* the attendees who have a default calendar
          Lists,        \* the sets of attendees an organizer's client sends
          Replies,      \* the answers an attendee's client sends
          NoEvent,      \* no such row
          MaxSeq,       \* bound on SEQUENCE: the organizer stops there
          MaxRows       \* bound on the rows made for one person

ASSUME PeopleAssumption == Organizer \notin Attendees
ASSUME DevicesAssumption == Devices \cap Attendees = {}
ASSUME FilingAssumption == Filing \subseteq Attendees
ASSUME ListsAssumption == Lists \subseteq SUBSET Attendees
ASSUME RepliesAssumption == Replies \subseteq {"ACCEPTED", "DECLINED"}
ASSUME BoundsAssumption == MaxSeq \in Nat /\ MaxRows \in Nat

VARIABLES event,    \* the object each person has for the UID, or NoEvent
          rows,     \* how many rows each person has had (the last row id)
          req,      \* the request each client has in progress
          unfiled,  \* attendees a delivery to whom is pending or has failed
          unheard,  \* attendees whose last answer is yet to be merged
          undone,   \* attendees who declined by a DELETE yet to be done
          stale,    \* people whose text was replaced by one made of an older,
                    \* or who were delivered to by one who was overtaken
          overtaken \* devices that deliver what another has replaced since

store == <<event, rows>>
ghosts == <<unfiled, unheard, undone, stale, overtaken>>
vars == <<store, req, ghosts>>

People == {Organizer} \cup Attendees
Clients == Devices \cup Attendees
Owner(c) == IF c \in Devices THEN Organizer ELSE c
Answers == {"ACCEPTED", "DECLINED"}
Partstats == Answers \cup {"NEEDS-ACTION", "out"}
Texts == [seq : 0..MaxSeq, att : [Attendees -> Partstats]]
Events == [id : 1..MaxRows, text : Texts]
MaybeEvents == Events \cup {NoEvent}
ASSUME NoEventAssumption == NoEvent \notin Events
Steps == {"idle", "commit", "erase", "deliver", "file", "remove", "reply",
          "merge"}

NoLines == [a \in Attendees |-> "out"]
Listed(e) == IF e = NoEvent THEN {} ELSE {a \in Attendees : e.text.att[a] # "out"}

\* A request: its method, where it is, the row it looked up, the text it
\* makes, the recipients it has yet to invite and to cancel, the one it is at,
\* and the copy of that one as it was read.
Idle == [op |-> "put", step |-> "idle", row |-> NoEvent,
         new |-> [seq |-> 0, att |-> NoLines], invite |-> {}, cancel |-> {},
         at |-> Organizer, copy |-> NoEvent]

Requests == [op : {"put", "delete"}, step : Steps, row : MaybeEvents,
             new : Texts, invite : SUBSET Attendees, cancel : SUBSET Attendees,
             at : People, copy : MaybeEvents]

Init ==
  /\ event = [p \in People |-> NoEvent]
  /\ rows = [p \in People |-> 0]
  /\ req = [c \in Clients |-> Idle]
  /\ unfiled = {}
  /\ unheard = {}
  /\ undone = {}
  /\ stale = {}
  /\ overtaken = {}

-----------------------------------------------------------------------------
(* Rows and requests.                                                      *)

\* setAttendeePartstat: a text without a line for a is left alone.
WithPartstat(text, a, x) ==
  IF text.att[a] = "out" THEN text ELSE [text EXCEPT !.att[a] = x]

\* The row that was looked up is still there.
SameRow(p, row) == event[p] # NoEvent /\ row # NoEvent /\ event[p].id = row.id

\* With If-Match the ETag is part of the WHERE of the UPDATE and the DELETE.
Guarded_Mutant(p, row) == SameRow(p, row)

Guarded(p, row) == SameRow(p, row) /\ event[p] = row

\* saveCalendarObject: the UID is unique in a calendar, so a row is made only
\* where none has it; an overwrite needs the row it is meant for.
CanSave(p, row) ==
  IF row = NoEvent THEN event[p] = NoEvent /\ rows[p] < MaxRows
  ELSE SameRow(p, row)

Save(p, row, text) ==
  IF row = NoEvent
  THEN /\ event' = [event EXCEPT ![p] = [id |-> rows[p] + 1, text |-> text]]
       /\ rows' = [rows EXCEPT ![p] = rows[p] + 1]
  ELSE /\ event' = [event EXCEPT ![p].text = text]
       /\ UNCHANGED rows

\* The request of c goes on as q, or ends if nothing is left to deliver.
GoOn(c, q) ==
  req' = [req EXCEPT ![c] =
            IF q.step = "deliver" /\ q.invite = {} /\ q.cancel = {}
            THEN Idle ELSE q]

\* The delivery to the recipient a is over, one way or the other.
PastRecipient(q, a) ==
  [q EXCEPT !.step = "deliver", !.at = Organizer, !.copy = NoEvent,
            !.invite = q.invite \ {a}, !.cancel = q.cancel \ {a}]

-----------------------------------------------------------------------------
(* The requests clients make.                                              *)

\* applyNextSequence for a client that sends the SEQUENCE it fetched.
NextSequence(text) == text.seq + 1

\* The text with attendee list S: lines that were there stay as they are.  A
\* text without an ATTENDEE is no scheduling object: SEQUENCE stays too.
Revised(row, S) ==
  LET Line(a) == IF a \notin S THEN "out"
                 ELSE IF a \in Listed(row) THEN row.text.att[a]
                 ELSE "NEEDS-ACTION"
  IN [seq |-> IF row = NoEvent THEN 0
              ELSE IF S = {} THEN row.text.seq ELSE NextSequence(row.text),
      att |-> [a \in Attendees |-> Line(a)]]

\* New and old text are not compared.
Removed_Mutant(row, S) == {}

\* Who is to be cancelled.  detectSchedulingRole says "none" of a text without
\* an ATTENDEE: nothing is delivered then, not even to those it still listed.
Removed(row, S) == IF S = {} THEN {} ELSE Listed(row) \ S

PutMeeting(d, S) ==
  LET row == event[Organizer] IN
  /\ req[d] = Idle
  /\ row = NoEvent => rows[Organizer] < MaxRows
  /\ row # NoEvent => row.text.seq < MaxSeq
  /\ GoOn(d,
       [Idle EXCEPT !.step = "commit", !.row = row, !.new = Revised(row, S),
                    !.invite = S, !.cancel = Removed(row, S)])
  /\ UNCHANGED <<store, ghosts>>

DeleteMeeting(d) ==
  /\ req[d] = Idle
  /\ event[Organizer] # NoEvent
  /\ GoOn(d,
       [Idle EXCEPT !.op = "delete", !.step = "erase", !.row = event[Organizer],
                    !.cancel = Listed(event[Organizer])])
  /\ UNCHANGED <<store, ghosts>>

PutAnswer(a, x) ==
  /\ req[a] = Idle
  /\ event[a] # NoEvent
  /\ GoOn(a, [Idle EXCEPT !.step = "commit", !.row = event[a],
                          !.new = WithPartstat(event[a].text, a, x)])
  /\ UNCHANGED <<store, ghosts>>

\* Only a refusal is worth a reply.
OwnPartstatChanged_Mutant(p, q) ==
  p # Organizer /\ q.new.att[p] = "DECLINED" /\ q.row.text.att[p] # "DECLINED"

\* The writer's own PARTSTAT in the new text is not the one it replaces.
OwnPartstatChanged(p, q) ==
  p # Organizer /\ q.row.text.att[p] # q.new.att[p]

\* An attendee's DELETE declines first, unless the copy already says so.
DeleteCopy(a) ==
  LET q == [Idle EXCEPT !.op = "delete", !.row = event[a],
                        !.new = WithPartstat(event[a].text, a, "DECLINED")]
  IN /\ req[a] = Idle
     /\ event[a] # NoEvent
     /\ GoOn(a, [q EXCEPT !.step = IF OwnPartstatChanged(a, q)
                                   THEN "reply" ELSE "erase"])
     /\ UNCHANGED <<store, ghosts>>

-----------------------------------------------------------------------------
(* The write a client asked for.                                           *)

Working == {"deliver", "file", "remove"}

\* Whoever of the organizer's clients is still delivering is overtaken.
Overtake(c) ==
  overtaken' = IF c \in Devices THEN {d \in Devices : req[d].step \in Working}
               ELSE overtaken

Commit(c) ==
  LET p == Owner(c)
      q == req[c]
      replies == OwnPartstatChanged(p, q)
  IN /\ q.step = "commit"
     /\ IF q.row = NoEvent THEN CanSave(p, q.row) ELSE Guarded(p, q.row)
     /\ Save(p, q.row, q.new)
     /\ GoOn(c, IF replies THEN [q EXCEPT !.step = "reply", !.row = NoEvent]
                ELSE [q EXCEPT !.step = "deliver"])
     /\ unheard' = unheard \cup q.cancel \cup (IF replies THEN {p} ELSE {})
     /\ unfiled' = unfiled \cup q.invite \cup q.cancel
     /\ Overtake(c)
     /\ UNCHANGED <<undone, stale>>

Erase(c) ==
  LET p == Owner(c)
      q == req[c]
  IN /\ q.step = "erase"
     /\ Guarded(p, q.row)
     /\ event' = [event EXCEPT ![p] = NoEvent]
     /\ GoOn(c, [q EXCEPT !.step = "deliver"])
     /\ unfiled' = unfiled \cup q.cancel
     /\ unheard' = unheard \cup q.cancel
     /\ undone' = undone \ {p}
     /\ Overtake(c)
     /\ UNCHANGED <<rows, stale>>

\* 412 (the object changed or is gone), 507 or 500: nothing is written, but an
\* attendee's DELETE may have declined already.
Refuse(c) ==
  /\ req[c].step \in {"commit", "erase"}
  /\ req' = [req EXCEPT ![c] = Idle]
  /\ UNCHANGED <<store, ghosts>>

-----------------------------------------------------------------------------
(* deliverOrganizerInvites and deliverOrganizerCancellation.               *)

\* Without a default calendar there is no copy to look for.
Skip(a) == a \notin Filing

\* What one who was overtaken has delivered settles nothing.
Settle(d, a) == IF d \in overtaken THEN {} ELSE {a}

\* An inbox row, then the recipient's copy is read.
DeliverRequest(d, a) ==
  LET q == req[d] IN
  /\ q.step = "deliver"
  /\ a \in q.invite
  /\ IF Skip(a)
     THEN GoOn(d, PastRecipient(q, a)) /\ unfiled' = unfiled \ Settle(d, a)
     ELSE /\ GoOn(d, [q EXCEPT !.step = "file", !.at = a, !.copy = event[a]])
          /\ UNCHANGED unfiled
  /\ UNCHANGED <<event, rows, unheard, undone, stale, overtaken>>

\* REQUESTs go first; the CANCEL is made of the text that still listed a.
DeliverCancel(d, a) ==
  LET q == req[d] IN
  /\ q.step = "deliver"
  /\ q.invite = {}
  /\ a \in q.cancel
  /\ IF Skip(a) \/ event[a] = NoEvent
     THEN /\ GoOn(d, PastRecipient(q, a))
          /\ unfiled' = unfiled \ Settle(d, a)
          /\ unheard' = unheard \ Settle(d, a)
     ELSE /\ GoOn(d, [q EXCEPT !.step = "remove", !.at = a, !.copy = event[a]])
          /\ UNCHANGED <<unfiled, unheard>>
  /\ UNCHANGED <<event, rows, undone, stale, overtaken>>

\* A new attendee starts over, another one keeps the answer of the copy.
FiledPartstat(q) ==
  IF q.at \in Listed(q.row) /\ q.at \in Listed(q.copy)
  THEN q.copy.text.att[q.at]
  ELSE "NEEDS-ACTION"

\* The copy is written without If-Match.
FileCopy(d) ==
  LET q == req[d] IN
  /\ q.step = "file"
  /\ CanSave(q.at, q.copy)
  /\ Save(q.at, q.copy, WithPartstat(q.new, q.at, FiledPartstat(q)))
  /\ GoOn(d, PastRecipient(q, q.at))
  /\ unfiled' = unfiled \ Settle(d, q.at)
  /\ stale' = IF event[q.at] # q.copy \/ d \in overtaken
              THEN stale \cup {q.at} ELSE stale
  /\ UNCHANGED <<unheard, undone, overtaken>>

\* deleteCalendarObject by row id; a row that is gone by now is no error.
RemoveCopy(d) ==
  LET q == req[d] IN
  /\ q.step = "remove"
  /\ IF SameRow(q.at, q.copy)
     THEN /\ event' = [event EXCEPT ![q.at] = NoEvent]
          /\ stale' = IF d \in overtaken THEN stale \cup {q.at} ELSE stale
     ELSE UNCHANGED <<event, stale>>
  /\ GoOn(d, PastRecipient(q, q.at))
  /\ unfiled' = unfiled \ Settle(d, q.at)
  /\ unheard' = unheard \ Settle(d, q.at)
  /\ UNCHANGED <<rows, undone, overtaken>>

\* attemptDelivery: a delivery that fails (the recipient's quota, a row that
\* is gone, the database) is logged and the next recipient has its turn.
FailDelivery(d, a) ==
  LET q == req[d] IN
  /\ \/ q.step = "deliver" /\ a \in q.invite
     \/ q.step = "deliver" /\ q.invite = {} /\ a \in q.cancel
     \/ q.step \in {"file", "remove"} /\ a = q.at
  /\ GoOn(d, PastRecipient(q, a))
  /\ UNCHANGED <<store, ghosts>>

-----------------------------------------------------------------------------
(* deliverAttendeeReply and mergeReplyIntoOrganizerCopy.                   *)

\* A DELETE goes on to delete, a PUT has ended.
PastReply(q) ==
  [q EXCEPT !.step = IF q.op = "delete" THEN "erase" ELSE "deliver",
            !.copy = NoEvent]

\* An inbox row, then the organizer's object is read.
DeliverReply(a) ==
  LET q == req[a] IN
  /\ q.step = "reply"
  /\ GoOn(a, [q EXCEPT !.step = "merge", !.copy = event[Organizer]])
  /\ UNCHANGED <<event, rows, ghosts>>

\* The organizer's object is written without If-Match.
MergeReply(a) ==
  LET q == req[a] IN
  /\ q.step = "merge"
  /\ IF q.copy = NoEvent
     THEN UNCHANGED <<event, rows>>
     ELSE /\ SameRow(Organizer, q.copy)
          /\ Save(Organizer, q.copy, WithPartstat(q.copy.text, a, q.new.att[a]))
  /\ GoOn(a, PastReply(q))
  /\ unheard' = IF a \in Listed(q.copy) THEN unheard \ {a} ELSE unheard \cup {a}
  /\ undone' = IF q.op = "delete" THEN undone \cup {a} ELSE undone \ {a}
  /\ stale' = IF q.copy # NoEvent /\ event[Organizer] # q.copy
              THEN stale \cup {Organizer} ELSE stale
  /\ UNCHANGED <<unfiled, overtaken>>

\* deliverWithoutFailing: the error is logged and the request goes on.
FailReply(a) ==
  LET q == req[a] IN
  /\ q.step \in {"reply", "merge"}
  /\ GoOn(a, PastReply(q))
  /\ unheard' = unheard \cup {a}
  /\ UNCHANGED <<store, unfiled, undone, stale, overtaken>>

-----------------------------------------------------------------------------
\* The process dies: requests in progress go no further.
Crash ==
  /\ \E c \in Clients : req[c] # Idle
  /\ req' = [c \in Clients |-> Idle]
  /\ UNCHANGED <<store, ghosts>>

Request ==
  \/ \E d \in Devices : DeleteMeeting(d) \/ \E S \in Lists : PutMeeting(d, S)
  \/ \E a \in Attendees : DeleteCopy(a) \/ \E x \in Replies : PutAnswer(a, x)

Deliver ==
  \E d \in Devices :
    \/ \E a \in Attendees :
         DeliverRequest(d, a) \/ DeliverCancel(d, a) \/ FailDelivery(d, a)
    \/ FileCopy(d)
    \/ RemoveCopy(d)

Reply == \E a \in Attendees : DeliverReply(a) \/ MergeReply(a) \/ FailReply(a)

Next ==
  \/ Request
  \/ \E c \in Clients : Commit(c) \/ Erase(c) \/ Refuse(c)
  \/ Deliver
  \/ Reply
  \/ Crash

Spec == Init /\ [][Next]_vars

-----------------------------------------------------------------------------
(* Properties.                                                             *)

TypeOK ==
  /\ event \in [People -> MaybeEvents]
  /\ rows \in [People -> 0..MaxRows]
  /\ req \in [Clients -> Requests]
  /\ unfiled \in SUBSET Attendees
  /\ unheard \in SUBSET Attendees
  /\ undone \in SUBSET Attendees
  /\ stale \in SUBSET People
  /\ overtaken \in SUBSET Devices

\* Nothing is on its way between the organizer and a, nothing failed, and no
\* object was replaced by one made of an older version of it.
Settled(a) ==
  /\ \A c \in Devices \cup {a} : req[c] = Idle
  /\ a \notin unfiled \cup unheard \cup undone
  /\ stale \cap {a, Organizer} = {}

\* What an attendee has in the calendar is the organizer's last version, and
\* one who is not invited has nothing (deliverOrganizerInvites).
CopiesFollow ==
  \A a \in Attendees : Settled(a) /\ event[a] # NoEvent =>
    /\ a \in Listed(event[Organizer])
    /\ event[a].text.seq = event[Organizer].text.seq

\* The answer in an attendee's copy is the one the organizer has, and an
\* attendee the organizer has as coming still has the copy.
AnswersAgree ==
  \A a \in Attendees : Settled(a) /\ a \in Listed(event[Organizer]) =>
    LET known == event[Organizer].text.att[a] IN
    /\ event[a] # NoEvent /\ event[a].text.att[a] \in Answers
         => known = event[a].text.att[a]
    /\ known = "ACCEPTED" => event[a] # NoEvent

\* The copy of a goes back to an older revision of a meeting that has kept its
\* row.
GoesBack(a) ==
  /\ event[a] # NoEvent /\ event'[a] # NoEvent
  /\ Organizer \notin stale
  /\ rows[Organizer] = 1
  /\ event'[a].text.seq < event[a].text.seq

\* A copy goes back only by the delivery of a request that another one of the
\* organizer has overtaken: never by a reply, by a client of the attendee, nor
\* by the delivery of the request that wrote last, whatever fails, dies or is
\* answered in between (deliverOrganizerInvites).
OnlyOvertakenGoBack ==
  [][\A a \in Attendees :
       GoesBack(a) => \E d \in overtaken : req[d].at = a /\ FileCopy(d)]_vars

\* An attendee still invited has "their copy refreshed" by an updated REQUEST
\* (deliverOrganizerInvites): it is not put back to an older one.
CopyNeverGoesBack == [][\A a \in Attendees : ~GoesBack(a)]_vars

\* "A reschedule doesn't silently revert an already-given answer": the copy of
\* an attendee who stays invited keeps its PARTSTAT (deliverRequest).
RescheduleKeepsAnswer ==
  [][\A a \in Attendees :
       (\E d \in Devices : FileCopy(d) /\ req[d].at = a
                            /\ a \in Listed(req[d].row) \cap Listed(event[a]))
       => event'[a].text.att[a] = event[a].text.att[a]]_vars

\* Merging a reply leaves SEQUENCE and "every other ATTENDEE line untouched"
\* (mergeReplyIntoOrganizerCopy).
MergeLeavesOthers ==
  [][\A a \in Attendees :
       MergeReply(a) /\ event[Organizer] # NoEvent
       => /\ event'[Organizer].text.seq = event[Organizer].text.seq
          /\ \A b \in Attendees \ {a} :
               event'[Organizer].text.att[b] = event[Organizer].text.att[b]]_vars

\* An attendee "present in oldIcs only" is sent a CANCEL and has no copy left
\* once the organizer's PUT is done (deliverOrganizerInvites).
UninvitedHaveNoCopy ==
  \A a \in Attendees :
    Settled(a) /\ event[Organizer] # NoEvent /\ a \notin Listed(event[Organizer])
    => event[a] = NoEvent
=============================================================================
