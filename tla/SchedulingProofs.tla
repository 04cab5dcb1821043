--------------------------- MODULE SchedulingProofs ---------------------------
(***************************************************************************)
(* What is proved of Scheduling, for any organizer, clients, attendees,    *)
(* lists and bounds.  A copy goes back only where deliveries overlap: the  *)
(* process that delivers a revision is the process that made it, and the   *)
(* organizer's row keeps the revision until another client writes, which   *)
(* marks the first as overtaken; CopiesFollow and AnswersAgree hold        *)
(* because whoever is not up to date is in one of the ghost sets.          *)
(***************************************************************************)
EXTENDS Scheduling, TLAPS

\* The attendees a text lists.
Lines(text) == {a \in Attendees : text.att[a] # "out"}

\* The row ids of one person only grow, and what is there is the last of them.
RowsFit ==
  \A p \in People : event[p] # NoEvent => event[p].id = rows[p]

\* The row that was looked up may be read again only while it is there.
Gone(p, row) == event[p] = NoEvent \/ event[p].id # row.id

\* A PUT or a DELETE of the organizer before its own write.
Writing(q) ==
  /\ q.step = "commit" =>
       /\ q.op = "put"
       /\ q.row # NoEvent => q.row.text.seq <= q.new.seq
       /\ q.invite = Lines(q.new)
       /\ q.cancel \cap q.invite = {}
       /\ {} \notin Lists => Listed(q.row) \ q.invite \subseteq q.cancel
       /\ \A a \in q.invite :
            q.new.att[a] = IF a \in Listed(q.row) THEN q.row.text.att[a]
                           ELSE "NEEDS-ACTION"
  /\ q.step = "erase" =>
       /\ q.op = "delete"
       /\ q.invite = {}
       /\ q.row # NoEvent
       /\ q.cancel = Listed(q.row)

\* Nothing replaced what a or the organizer has by something older.
Clean(a) == stale \cap {a, Organizer} = {}

\* While d delivers and is not overtaken, the row is what it wrote, but for
\* answers; no client delivers a revision the organizer is yet to make.
Delivering(d, q) ==
  q.step \in Working =>
    /\ rows[Organizer] # 0
    /\ q.op = "put" =>
         /\ q.invite \subseteq Lines(q.new)
         /\ q.cancel \cap Lines(q.new) = {}
         /\ d \notin overtaken /\ Organizer \notin stale =>
              /\ event[Organizer] # NoEvent
              /\ event[Organizer].text.seq = q.new.seq
              /\ Listed(event[Organizer]) = Lines(q.new)
         /\ rows[Organizer] = 1 /\ Organizer \notin stale /\ event[Organizer] # NoEvent =>
              q.new.seq <= event[Organizer].text.seq
    /\ q.op = "delete" =>
         q.invite = {} /\ (d \notin overtaken => event[Organizer] = NoEvent)

\* The recipient a delivery is at.
AtRecipient(d, q) ==
  /\ q.step = "file" => q.at \in q.invite \cap Filing
  /\ q.step = "remove" =>
       /\ q.at \in q.cancel
       /\ q.copy # NoEvent
       /\ d \notin overtaken /\ Clean(q.at) =>
            event[q.at] = NoEvent \/ event[q.at].id = q.copy.id

\* The request of a client of the organizer.
Asking(d, q) ==
  /\ q.step \notin {"reply", "merge"}
  /\ Writing(q)
  /\ Delivering(d, q)
  /\ AtRecipient(d, q)

\* No copy before there is a meeting, none newer than the meeting.
NoneNewer ==
  /\ rows[Organizer] = 0 => \A a \in Attendees : event[a] = NoEvent
  /\ rows[Organizer] = 1 /\ Organizer \notin stale /\ event[Organizer] # NoEvent =>
       \A a \in Attendees :
         event[a] # NoEvent => event[a].text.seq <= event[Organizer].text.seq

\* The request of an attendee.
Answering(a, q) ==
  /\ q.step \in {"idle", "commit", "erase", "reply", "merge"}
  /\ q.invite = {} /\ q.cancel = {}
  /\ q.step = "commit" =>
       /\ q.op = "put"
       /\ q.row # NoEvent
       /\ q.row.text.att[a] # "out"
       /\ q.new.seq = q.row.text.seq
       /\ q.new.att[a] \in Answers \cup {q.row.text.att[a]}
  /\ q.step = "erase" \/ (q.step \in {"reply", "merge"} /\ q.op = "delete") =>
       q.row # NoEvent /\ q.row.id <= rows[a]
  /\ q.step \in {"reply", "merge"} => q.new.att[a] \in Answers
  /\ q.step \in {"reply", "merge"} /\ q.op = "delete" => q.new.att[a] = "DECLINED"

\* A copy lists whom it is for; who files none has none and answers nothing.
OwnLine(a) ==
  /\ event[a] # NoEvent => event[a].text.att[a] # "out"
  /\ a \notin Filing => event[a] = NoEvent /\ req[a].step = "idle"

RequestsOK ==
  /\ \A d \in Devices : Asking(d, req[d])
  /\ \A a \in Attendees : Answering(a, req[a]) /\ OwnLine(a)

Safe == TypeOK /\ RowsFit /\ RequestsOK /\ NoneNewer

-----------------------------------------------------------------------------
Heard(a) == Clean(a) /\ a \notin unheard \cup undone
Known(a) == event[Organizer].text.att[a]

\* Who is not waited for has the organizer's revision or nothing.
Follows(a) ==
  Clean(a) /\ a \notin unfiled /\ event[a] # NoEvent =>
    /\ a \in Listed(event[Organizer])
    /\ event[a].text.seq = event[Organizer].text.seq

\* A copy whose owner is not listed is one to be cancelled.
Uninvited(a) ==
  Heard(a) /\ a \notin Listed(event[Organizer]) => event[a] = NoEvent

\* The organizer knows the answer.
Agrees(a) ==
  a \in Listed(event[Organizer]) =>
    /\ Heard(a) /\ event[a] # NoEvent /\ event[a].text.att[a] \in Answers
         => Known(a) = event[a].text.att[a]
    /\ Heard(a) /\ a \notin unfiled /\ Known(a) = "ACCEPTED" => event[a] # NoEvent
    /\ Clean(a) /\ a \in undone \ unheard => Known(a) # "ACCEPTED"
    /\ a \notin Filing /\ Clean(a) => Known(a) \notin Answers

\* The answer on its way is that of the copy.
Underway(a) ==
  LET q == req[a] IN
  /\ q.step \in {"reply", "merge"} /\ q.op = "put" /\ Clean(a) =>
       /\ event[a] # NoEvent /\ event[a].text.att[a] \in Answers
            => event[a].text.att[a] = q.new.att[a]
       /\ a \in Listed(event[Organizer]) /\ a \notin unfiled => event[a] # NoEvent
  /\ q.step = "erase" /\ Clean(a) =>
       q.row.text.att[a] = "DECLINED" \/ a \in undone \cup unheard \/ Gone(a, q.row)

Current(a) == Follows(a) /\ Uninvited(a) /\ Agrees(a) /\ Underway(a)
UpToDate == \A a \in Attendees : Current(a)

-----------------------------------------------------------------------------
(* Texts and rows.                                                         *)

LEMMA EventType ==
  ASSUME NEW e \in MaybeEvents, e # NoEvent
  PROVE  e \in Events /\ e.id \in 1..MaxRows /\ e.text \in Texts
  BY DEF MaybeEvents, Events

LEMMA MadeEvent ==
  ASSUME NEW i \in 1..MaxRows, NEW text \in Texts
  PROVE  LET e == [id |-> i, text |-> text] IN
         e \in MaybeEvents /\ e # NoEvent /\ e.id = i /\ e.text = text
  BY NoEventAssumption DEF MaybeEvents, Events

LEMMA RetextedEvent ==
  ASSUME NEW e \in Events, NEW text \in Texts
  PROVE  LET f == [e EXCEPT !.text = text] IN
         f \in MaybeEvents /\ f # NoEvent /\ f.id = e.id /\ f.text = text
  BY NoEventAssumption DEF MaybeEvents, Events

LEMMA TextType ==
  ASSUME NEW t \in Texts
  PROVE  /\ t.seq \in 0..MaxSeq /\ t.seq \in Nat
         /\ \A a \in Attendees : t.att[a] \in Partstats
         /\ Lines(t) \subseteq Attendees
  BY BoundsAssumption DEF Texts, Lines

LEMMA ListedIs ==
  ASSUME NEW e
  PROVE  /\ Listed(e) \subseteq Attendees
         /\ Listed(NoEvent) = {}
         /\ e # NoEvent => Listed(e) = Lines(e.text)
  BY DEF Listed, Lines

\* Setting a PARTSTAT changes one line and adds none.
LEMMA OneLine ==
  ASSUME NEW t \in Texts, NEW a, NEW x \in Partstats \ {"out"}
  PROVE  LET w == WithPartstat(t, a, x) IN
         /\ w \in Texts
         /\ w.seq = t.seq
         /\ Lines(w) = Lines(t)
         /\ \A b \in Attendees : b # a => w.att[b] = t.att[b]
         /\ a \in Attendees => w.att[a] = IF t.att[a] = "out" THEN "out" ELSE x
<1>1. CASE t.att[a] = "out"
  BY <1>1 DEF WithPartstat
<1>2. CASE t.att[a] # "out"
  <2> DEFINE w == [t EXCEPT !.att[a] = x]
  <2>1. WithPartstat(t, a, x) = w
    BY <1>2 DEF WithPartstat
  <2>2. w \in Texts /\ w.seq = t.seq
    BY DEF Texts
  <2>3. /\ \A b \in Attendees : b # a => w.att[b] = t.att[b]
        /\ a \in Attendees => w.att[a] = x
    BY DEF Texts
  <2>4. Lines(w) = Lines(t)
    BY <1>2, <2>3 DEF Lines
  <2> QED
    BY <1>2, <2>1, <2>2, <2>3, <2>4
<1> QED
  BY <1>1, <1>2

LEMMA AnswerTypes ==
  /\ Answers \subseteq Partstats \ {"out"}
  /\ Replies \subseteq Answers
  /\ "DECLINED" \in Answers /\ "ACCEPTED" \in Answers
  /\ "NEEDS-ACTION" \in Partstats \ {"out"} /\ "NEEDS-ACTION" \notin Answers
  /\ "out" \notin Answers
  BY RepliesAssumption DEF Answers, Partstats

LEMMA IdleType == Idle \in Requests
  BY BoundsAssumption DEF Idle, Requests, Steps, MaybeEvents, Texts, NoLines,
     Partstats, People

\* What the organizer's client sends.
LEMMA RevisedType ==
  ASSUME NEW row \in MaybeEvents, NEW S \in SUBSET Attendees,
         row # NoEvent => row.text.seq < MaxSeq
  PROVE  LET w == Revised(row, S) IN
         /\ w \in Texts
         /\ Lines(w) = S
         /\ row # NoEvent => row.text.seq <= w.seq
         /\ \A a \in S :
              w.att[a] = IF a \in Listed(row) THEN row.text.att[a] ELSE "NEEDS-ACTION"
<1> DEFINE line(a) == IF a \notin S THEN "out"
                      ELSE IF a \in Listed(row) THEN row.text.att[a] ELSE "NEEDS-ACTION"
           seq == IF row = NoEvent THEN 0
                  ELSE IF S = {} THEN row.text.seq ELSE row.text.seq + 1
<1>1. \A a \in Attendees : line(a) \in Partstats /\ (line(a) = "out" <=> a \notin S)
  BY EventType, TextType, AnswerTypes DEF Listed, Partstats
<1>2. seq \in 0..MaxSeq /\ (row # NoEvent => row.text.seq <= seq)
  BY EventType, TextType, BoundsAssumption
<1>3. Revised(row, S) = [seq |-> seq, att |-> [a \in Attendees |-> line(a)]]
  BY DEF Revised, NextSequence
<1> HIDE DEF line, seq
<1>4. Revised(row, S) \in Texts /\ Lines(Revised(row, S)) = S
  BY <1>1, <1>2, <1>3 DEF Texts, Lines
<1>5. \A a \in S : Revised(row, S).att[a] = line(a)
  BY <1>3
<1> QED
  BY <1>2, <1>3, <1>4, <1>5 DEF line

-----------------------------------------------------------------------------
(* Types.                                                                  *)

LEMMA RequestType ==
  ASSUME NEW q \in Requests
  PROVE  /\ q.op \in {"put", "delete"} /\ q.step \in Steps
         /\ q.row \in MaybeEvents /\ q.copy \in MaybeEvents
         /\ q.new \in Texts
         /\ q.invite \in SUBSET Attendees /\ q.cancel \in SUBSET Attendees
         /\ q.at \in People
  BY DEF Requests

\* A request ends or goes on, and it alone.
LEMMA GoesOn ==
  ASSUME TypeOK, NEW c \in Clients, NEW q \in Requests, GoOn(c, q)
  PROVE  /\ req' \in [Clients -> Requests]
         /\ req'[c] \in {Idle, q}
         /\ q.step # "deliver" => req'[c] = q
         /\ \A r \in Clients : r # c => req'[r] = req[r]
  BY IdleType DEF GoOn, TypeOK

\* Whose clients are whose.
LEMMA Owners ==
  /\ Organizer \in People /\ \A a \in Attendees : a \in People /\ a # Organizer
  /\ \A d \in Devices : d \in Clients /\ d \notin Attendees /\ Owner(d) = Organizer
  /\ \A a \in Attendees : a \in Clients /\ a \notin Devices /\ Owner(a) = a
  /\ \A c \in Clients : c \in Devices \/ c \in Attendees
  BY PeopleAssumption, DevicesAssumption DEF People, Clients, Owner

\* A row is made or its text replaced.
LEMMA Saved ==
  ASSUME TypeOK, RowsFit, NEW p \in People, NEW row \in MaybeEvents, NEW text \in Texts,
         CanSave(p, row), Save(p, row, text)
  PROVE  /\ event' \in [People -> MaybeEvents]
         /\ rows' \in [People -> 0..MaxRows]
         /\ event'[p] # NoEvent /\ event'[p].text = text /\ event'[p].id = rows'[p]
         /\ row = NoEvent => event[p] = NoEvent /\ rows'[p] = rows[p] + 1
         /\ row # NoEvent => event[p] # NoEvent /\ event[p].id = row.id /\ rows' = rows
         /\ \A r \in People : r # p => event'[r] = event[r] /\ rows'[r] = rows[r]
<1>1. CASE row = NoEvent
  <2>1. rows[p] + 1 \in 1..MaxRows
    BY <1>1, BoundsAssumption DEF CanSave, TypeOK
  <2>2. event' = [event EXCEPT ![p] = [id |-> rows[p] + 1, text |-> text]]
        /\ rows' = [rows EXCEPT ![p] = rows[p] + 1]
    BY <1>1 DEF Save
  <2> QED
    BY <1>1, <2>1, <2>2, MadeEvent DEF TypeOK, CanSave
<1>2. CASE row # NoEvent
  <2>1. event[p] \in Events /\ event[p].id = row.id /\ event[p] # NoEvent
    BY <1>2, EventType DEF CanSave, SameRow, TypeOK
  <2>2. event' = [event EXCEPT ![p] = [event[p] EXCEPT !.text = text]] /\ rows' = rows
    BY <1>2 DEF Save, TypeOK
  <2> QED
    BY <1>2, <2>1, <2>2, RetextedEvent DEF TypeOK, RowsFit
<1> QED
  BY <1>1, <1>2

LEMMA PastRecipientType ==
  ASSUME NEW q \in Requests, NEW a
  PROVE  LET n == PastRecipient(q, a) IN
         /\ n \in Requests
         /\ n.step = "deliver" /\ n.op = q.op /\ n.new = q.new
         /\ n.invite = q.invite \ {a} /\ n.cancel = q.cancel \ {a}
  BY DEF PastRecipient, Requests, Steps, MaybeEvents, People

LEMMA PastReplyType ==
  ASSUME NEW q \in Requests
  PROVE  LET n == PastReply(q) IN
         /\ n \in Requests
         /\ n.step = IF q.op = "delete" THEN "erase" ELSE "deliver"
         /\ n.op = q.op /\ n.new = q.new /\ n.row = q.row
         /\ n.invite = q.invite /\ n.cancel = q.cancel
  BY DEF PastReply, Requests, Steps, MaybeEvents

-----------------------------------------------------------------------------
(* A step that writes no object.                                           *)

GhostsType ==
  /\ unfiled \in SUBSET Attendees
  /\ unheard \in SUBSET Attendees
  /\ undone \in SUBSET Attendees
  /\ stale \in SUBSET People
  /\ overtaken \in SUBSET Devices

LEMMA IdleAsks == \A d : Asking(d, Idle) /\ Asking(d, Idle)'
  BY DEF Asking, Writing, Delivering, AtRecipient, Idle, Working

LEMMA AskingStays ==
  ASSUME UNCHANGED <<store, stale, overtaken>>, NEW d, NEW q, Asking(d, q)
  PROVE  Asking(d, q)'
  BY DEF store, Asking, Delivering, AtRecipient, Clean

LEMMA OrganizerGoesOn ==
  ASSUME Safe, GhostsType', UNCHANGED <<store, stale, overtaken>>,
         NEW d \in Devices, NEW n \in Requests, GoOn(d, n), Asking(d, n)
  PROVE  Safe'
<1>1. /\ req' \in [Clients -> Requests]
      /\ req'[d] \in {Idle, n}
      /\ \A c \in Clients : c # d => req'[c] = req[c]
      /\ \A a \in Attendees : req'[a] = req[a]
  BY GoesOn, Owners DEF Safe
<1>2. event' = event /\ rows' = rows /\ stale' = stale
  BY DEF store
<1>3. TypeOK' /\ RowsFit' /\ NoneNewer'
  BY <1>1, <1>2 DEF Safe, TypeOK, GhostsType, RowsFit, NoneNewer
<1>4. \A a \in Attendees : (Answering(a, req[a]) /\ OwnLine(a))'
  BY <1>1, <1>2 DEF Safe, RequestsOK, Answering, OwnLine
<1>5. ASSUME NEW e \in Devices
      PROVE  Asking(e, req[e])'
  <2>1. PICK q : q = req'[e]
    OBVIOUS
  <2>2. Asking(e, q)
    BY <1>1, <2>1, IdleAsks, Owners DEF Safe, RequestsOK
  <2>3. Asking(e, q)'
    BY <2>2, AskingStays
  <2> QED
    BY <2>1, <2>3
<1> QED
  BY <1>3, <1>4, <1>5 DEF Safe, RequestsOK

LEMMA AttendeeGoesOn ==
  ASSUME Safe, GhostsType', UNCHANGED <<store, stale, overtaken>>, NEW a \in Attendees,
         NEW n \in Requests, GoOn(a, n), Answering(a, n) \/ req'[a] = Idle,
         a \in Filing
  PROVE  Safe'
<1>1. /\ req' \in [Clients -> Requests]
      /\ req'[a] \in {Idle, n}
      /\ \A c \in Clients : c # a => req'[c] = req[c]
  BY GoesOn, Owners DEF Safe
<1>2. event' = event /\ rows' = rows /\ stale' = stale
  BY DEF store
<1>3. TypeOK' /\ RowsFit' /\ NoneNewer'
  BY <1>1, <1>2 DEF Safe, TypeOK, GhostsType, RowsFit, NoneNewer
<1>4. ASSUME NEW b \in Attendees
      PROVE  Answering(b, req[b])' /\ OwnLine(b)'
  <2>1. Answering(b, req'[b]) /\ (b \notin Filing => req'[b].step = "idle")
    <3>1. CASE b = a
      <4>1. Answering(a, Idle)
        BY DEF Answering, Idle
      <4> QED
        BY <1>1, <3>1, <4>1
    <3>2. CASE b # a
      BY <1>1, <3>2, Owners DEF Safe, RequestsOK, OwnLine
    <3> QED
      BY <3>1, <3>2
  <2>2. \A n1 : n1 = req'[b] => Answering(b, req[b])'
    BY <2>1, <1>2 DEF Answering
  <2>3. OwnLine(b)'
    BY <1>2, <2>1 DEF Safe, RequestsOK, OwnLine
  <2> QED
    BY <2>2, <2>3
<1>5. ASSUME NEW d \in Devices
      PROVE  Asking(d, req[d])'
  <2>1. PICK q : q = req[d]
    OBVIOUS
  <2>2. Asking(d, q)' /\ req'[d] = q
    BY <1>1, <2>1, AskingStays, Owners DEF Safe, RequestsOK
  <2> QED
    BY <2>2
<1> QED
  BY <1>3, <1>4, <1>5 DEF Safe, RequestsOK

LEMMA IdleFields ==
  /\ Idle.op = "put" /\ Idle.step = "idle" /\ Idle.row = NoEvent /\ Idle.invite = {}
  /\ Idle.cancel = {} /\ Idle.copy = NoEvent
  BY DEF Idle

LEMMA GhostsKept == TypeOK /\ UNCHANGED ghosts => GhostsType' /\ UNCHANGED <<stale, overtaken>>
  BY DEF TypeOK, GhostsType, ghosts

LEMMA SafePutMeeting ==
  ASSUME Safe, NEW d \in Devices, NEW S \in Lists, PutMeeting(d, S)
  PROVE  Safe'
<1> DEFINE row == event[Organizer]
           n == [Idle EXCEPT !.step = "commit", !.row = row, !.new = Revised(row, S),
                             !.invite = S, !.cancel = Removed(row, S)]
<1>1. row \in MaybeEvents /\ S \in SUBSET Attendees
  BY ListsAssumption DEF Safe, TypeOK, People
<1>2. /\ GoOn(d, n)
      /\ row # NoEvent => row.text.seq < MaxSeq
      /\ UNCHANGED <<store, ghosts>>
  BY DEF PutMeeting
<1> HIDE DEF row
<1>3. /\ Revised(row, S) \in Texts
      /\ Lines(Revised(row, S)) = S
      /\ row # NoEvent => row.text.seq <= Revised(row, S).seq
      /\ \A a \in S : Revised(row, S).att[a] =
           IF a \in Listed(row) THEN row.text.att[a] ELSE "NEEDS-ACTION"
  BY <1>1, <1>2, RevisedType
<1>4. /\ Removed(row, S) \in SUBSET Attendees
      /\ Removed(row, S) \cap S = {}
      /\ {} \notin Lists => Listed(row) \ S \subseteq Removed(row, S)
  BY ListedIs DEF Removed
<1>5. n \in Requests
  BY <1>1, <1>3, <1>4, IdleType DEF Requests, Steps
<1>6. /\ n.step = "commit" /\ n.op = "put" /\ n.row = row
      /\ n.new = Revised(row, S) /\ n.invite = S /\ n.cancel = Removed(row, S)
  BY DEF Idle
<1> HIDE DEF n
<1>7. Asking(d, n)
  BY <1>3, <1>4, <1>6 DEF Asking, Writing, Delivering, AtRecipient, Working
<1>8. GhostsType' /\ UNCHANGED <<store, stale, overtaken>>
  BY <1>2, GhostsKept DEF Safe
<1> QED
  BY <1>2, <1>5, <1>7, <1>8, OrganizerGoesOn

LEMMA SafeDeleteMeeting ==
  ASSUME Safe, NEW d \in Devices, DeleteMeeting(d)
  PROVE  Safe'
<1> DEFINE row == event[Organizer]
           n == [Idle EXCEPT !.op = "delete", !.step = "erase", !.row = row,
                             !.cancel = Listed(row)]
<1>1. row \in MaybeEvents /\ Listed(row) \in SUBSET Attendees
  BY ListedIs DEF Safe, TypeOK, People
<1>2. /\ GoOn(d, n)
      /\ row # NoEvent
      /\ UNCHANGED <<store, ghosts>>
  BY DEF DeleteMeeting
<1> HIDE DEF row
<1>3. n \in Requests
  BY <1>1, IdleType DEF Requests, Steps
<1>4. /\ n.step = "erase" /\ n.op = "delete" /\ n.row = row
      /\ n.invite = {} /\ n.cancel = Listed(row)
  BY DEF Idle
<1> HIDE DEF n
<1>5. Asking(d, n)
  BY <1>2, <1>4 DEF Asking, Writing, Delivering, AtRecipient, Working
<1>6. GhostsType' /\ UNCHANGED <<store, stale, overtaken>>
  BY <1>2, GhostsKept DEF Safe
<1> QED
  BY <1>2, <1>3, <1>5, <1>6, OrganizerGoesOn

\* The request of an attendee about the copy.
LEMMA OfCopy ==
  ASSUME Safe, NEW a \in Attendees, event[a] # NoEvent, NEW x \in Answers
  PROVE  /\ a \in Filing
         /\ event[a] \in MaybeEvents /\ event[a].id \in Nat /\ event[a].id <= rows[a]
         /\ event[a].text.att[a] # "out"
         /\ WithPartstat(event[a].text, a, x) \in Texts
         /\ WithPartstat(event[a].text, a, x).seq = event[a].text.seq
         /\ WithPartstat(event[a].text, a, x).att[a] = x
<1>1. event[a] \in MaybeEvents /\ event[a].id = rows[a] /\ rows[a] \in Nat
  BY BoundsAssumption DEF Safe, TypeOK, RowsFit, People
<1>2. a \in Filing /\ event[a].text.att[a] # "out"
  BY DEF Safe, RequestsOK, OwnLine
<1> QED
  BY <1>1, <1>2, EventType, OneLine, AnswerTypes

LEMMA SafePutAnswer ==
  ASSUME Safe, NEW a \in Attendees, NEW x \in Replies, PutAnswer(a, x)
  PROVE  Safe'
<1> DEFINE text == WithPartstat(event[a].text, a, x)
           n == [Idle EXCEPT !.step = "commit", !.row = event[a], !.new = text]
<1>1. /\ GoOn(a, n)
      /\ event[a] # NoEvent
      /\ UNCHANGED <<store, ghosts>>
  BY DEF PutAnswer
<1>2. /\ a \in Filing
      /\ event[a] \in MaybeEvents
      /\ event[a].text.att[a] # "out"
      /\ text \in Texts /\ text.seq = event[a].text.seq /\ text.att[a] = x
      /\ x \in Answers
  BY <1>1, OfCopy, AnswerTypes
<1> HIDE DEF text
<1>3. n \in Requests
  BY <1>2, IdleType DEF Requests, Steps
<1>4. /\ n.step = "commit" /\ n.op = "put" /\ n.row = event[a]
      /\ n.new = text /\ n.invite = {} /\ n.cancel = {}
  BY DEF Idle
<1> HIDE DEF n
<1>5. Answering(a, n)
  BY <1>1, <1>2, <1>4 DEF Answering
<1>6. GhostsType' /\ UNCHANGED <<store, stale, overtaken>>
  BY <1>1, GhostsKept DEF Safe
<1> QED
  BY <1>1, <1>2, <1>3, <1>5, <1>6, AttendeeGoesOn

LEMMA SafeDeleteCopy ==
  ASSUME Safe, NEW a \in Attendees, DeleteCopy(a)
  PROVE  Safe'
<1> DEFINE text == WithPartstat(event[a].text, a, "DECLINED")
           q == [Idle EXCEPT !.op = "delete", !.row = event[a], !.new = text]
           n == [q EXCEPT !.step = IF OwnPartstatChanged(a, q) THEN "reply" ELSE "erase"]
<1>1. /\ GoOn(a, n)
      /\ event[a] # NoEvent
      /\ UNCHANGED <<store, ghosts>>
  BY DEF DeleteCopy
<1>2. /\ a \in Filing
      /\ event[a] \in MaybeEvents /\ event[a].id <= rows[a]
      /\ event[a].text.att[a] # "out"
      /\ text \in Texts /\ text.att[a] = "DECLINED"
      /\ "DECLINED" \in Answers
  BY <1>1, OfCopy, AnswerTypes
<1> HIDE DEF text
<1>3. q \in Requests
  BY <1>2, IdleType DEF Requests
<1>4. /\ q.op = "delete" /\ q.row = event[a]
      /\ q.new = text /\ q.invite = {} /\ q.cancel = {}
  BY DEF Idle
<1> HIDE DEF q
<1>5. n \in Requests
  BY <1>3 DEF Requests, Steps
<1>6. /\ n.step \in {"reply", "erase"} /\ n.op = "delete" /\ n.row = event[a]
      /\ n.new = text /\ n.invite = {} /\ n.cancel = {}
  BY <1>3, <1>4 DEF Requests
<1> HIDE DEF n
<1>7. Answering(a, n)
  BY <1>1, <1>2, <1>6 DEF Answering
<1>8. GhostsType' /\ UNCHANGED <<store, stale, overtaken>>
  BY <1>1, GhostsKept DEF Safe
<1> QED
  BY <1>1, <1>2, <1>5, <1>7, <1>8, AttendeeGoesOn

\* The rest of a delivery is as good as the delivery was.
LEMMA PastOne ==
  ASSUME Safe, NEW d \in Devices, NEW a, req[d].step \in Working
  PROVE  LET n == PastRecipient(req[d], a) IN n \in Requests /\ Asking(d, n)
<1> DEFINE q == req[d]
           n == PastRecipient(q, a)
<1>1. q \in Requests /\ Delivering(d, q)
  BY Owners DEF Safe, TypeOK, RequestsOK, Asking
<1>2. /\ n \in Requests
      /\ n.step = "deliver" /\ n.op = q.op /\ n.new = q.new
      /\ n.invite = q.invite \ {a} /\ n.cancel = q.cancel \ {a}
  BY <1>1, PastRecipientType
<1> HIDE DEF q, n
<1>3. q.step \in Working
  BY DEF q
<1>4. Asking(d, n)
  BY <1>1, <1>2, <1>3 DEF Asking, Writing, Delivering, AtRecipient, Working
<1> QED
  BY <1>2, <1>4 DEF n, q

\* The organizer turns to the copy of a recipient.
LEMMA Turn ==
  ASSUME Safe, NEW d \in Devices, NEW a \in Attendees, NEW step \in {"file", "remove"},
         req[d].step = "deliver"
  PROVE  LET q == req[d]
             n == [q EXCEPT !.step = step, !.at = a, !.copy = event[a]] IN
         /\ n \in Requests /\ n.step = step /\ n.at = a /\ n.copy = event[a]
         /\ n.op = q.op /\ n.invite = q.invite /\ n.cancel = q.cancel
         /\ n.new = q.new /\ n.row = q.row
         /\ Writing(n) /\ Delivering(d, n)
<1> DEFINE q == req[d]
           n == [q EXCEPT !.step = step, !.at = a, !.copy = event[a]]
<1>1. q \in Requests /\ Delivering(d, q) /\ q.step = "deliver"
  BY Owners DEF Safe, TypeOK, RequestsOK, Asking
<1>2. event[a] \in MaybeEvents /\ a \in People
  BY DEF Safe, TypeOK, People
<1> HIDE DEF q
<1>3. /\ n \in Requests /\ n.step = step /\ n.at = a /\ n.copy = event[a]
      /\ n.op = q.op /\ n.invite = q.invite /\ n.cancel = q.cancel
      /\ n.new = q.new /\ n.row = q.row
  BY <1>1, <1>2 DEF Requests, Steps
<1> HIDE DEF n
<1>4. Writing(n) /\ Delivering(d, n)
  BY <1>1, <1>3 DEF Writing, Delivering, Working
<1> QED
  BY <1>3, <1>4 DEF n, q

LEMMA SafeDeliverRequest ==
  ASSUME Safe, NEW d \in Devices, NEW a \in Attendees, DeliverRequest(d, a)
  PROVE  Safe'
<1> DEFINE q == req[d]
           n == [q EXCEPT !.step = "file", !.at = a, !.copy = event[a]]
<1>1. q.step = "deliver" /\ a \in q.invite /\ UNCHANGED <<store, stale, overtaken>>
  BY DEF DeliverRequest, store
<1>2. GhostsType'
  BY DEF DeliverRequest, GhostsType, Safe, TypeOK
<1>3. CASE Skip(a)
  <2>1. GoOn(d, PastRecipient(q, a)) /\ q.step \in Working
    BY <1>1, <1>3 DEF DeliverRequest, Working
  <2> QED
    BY <1>1, <1>2, <2>1, PastOne, OrganizerGoesOn
<1>4. CASE ~Skip(a)
  <2>1. GoOn(d, n) /\ a \in Filing
    BY <1>4 DEF DeliverRequest, Skip
  <2>2. /\ n \in Requests /\ n.step = "file" /\ n.at = a
        /\ n.invite = q.invite
        /\ Writing(n) /\ Delivering(d, n)
    BY <1>1, Turn
  <2>3. Asking(d, n)
    BY <1>1, <2>1, <2>2 DEF Asking, AtRecipient
  <2> QED
    BY <1>1, <1>2, <2>1, <2>2, <2>3, OrganizerGoesOn
<1> QED
  BY <1>3, <1>4

LEMMA SafeDeliverCancel ==
  ASSUME Safe, NEW d \in Devices, NEW a \in Attendees, DeliverCancel(d, a)
  PROVE  Safe'
<1> DEFINE q == req[d]
           n == [q EXCEPT !.step = "remove", !.at = a, !.copy = event[a]]
<1>1. q.step = "deliver" /\ a \in q.cancel /\ UNCHANGED <<store, stale, overtaken>>
  BY DEF DeliverCancel, store
<1>2. GhostsType'
  BY DEF DeliverCancel, GhostsType, Safe, TypeOK
<1>3. CASE Skip(a) \/ event[a] = NoEvent
  <2>1. GoOn(d, PastRecipient(q, a)) /\ q.step \in Working
    BY <1>1, <1>3 DEF DeliverCancel, Working
  <2> QED
    BY <1>1, <1>2, <2>1, PastOne, OrganizerGoesOn
<1>4. CASE ~(Skip(a) \/ event[a] = NoEvent)
  <2>1. GoOn(d, n) /\ event[a] # NoEvent
    BY <1>4 DEF DeliverCancel
  <2>2. /\ n \in Requests /\ n.step = "remove" /\ n.at = a /\ n.copy = event[a]
        /\ n.cancel = q.cancel
        /\ Writing(n) /\ Delivering(d, n)
    BY <1>1, Turn
  <2>3. Asking(d, n)
    BY <1>1, <2>1, <2>2 DEF Asking, AtRecipient
  <2> QED
    BY <1>1, <1>2, <2>1, <2>2, <2>3, OrganizerGoesOn
<1> QED
  BY <1>3, <1>4

LEMMA SafeFailDelivery ==
  ASSUME Safe, NEW d \in Devices, NEW a \in Attendees, FailDelivery(d, a)
  PROVE  Safe'
<1>1. /\ req[d].step \in Working
      /\ GoOn(d, PastRecipient(req[d], a))
      /\ UNCHANGED <<store, ghosts>>
  BY DEF FailDelivery, Working
<1>2. GhostsType' /\ UNCHANGED <<store, stale, overtaken>>
  BY <1>1, GhostsKept DEF Safe
<1> QED
  BY <1>1, <1>2, PastOne, OrganizerGoesOn

\* A reply is over.
LEMMA PastReplyOK ==
  ASSUME Safe, NEW a \in Attendees, req[a].step \in {"reply", "merge"}, GoOn(a, PastReply(req[a]))
  PROVE  LET n == PastReply(req[a]) IN
         /\ n \in Requests
         /\ Answering(a, n) \/ req'[a] = Idle
         /\ a \in Filing
<1> DEFINE q == req[a]
           n == PastReply(q)
<1>1. q \in Requests /\ Answering(a, q) /\ OwnLine(a)
  BY Owners DEF Safe, TypeOK, RequestsOK
<1>2. /\ n \in Requests
      /\ n.step = IF q.op = "delete" THEN "erase" ELSE "deliver"
      /\ n.row = q.row /\ n.invite = q.invite /\ n.cancel = q.cancel
  BY <1>1, PastReplyType
<1>3. a \in Filing
  BY <1>1 DEF OwnLine
<1>4. CASE q.op = "delete"
  <2> HIDE DEF q, n
  <2>1. q.step \in {"reply", "merge"}
    BY DEF q
  <2>2. Answering(a, n)
    BY <1>1, <1>2, <1>4, <2>1 DEF Answering
  <2> QED
    BY <1>2, <1>3, <2>2 DEF q, n
<1>5. CASE q.op # "delete"
  <2>1. n.step = "deliver" /\ n.invite = {} /\ n.cancel = {}
    BY <1>1, <1>2, <1>5 DEF Answering
  <2>2. req'[a] = Idle
    BY <2>1, Owners DEF GoOn, Safe, TypeOK
  <2> QED
    BY <1>2, <1>3, <2>2
<1> QED
  BY <1>4, <1>5

LEMMA SafeDeliverReply ==
  ASSUME Safe, NEW a \in Attendees, DeliverReply(a)
  PROVE  Safe'
<1> DEFINE q == req[a]
           n == [q EXCEPT !.step = "merge", !.copy = event[Organizer]]
<1>1. /\ q.step = "reply"
      /\ GoOn(a, n)
      /\ UNCHANGED <<store, ghosts>>
  BY DEF DeliverReply, store
<1>2. q \in Requests /\ Answering(a, q) /\ OwnLine(a) /\ event[Organizer] \in MaybeEvents
  BY Owners DEF Safe, TypeOK, RequestsOK
<1>3. a \in Filing
  BY <1>1, <1>2 DEF OwnLine
<1> HIDE DEF q
<1>4. /\ n \in Requests /\ n.step = "merge" /\ n.op = q.op /\ n.row = q.row
      /\ n.new = q.new /\ n.invite = q.invite /\ n.cancel = q.cancel
  BY <1>2 DEF Requests, Steps
<1> HIDE DEF n
<1>5. Answering(a, n)
  BY <1>1, <1>2, <1>4 DEF Answering
<1>6. GhostsType' /\ UNCHANGED <<store, stale, overtaken>>
  BY <1>1, GhostsKept DEF Safe
<1> QED
  BY <1>1, <1>3, <1>4, <1>5, <1>6, AttendeeGoesOn

LEMMA SafeFailReply ==
  ASSUME Safe, NEW a \in Attendees, FailReply(a)
  PROVE  Safe'
<1>1. /\ req[a].step \in {"reply", "merge"}
      /\ GoOn(a, PastReply(req[a]))
      /\ UNCHANGED <<store, stale, overtaken>>
  BY DEF FailReply
<1>2. GhostsType'
  BY DEF FailReply, GhostsType, Safe, TypeOK
<1> QED
  BY <1>1, <1>2, PastReplyOK, AttendeeGoesOn

\* Requests are dropped.
LEMMA SafeDropped ==
  ASSUME Safe, UNCHANGED <<store, ghosts>>, req' \in [Clients -> Requests],
         \A c \in Clients : req'[c] \in {Idle, req[c]}
  PROVE  Safe'
<1>1. event' = event /\ rows' = rows /\ stale' = stale /\ overtaken' = overtaken
  BY DEF store, ghosts
<1>2. TypeOK' /\ RowsFit' /\ NoneNewer'
  BY <1>1 DEF Safe, TypeOK, ghosts, RowsFit, NoneNewer
<1>3. ASSUME NEW a \in Attendees
      PROVE  Answering(a, req[a])' /\ OwnLine(a)'
  <2>1. Answering(a, req'[a]) /\ (a \notin Filing => req'[a].step = "idle")
    <3>1. Answering(a, Idle) /\ Idle.step = "idle"
      BY DEF Answering, Idle
    <3> QED
      BY <3>1, Owners DEF Safe, RequestsOK, OwnLine
  <2>2. \A n : n = req'[a] => Answering(a, req[a])'
    BY <1>1, <2>1 DEF Answering
  <2>3. OwnLine(a)'
    BY <1>1, <2>1 DEF Safe, RequestsOK, OwnLine
  <2> QED
    BY <2>2, <2>3
<1>4. ASSUME NEW d \in Devices
      PROVE  Asking(d, req[d])'
  <2>1. PICK q : q = req'[d]
    OBVIOUS
  <2>2. Asking(d, q)
    BY <2>1, IdleAsks, Owners DEF Safe, RequestsOK
  <2>3. Asking(d, q)'
    BY <1>1, <2>2, AskingStays DEF store
  <2> QED
    BY <2>1, <2>3
<1> QED
  BY <1>2, <1>3, <1>4 DEF Safe, RequestsOK

LEMMA SafeRefuse ==
  ASSUME Safe, NEW c \in Clients, Refuse(c)
  PROVE  Safe'
<1>1. /\ UNCHANGED <<store, ghosts>>
      /\ req' = [req EXCEPT ![c] = Idle]
      /\ req \in [Clients -> Requests]
  BY DEF Refuse, Safe, TypeOK
<1> QED
  BY <1>1, IdleType, SafeDropped

LEMMA SafeCrash ==
  ASSUME Safe, Crash
  PROVE  Safe'
<1>1. /\ UNCHANGED <<store, ghosts>>
      /\ req' = [c \in Clients |-> Idle]
  BY DEF Crash
<1> QED
  BY <1>1, IdleType, SafeDropped

-----------------------------------------------------------------------------
(* The steps that write an object.                                         *)

\* What Commit does to the row of the organizer.
LEMMA OrganizerCommits ==
  ASSUME Safe, NEW d \in Devices, Commit(d)
  PROVE  LET q == req[d]
             n == [q EXCEPT !.step = "deliver"]
         IN
         /\ q \in Requests /\ Writing(q) /\ q.step = "commit"
         /\ n \in Requests /\ n.step = "deliver" /\ n.op = "put" /\ n.new = q.new
         /\ n.invite = q.invite /\ n.cancel = q.cancel
         /\ GoOn(d, n)
         /\ event' \in [People -> MaybeEvents] /\ rows' \in [People -> 0..MaxRows]
         /\ event'[Organizer] # NoEvent /\ event'[Organizer].text = q.new
         /\ event'[Organizer].id = rows'[Organizer] /\ rows'[Organizer] # 0
         /\ event[Organizer] = q.row
         /\ q.row = NoEvent => rows'[Organizer] = rows[Organizer] + 1
         /\ q.row # NoEvent => rows' = rows
         /\ \A a \in Attendees : event'[a] = event[a] /\ rows'[a] = rows[a]
         /\ unheard' = unheard \cup q.cancel
         /\ unfiled' = unfiled \cup q.invite \cup q.cancel
         /\ overtaken' = {e \in Devices : req[e].step \in Working}
         /\ UNCHANGED <<undone, stale>>
<1> DEFINE q == req[d]
           n == [q EXCEPT !.step = "deliver"]
<1>1. q \in Requests /\ Writing(q)
  BY Owners DEF Safe, TypeOK, RequestsOK, Asking
<1>2. ~OwnPartstatChanged(Organizer, q) /\ Owner(d) = Organizer
  BY Owners DEF OwnPartstatChanged
<1>3. /\ q.step = "commit"
      /\ IF q.row = NoEvent THEN CanSave(Organizer, q.row) ELSE Guarded(Organizer, q.row)
      /\ Save(Organizer, q.row, q.new)
      /\ GoOn(d, n)
      /\ unheard' = unheard \cup q.cancel
      /\ unfiled' = unfiled \cup q.invite \cup q.cancel
      /\ overtaken' = {e \in Devices : req[e].step \in Working}
      /\ UNCHANGED <<undone, stale>>
  BY <1>2 DEF Commit, Overtake
<1> HIDE DEF q
<1>4. /\ n \in Requests /\ n.step = "deliver" /\ n.op = "put" /\ n.new = q.new
      /\ n.invite = q.invite /\ n.cancel = q.cancel
  BY <1>1, <1>3 DEF Requests, Steps, Writing
<1>5. CanSave(Organizer, q.row) /\ event[Organizer] = q.row
  BY <1>3 DEF CanSave, Guarded, SameRow
<1>6. q.row \in MaybeEvents /\ q.new \in Texts
  BY <1>1, RequestType
<1>7. /\ event' \in [People -> MaybeEvents] /\ rows' \in [People -> 0..MaxRows]
      /\ event'[Organizer] # NoEvent /\ event'[Organizer].text = q.new
      /\ event'[Organizer].id = rows'[Organizer]
      /\ q.row = NoEvent => rows'[Organizer] = rows[Organizer] + 1
      /\ q.row # NoEvent => rows' = rows
      /\ \A a \in Attendees : event'[a] = event[a] /\ rows'[a] = rows[a]
  BY <1>3, <1>5, <1>6, Saved, Owners DEF Safe
<1>8. rows'[Organizer] # 0
  BY <1>7, EventType, Owners
<1> QED
  BY <1>1, <1>3, <1>4, <1>5, <1>7, <1>8 DEF q

LEMMA SafeOrganizerCommit ==
  ASSUME Safe, NEW d \in Devices, Commit(d)
  PROVE  Safe'
<1> DEFINE q == req[d]
           n == [q EXCEPT !.step = "deliver"]
<1>1. /\ q \in Requests /\ Writing(q) /\ q.step = "commit"
      /\ n \in Requests /\ n.step = "deliver" /\ n.op = "put" /\ n.new = q.new
      /\ n.invite = q.invite /\ n.cancel = q.cancel
      /\ GoOn(d, n)
      /\ event' \in [People -> MaybeEvents] /\ rows' \in [People -> 0..MaxRows]
      /\ event'[Organizer] # NoEvent /\ event'[Organizer].text = q.new
      /\ event'[Organizer].id = rows'[Organizer] /\ rows'[Organizer] # 0
      /\ event[Organizer] = q.row
      /\ q.row = NoEvent => rows'[Organizer] = rows[Organizer] + 1
      /\ q.row # NoEvent => rows' = rows
      /\ \A a \in Attendees : event'[a] = event[a] /\ rows'[a] = rows[a]
  BY OrganizerCommits
<1>2. /\ unheard' = unheard \cup q.cancel
      /\ unfiled' = unfiled \cup q.invite \cup q.cancel
      /\ overtaken' = {e \in Devices : req[e].step \in Working}
      /\ UNCHANGED <<undone, stale>>
  BY OrganizerCommits
<1> HIDE DEF n, q
<1>3. /\ req' \in [Clients -> Requests]
      /\ req'[d] \in {Idle, n}
      /\ \A c \in Clients : c # d => req'[c] = req[c]
      /\ \A a \in Attendees : req'[a] = req[a]
  BY <1>1, GoesOn, Owners DEF Safe
<1>4. TypeOK'
  BY <1>1, <1>2, <1>3, RequestType DEF Safe, TypeOK
<1>5. RowsFit'
  BY <1>1 DEF Safe, RowsFit, People
\* A row that keeps its id was never newer.
<1>6. q.new.seq \in Nat /\ rows[Organizer] \in Nat
  BY <1>1, RequestType, TextType, Owners DEF Safe, TypeOK
<1>7. ASSUME NEW i \in Nat, rows[Organizer] # 0, rows'[Organizer] = 1,
             rows[Organizer] = 1 /\ event[Organizer] # NoEvent => i <= event[Organizer].text.seq
      PROVE  i <= q.new.seq
  <2>1. q.row # NoEvent
    BY <1>1, <1>6, <1>7
  <2>2. rows' = rows /\ event[Organizer] = q.row /\ q.row.text.seq <= q.new.seq
    BY <1>1, <2>1 DEF Writing
  <2>3. q.row.text.seq \in Nat
    BY <1>1, <2>1, RequestType, EventType, TextType
  <2> QED
    BY <1>6, <1>7, <2>1, <2>2, <2>3
<1>8. NoneNewer'
  <2>1. ASSUME NEW a \in Attendees, event[a] # NoEvent
        PROVE  event[a].text.seq \in Nat /\ rows[Organizer] # 0
    BY <2>1, EventType, TextType, Owners DEF Safe, TypeOK, NoneNewer
  <2> QED
    BY <1>1, <1>2, <1>7, <2>1 DEF Safe, NoneNewer
<1>9. ASSUME NEW a \in Attendees
      PROVE  Answering(a, req[a])' /\ OwnLine(a)'
  <2>1. Answering(a, req[a]) /\ OwnLine(a)
    BY DEF Safe, RequestsOK
  <2>2. OwnLine(a)'
    BY <1>1, <1>3, <2>1 DEF OwnLine
  <2>3. \A r : r = req'[a] => Answering(a, req[a])'
    BY <1>1, <1>3, <2>1 DEF Answering
  <2> QED
    BY <2>2, <2>3
\* The delivery that begins is of the row that was written.
<1>10. ASSUME NEW r, r = n
       PROVE  Asking(d, r)'
  <2>1. q.invite = Lines(q.new) /\ q.cancel \cap q.invite = {}
    BY <1>1 DEF Writing
  <2>2. Listed(event'[Organizer]) = Lines(q.new)
    BY <1>1, ListedIs
  <2>3. PICK new \in Texts : new = q.new
    BY <1>1, RequestType
  <2>4. /\ r.step = "deliver" /\ r.op = "put" /\ r.new = new
        /\ r.invite \subseteq Lines(new) /\ r.cancel \cap Lines(new) = {}
        /\ event'[Organizer] # NoEvent /\ event'[Organizer].text = new
        /\ Listed(event'[Organizer]) = Lines(new) /\ rows'[Organizer] # 0
        /\ new.seq \in Nat
    BY <1>1, <1>6, <1>10, <2>1, <2>2, <2>3
  <2> QED
    BY <2>4 DEF Asking, Delivering, Writing, AtRecipient
\* One that goes on is overtaken.
<1>11. ASSUME NEW e \in Devices, NEW r \in Requests, r = req[e]
       PROVE  Asking(e, r)'
  <2>1. Asking(e, r) /\ (r.step \in Working => e \in overtaken')
    BY <1>2, <1>11 DEF Safe, RequestsOK
  <2>2. AtRecipient(e, r)'
    BY <2>1 DEF Asking, AtRecipient, Working
  <2>3. r.step \in Working /\ r.op = "put" /\ rows'[Organizer] = 1
          /\ Organizer \notin stale => r.new.seq <= q.new.seq
    <3>1. r.new.seq \in Nat
      BY <1>11, RequestType, TextType
    <3> QED
      BY <1>7, <2>1, <3>1 DEF Asking, Delivering
  <2>4. Delivering(e, r)'
    BY <1>1, <1>2, <2>1, <2>3 DEF Asking, Delivering
  <2> QED
    BY <2>1, <2>2, <2>4 DEF Asking
<1>12. ASSUME NEW e \in Devices
       PROVE  Asking(e, req[e])'
  <2>1. PICK r \in Requests : r = req'[e]
    BY <1>3, Owners
  <2>2. Asking(e, r)'
    BY <1>3, <1>10, <1>11, <2>1, IdleAsks, Owners
  <2> QED
    BY <2>1, <2>2
<1> QED
  BY <1>4, <1>5, <1>8, <1>9, <1>12 DEF Safe, RequestsOK

\* What Commit does to the copy of an attendee.
LEMMA AttendeeCommits ==
  ASSUME Safe, NEW a \in Attendees, Commit(a)
  PROVE  LET q == req[a] IN
         /\ q \in Requests /\ Answering(a, q) /\ q.step = "commit"
         /\ req' \in [Clients -> Requests]
         /\ Answering(a, req'[a])
         /\ q.new.att[a] = q.row.text.att[a] => req'[a] = Idle
         /\ q.new.att[a] # q.row.text.att[a] =>
              req'[a].step = "reply" /\ req'[a].op = "put" /\ req'[a].new = q.new
         /\ \A c \in Clients : c # a => req'[c] = req[c]
         /\ event' \in [People -> MaybeEvents] /\ rows' = rows
         /\ event[a] # NoEvent /\ event[a] = q.row
         /\ event'[a] # NoEvent /\ event'[a].text = q.new /\ event'[a].id = event[a].id
         /\ \A p \in People : p # a => event'[p] = event[p]
         /\ unheard' = unheard \cup (IF q.new.att[a] # q.row.text.att[a] THEN {a} ELSE {})
         /\ UNCHANGED <<unfiled, undone, stale, overtaken>>
<1> DEFINE q == req[a]
           replies == OwnPartstatChanged(a, q)
           n == IF replies THEN [q EXCEPT !.step = "reply", !.row = NoEvent]
                ELSE [q EXCEPT !.step = "deliver"]
<1>1. q \in Requests /\ Answering(a, q)
  BY Owners DEF Safe, TypeOK, RequestsOK
<1>2. /\ q.step = "commit"
      /\ IF q.row = NoEvent THEN CanSave(a, q.row) ELSE Guarded(a, q.row)
      /\ Save(a, q.row, q.new)
      /\ GoOn(a, n)
      /\ unheard' = unheard \cup q.cancel \cup (IF replies THEN {a} ELSE {})
      /\ unfiled' = unfiled \cup q.invite \cup q.cancel
      /\ UNCHANGED <<undone, stale, overtaken>>
  BY Owners DEF Commit, Overtake
<1>3. replies <=> q.row.text.att[a] # q.new.att[a]
  BY Owners DEF OwnPartstatChanged
<1> HIDE DEF q, replies
<1>4. /\ q.invite = {} /\ q.cancel = {} /\ q.op = "put" /\ q.row # NoEvent
      /\ q.new.att[a] \in Answers \cup {q.row.text.att[a]}
  BY <1>1, <1>2 DEF Answering
<1>5. /\ n \in Requests
      /\ n.step = IF replies THEN "reply" ELSE "deliver"
      /\ n.op = "put" /\ n.new = q.new /\ n.invite = {} /\ n.cancel = {}
  BY <1>1, <1>4 DEF Requests, Steps, MaybeEvents
<1>6. CanSave(a, q.row) /\ event[a] = q.row
  BY <1>2, <1>4 DEF CanSave, Guarded, SameRow
<1>7. q.row \in MaybeEvents /\ q.new \in Texts /\ a \in People
  BY <1>1, RequestType, Owners
<1>8. /\ event' \in [People -> MaybeEvents]
      /\ event'[a] # NoEvent /\ event'[a].text = q.new /\ event'[a].id = rows'[a]
      /\ event[a] # NoEvent /\ rows' = rows
      /\ \A p \in People : p # a => event'[p] = event[p]
  BY <1>2, <1>4, <1>6, <1>7, Saved DEF Safe
<1>9. event'[a].id = event[a].id
  BY <1>7, <1>8 DEF Safe, RowsFit
<1> HIDE DEF n
<1>10. /\ req' \in [Clients -> Requests]
       /\ \A c \in Clients : c # a => req'[c] = req[c]
  BY <1>2, <1>5, GoesOn, Owners DEF Safe
<1>11. CASE replies
  <2>1. req'[a] = n
    BY <1>2, <1>5, <1>11, GoesOn, Owners DEF Safe
  <2>2. Answering(a, n)
    BY <1>3, <1>4, <1>5, <1>11 DEF Answering
  <2> QED
    BY <1>1, <1>2, <1>3, <1>4, <1>5, <1>6, <1>8, <1>9, <1>10, <1>11, <2>1, <2>2 DEF q
<1>12. CASE ~replies
  <2>1. req'[a] = Idle
    BY <1>2, <1>5, <1>12, Owners DEF GoOn, Safe, TypeOK
  <2>2. Answering(a, Idle)
    BY DEF Answering, Idle
  <2> QED
    BY <1>1, <1>2, <1>3, <1>4, <1>5, <1>6, <1>8, <1>9, <1>10, <1>12, <2>1, <2>2 DEF q
<1> QED
  BY <1>11, <1>12

\* A step that writes or removes one copy.
LEMMA CopyWritten ==
  ASSUME Safe, NEW a \in Attendees,
         req' \in [Clients -> Requests], event' \in [People -> MaybeEvents],
         rows' \in [People -> 0..MaxRows], GhostsType', stale \subseteq stale',
         UNCHANGED overtaken,
         \A p \in People : p # a => event'[p] = event[p] /\ rows'[p] = rows[p],
         rows[a] <= rows'[a],
         event'[a] # NoEvent =>
           /\ a \in Filing /\ event'[a].id = rows'[a]
           /\ event'[a].text.att[a] # "out"
           /\ rows[Organizer] # 0
           /\ rows[Organizer] = 1 /\ Organizer \notin stale /\ event[Organizer] # NoEvent =>
                event'[a].text.seq <= event[Organizer].text.seq,
         \A b \in Attendees : b # a => req'[b] = req[b],
         Answering(a, req'[a]), a \notin Filing => req'[a].step = "idle",
         \A d \in Devices :
           /\ Asking(d, req'[d])
           /\ req'[d].step = "remove" /\ req'[d].at = a /\ d \notin overtaken /\ Clean(a)' =>
                event'[a] = NoEvent \/ (event[a] # NoEvent /\ event'[a].id = event[a].id)
  PROVE  Safe'
<1>1. event'[Organizer] = event[Organizer] /\ rows'[Organizer] = rows[Organizer]
  BY Owners
<1>2. TypeOK'
  BY DEF TypeOK, GhostsType
<1>3. RowsFit'
  BY DEF Safe, RowsFit
<1>4. NoneNewer'
  <2>1. \A b \in Attendees : b # a => event'[b] = event[b]
    BY Owners
  <2> QED
    BY <1>1, <2>1 DEF Safe, NoneNewer
<1>5. ASSUME NEW b \in Attendees
      PROVE  Answering(b, req[b])' /\ OwnLine(b)'
  <2>1. CASE b = a
    <3>1. Answering(a, req'[a]) /\ rows[a] \in Nat /\ rows'[a] \in Nat
      BY Owners DEF Safe, TypeOK
    <3>2. \A r : r = req'[a] => r \in Requests /\ (r.row # NoEvent => r.row.id \in Nat)
      BY RequestType, EventType, Owners
    <3>3. \A r : r = req'[a] => Answering(a, req[a])'
      BY <3>1, <3>2 DEF Answering
    <3>4. OwnLine(a)'
      BY DEF OwnLine
    <3> QED
      BY <2>1, <3>3, <3>4
  <2>2. CASE b # a
    <3>1. Answering(b, req[b]) /\ OwnLine(b)
      BY DEF Safe, RequestsOK
    <3>2. req'[b] = req[b] /\ rows'[b] = rows[b] /\ event'[b] = event[b]
      BY <2>2, Owners
    <3>3. \A r : r = req'[b] => Answering(b, req[b])'
      BY <3>1, <3>2 DEF Answering
    <3>4. OwnLine(b)'
      BY <3>1, <3>2 DEF OwnLine
    <3> QED
      BY <3>3, <3>4
  <2> QED
    BY <2>1, <2>2
<1>6. ASSUME NEW d \in Devices
      PROVE  Asking(d, req[d])'
  <2>1. PICK q \in Requests : q = req'[d]
    BY Owners
  <2>2. Asking(d, q)
    BY <2>1
  <2>3. Delivering(d, q)'
    BY <1>1, <2>2 DEF Asking, Delivering
  <2>4. q.step = "remove" /\ q.at # a => event'[q.at] = event[q.at]
    BY RequestType
  <2>5. Clean(q.at)' => Clean(q.at)
    BY DEF Clean
  <2>6. AtRecipient(d, q)'
    BY <2>1, <2>2, <2>4, <2>5 DEF Asking, AtRecipient
  <2>7. Asking(d, q)'
    BY <2>2, <2>3, <2>6 DEF Asking
  <2> QED
    BY <2>1, <2>7
<1> QED
  BY <1>2, <1>3, <1>4, <1>5, <1>6 DEF Safe, RequestsOK

LEMMA SafeAttendeeCommit ==
  ASSUME Safe, NEW a \in Attendees, Commit(a)
  PROVE  Safe'
<1> DEFINE q == req[a]
<1>1. /\ q \in Requests /\ Answering(a, q) /\ q.step = "commit"
      /\ req' \in [Clients -> Requests]
      /\ Answering(a, req'[a])
      /\ \A c \in Clients : c # a => req'[c] = req[c]
  BY AttendeeCommits
<1>2. /\ event' \in [People -> MaybeEvents] /\ rows' = rows
      /\ event[a] # NoEvent /\ event[a] = q.row
      /\ event'[a] # NoEvent /\ event'[a].text = q.new /\ event'[a].id = event[a].id
      /\ \A p \in People : p # a => event'[p] = event[p]
  BY AttendeeCommits
<1>3. GhostsType' /\ stale' = stale /\ overtaken' = overtaken
  <2>1. /\ unheard' = unheard \cup (IF q.new.att[a] # q.row.text.att[a] THEN {a} ELSE {})
        /\ UNCHANGED <<unfiled, undone, stale, overtaken>>
    BY AttendeeCommits
  <2> QED
    BY <2>1 DEF Safe, TypeOK, GhostsType
<1> HIDE DEF q
<1>5. /\ q.new.seq = q.row.text.seq /\ q.row.text.att[a] # "out"
      /\ q.new.att[a] \in Answers \cup {q.row.text.att[a]}
  BY <1>1 DEF Answering
<1>6. a \in Filing /\ rows[Organizer] # 0 /\ event[a].id = rows[a]
  BY <1>2, Owners DEF Safe, RequestsOK, OwnLine, NoneNewer, RowsFit
<1>7. /\ event'[a].text.att[a] # "out"
      /\ rows[Organizer] = 1 /\ Organizer \notin stale /\ event[Organizer] # NoEvent =>
           event'[a].text.seq <= event[Organizer].text.seq
  BY <1>2, <1>5, AnswerTypes DEF Safe, NoneNewer
<1>8. \A b \in Attendees : b # a => req'[b] = req[b]
  BY <1>1, Owners
<1>9. \A d \in Devices : Asking(d, req'[d])
  BY <1>1, Owners DEF Safe, RequestsOK
<1>10. rows' \in [People -> 0..MaxRows] /\ rows[a] <= rows'[a]
  BY <1>2, Owners DEF Safe, TypeOK
<1> QED
  BY <1>1, <1>2, <1>3, <1>6, <1>7, <1>8, <1>9, <1>10, CopyWritten

\* What Erase does to the organizer's row.
LEMMA OrganizerErases ==
  ASSUME Safe, NEW d \in Devices, Erase(d)
  PROVE  LET q == req[d]
             n == [q EXCEPT !.step = "deliver"]
         IN
         /\ q \in Requests /\ Writing(q) /\ q.step = "erase"
         /\ n \in Requests /\ n.step = "deliver" /\ n.op = "delete"
         /\ n.invite = {} /\ n.cancel = q.cancel
         /\ GoOn(d, n)
         /\ event' \in [People -> MaybeEvents] /\ rows' = rows
         /\ event[Organizer] = q.row /\ q.cancel = Listed(q.row)
         /\ event'[Organizer] = NoEvent /\ rows[Organizer] # 0
         /\ \A a \in Attendees : event'[a] = event[a]
         /\ unfiled' = unfiled \cup q.cancel
         /\ unheard' = unheard \cup q.cancel
         /\ undone' = undone \ {Organizer}
         /\ overtaken' = {e \in Devices : req[e].step \in Working}
         /\ stale' = stale
<1> DEFINE q == req[d]
           n == [q EXCEPT !.step = "deliver"]
<1>1. q \in Requests /\ Writing(q)
  BY Owners DEF Safe, TypeOK, RequestsOK, Asking
<1>2. /\ q.step = "erase"
      /\ Guarded(Organizer, q.row)
      /\ event' = [event EXCEPT ![Organizer] = NoEvent]
      /\ GoOn(d, n)
      /\ unfiled' = unfiled \cup q.cancel
      /\ unheard' = unheard \cup q.cancel
      /\ undone' = undone \ {Organizer}
      /\ overtaken' = {e \in Devices : req[e].step \in Working}
      /\ UNCHANGED <<rows, stale>>
  BY Owners DEF Erase, Overtake
<1> HIDE DEF q
<1>3. q.op = "delete" /\ q.invite = {} /\ q.cancel = Listed(q.row)
  BY <1>1, <1>2 DEF Writing
<1>4. n \in Requests /\ n.step = "deliver" /\ n.op = "delete"
      /\ n.invite = {} /\ n.cancel = q.cancel
  BY <1>1, <1>3 DEF Requests, Steps
<1>5. event[Organizer] = q.row /\ event[Organizer] # NoEvent
  BY <1>2 DEF Guarded, SameRow
<1>6. event' \in [People -> MaybeEvents] /\ event'[Organizer] = NoEvent
      /\ \A a \in Attendees : event'[a] = event[a]
  BY <1>2, Owners DEF Safe, TypeOK, MaybeEvents
<1>7. rows[Organizer] # 0
  BY <1>5, EventType, Owners DEF Safe, TypeOK, RowsFit
<1> QED
  BY <1>1, <1>2, <1>3, <1>4, <1>5, <1>6, <1>7 DEF q

LEMMA SafeOrganizerErase ==
  ASSUME Safe, NEW d \in Devices, Erase(d)
  PROVE  Safe'
<1> DEFINE q == req[d]
           n == [q EXCEPT !.step = "deliver"]
<1>1. /\ n \in Requests /\ n.step = "deliver" /\ n.op = "delete" /\ n.invite = {}
      /\ GoOn(d, n)
      /\ event' \in [People -> MaybeEvents] /\ rows' = rows
      /\ event'[Organizer] = NoEvent /\ rows[Organizer] # 0
      /\ \A a \in Attendees : event'[a] = event[a]
      /\ overtaken' = {e \in Devices : req[e].step \in Working}
      /\ stale' = stale
  BY OrganizerErases
<1>2. /\ q.cancel \in SUBSET Attendees
      /\ unfiled' = unfiled \cup q.cancel
      /\ unheard' = unheard \cup q.cancel
      /\ undone' = undone \ {Organizer}
  BY OrganizerErases, RequestType
<1> HIDE DEF q, n
<1>3. /\ req' \in [Clients -> Requests]
      /\ req'[d] \in {Idle, n}
      /\ \A c \in Clients : c # d => req'[c] = req[c]
      /\ \A a \in Attendees : req'[a] = req[a]
  BY <1>1, GoesOn, Owners DEF Safe
<1>4. TypeOK'
  BY <1>1, <1>2, <1>3 DEF Safe, TypeOK
<1>5. RowsFit' /\ NoneNewer'
  BY <1>1 DEF Safe, RowsFit, NoneNewer, People
<1>6. ASSUME NEW a \in Attendees
      PROVE  Answering(a, req[a])' /\ OwnLine(a)'
  <2>1. Answering(a, req[a]) /\ OwnLine(a)
    BY DEF Safe, RequestsOK
  <2>2. OwnLine(a)'
    BY <1>1, <1>3, <2>1 DEF OwnLine
  <2>3. \A r : r = req'[a] => Answering(a, req[a])'
    BY <1>1, <1>3, <2>1 DEF Answering
  <2> QED
    BY <2>2, <2>3
<1>7. ASSUME NEW r, r = n
      PROVE  Asking(d, r)'
  <2>1. r.step = "deliver" /\ r.op = "delete" /\ r.invite = {}
    BY <1>1, <1>7
  <2> QED
    BY <1>1, <2>1 DEF Asking, Delivering, Writing, AtRecipient
\* One that goes on is overtaken.
<1>8. ASSUME NEW e \in Devices, NEW r, r = req[e]
      PROVE  Asking(e, r)'
  <2>1. Asking(e, r) /\ (r.step \in Working => e \in overtaken')
    BY <1>1, <1>8 DEF Safe, RequestsOK
  <2> QED
    BY <1>1, <2>1 DEF Asking, Delivering, AtRecipient, Working
<1>9. ASSUME NEW e \in Devices
      PROVE  Asking(e, req[e])'
  <2>1. PICK r : r = req'[e]
    OBVIOUS
  <2>2. Asking(e, r)'
    BY <1>3, <1>7, <1>8, <2>1, IdleAsks, Owners
  <2> QED
    BY <2>1, <2>2
<1> QED
  BY <1>4, <1>5, <1>6, <1>9 DEF Safe, RequestsOK

LEMMA IdleAnswers == \A a \in Attendees : Answering(a, Idle)
  BY DEF Answering, Idle

\* What Erase does to the copy of an attendee.
LEMMA AttendeeErases ==
  ASSUME Safe, NEW a \in Attendees, Erase(a)
  PROVE  LET q == req[a] IN
         /\ q \in Requests /\ Answering(a, q) /\ q.step = "erase"
         /\ req' = [req EXCEPT ![a] = Idle]
         /\ event[a] # NoEvent /\ event[a] = q.row
         /\ event' = [event EXCEPT ![a] = NoEvent]
         /\ undone' = undone \ {a}
         /\ UNCHANGED <<rows, unfiled, unheard, stale, overtaken>>
<1> DEFINE q == req[a]
           n == [q EXCEPT !.step = "deliver"]
<1>1. q \in Requests /\ Answering(a, q)
  BY Owners DEF Safe, TypeOK, RequestsOK
<1>2. /\ q.step = "erase"
      /\ Guarded(a, q.row)
      /\ event' = [event EXCEPT ![a] = NoEvent]
      /\ GoOn(a, n)
      /\ unfiled' = unfiled \cup q.cancel
      /\ unheard' = unheard \cup q.cancel
      /\ undone' = undone \ {a}
      /\ UNCHANGED <<rows, stale, overtaken>>
  BY Owners DEF Erase, Overtake
<1> HIDE DEF q
<1>3. q.invite = {} /\ q.cancel = {}
  BY <1>1 DEF Answering
<1>4. n.step = "deliver" /\ n.invite = {} /\ n.cancel = {}
  BY <1>1, <1>3 DEF Requests
<1>5. req' = [req EXCEPT ![a] = Idle]
  BY <1>2, <1>4 DEF GoOn
<1>6. event[a] = q.row /\ event[a] # NoEvent
  BY <1>2 DEF Guarded, SameRow
<1> QED
  BY <1>1, <1>2, <1>3, <1>5, <1>6 DEF q

LEMMA SafeAttendeeErase ==
  ASSUME Safe, NEW a \in Attendees, Erase(a)
  PROVE  Safe'
<1>1. /\ req' = [req EXCEPT ![a] = Idle]
      /\ event' = [event EXCEPT ![a] = NoEvent]
      /\ UNCHANGED <<rows, stale, overtaken>>
  BY AttendeeErases
<1>2. GhostsType'
  BY AttendeeErases DEF Safe, TypeOK, GhostsType
<1>3. /\ req' \in [Clients -> Requests] /\ req'[a] = Idle
      /\ \A c \in Clients : c # a => req'[c] = req[c]
  BY <1>1, IdleType, Owners DEF Safe, TypeOK
<1>4. /\ event' \in [People -> MaybeEvents] /\ event'[a] = NoEvent
      /\ \A p \in People : p # a => event'[p] = event[p]
      /\ rows' \in [People -> 0..MaxRows] /\ rows[a] <= rows'[a]
  BY <1>1, Owners DEF Safe, TypeOK, MaybeEvents
<1>5. \A b \in Attendees : b # a => req'[b] = req[b]
  BY <1>3, Owners
<1>6. \A d \in Devices : Asking(d, req'[d])
  BY <1>3, Owners DEF Safe, RequestsOK
<1>7. Answering(a, req'[a]) /\ req'[a].step = "idle"
  BY <1>3, IdleAnswers, IdleFields
<1> QED
  BY <1>1, <1>2, <1>3, <1>4, <1>5, <1>6, <1>7, CopyWritten

\* What FileCopy does.
LEMMA Files ==
  ASSUME Safe, NEW d \in Devices, FileCopy(d)
  PROVE  LET q == req[d]
             a == q.at
             x == FiledPartstat(q)
         IN
         /\ q \in Requests /\ Delivering(d, q) /\ q.step = "file" /\ q.op = "put"
         /\ a \in Attendees /\ a \in q.invite /\ a \in Filing /\ a \in Lines(q.new)
         /\ x \in Partstats \ {"out"}
         /\ GoOn(d, PastRecipient(q, a))
         /\ event' \in [People -> MaybeEvents] /\ rows' \in [People -> 0..MaxRows]
         /\ event'[a] # NoEvent /\ event'[a].id = rows'[a] /\ rows[a] <= rows'[a]
         /\ event'[a].text.seq = q.new.seq
         /\ event'[a].text.att[a] = x
         /\ event[a] # NoEvent <=> q.copy # NoEvent
         /\ event[a] # NoEvent => event'[a].id = event[a].id
         /\ event[a] = NoEvent => rows'[a] = rows[a] + 1
         /\ \A p \in People : p # a => event'[p] = event[p] /\ rows'[p] = rows[p]
         /\ unfiled' = unfiled \ Settle(d, a)
         /\ stale' = IF event[a] # q.copy \/ d \in overtaken
                     THEN stale \cup {a} ELSE stale
         /\ UNCHANGED <<unheard, undone, overtaken>>
<1> DEFINE q == req[d]
           a == q.at
           x == FiledPartstat(q)
           text == WithPartstat(q.new, a, x)
<1>1. q \in Requests /\ Delivering(d, q) /\ AtRecipient(d, q)
  BY Owners DEF Safe, TypeOK, RequestsOK, Asking
<1>2. /\ q.step = "file"
      /\ CanSave(a, q.copy)
      /\ Save(a, q.copy, text)
      /\ GoOn(d, PastRecipient(q, a))
      /\ unfiled' = unfiled \ Settle(d, a)
      /\ stale' = IF event[a] # q.copy \/ d \in overtaken
                  THEN stale \cup {a} ELSE stale
      /\ UNCHANGED <<unheard, undone, overtaken>>
  BY DEF FileCopy
<1> HIDE DEF q
<1>3. /\ q.new \in Texts /\ q.row \in MaybeEvents /\ q.copy \in MaybeEvents
      /\ q.op \in {"put", "delete"} /\ q.invite \in SUBSET Attendees
  BY <1>1, RequestType
<1>4. q.op = "put" /\ a \in q.invite /\ a \in Filing /\ a \in Lines(q.new)
  BY <1>1, <1>2, <1>3 DEF AtRecipient, Delivering, Working
<1>5. a \in Attendees /\ a \in People
  BY <1>3, <1>4, Owners
<1>6. x \in Partstats \ {"out"}
  BY <1>3, <1>5, EventType, TextType, AnswerTypes DEF FiledPartstat, Listed
<1> HIDE DEF x
<1>7. text \in Texts /\ text.seq = q.new.seq /\ text.att[a] = x
  BY <1>3, <1>4, <1>5, <1>6, OneLine DEF Lines
<1> HIDE DEF text
<1> HIDE DEF a
<1>8. /\ event' \in [People -> MaybeEvents]
      /\ rows' \in [People -> 0..MaxRows]
      /\ event'[a] # NoEvent /\ event'[a].text = text /\ event'[a].id = rows'[a]
      /\ q.copy = NoEvent => event[a] = NoEvent /\ rows'[a] = rows[a] + 1
      /\ q.copy # NoEvent => event[a] # NoEvent /\ event[a].id = q.copy.id /\ rows' = rows
      /\ \A p \in People : p # a => event'[p] = event[p] /\ rows'[p] = rows[p]
  BY <1>2, <1>3, <1>5, <1>7, Saved DEF Safe
<1>9. rows[a] <= rows'[a]
  BY <1>5, <1>8 DEF Safe, TypeOK
<1>10. event[a] # NoEvent => event'[a].id = event[a].id
  BY <1>5, <1>8 DEF Safe, RowsFit
<1> QED
  BY <1>1, <1>2, <1>4, <1>5, <1>6, <1>7, <1>8, <1>9, <1>10 DEF q, a, x

\* Who is to be cancelled is not listed any more.
LEMMA Unlisted ==
  ASSUME NEW d, NEW q \in Requests, Delivering(d, q), q.step \in Working,
         d \notin overtaken, Organizer \notin stale, NEW a \in q.cancel
  PROVE  a \notin Listed(event[Organizer])
<1>1. q.op \in {"put", "delete"}
  BY RequestType
<1> QED
  BY <1>1, ListedIs DEF Delivering

LEMMA SafeFileCopy ==
  ASSUME Safe, NEW d \in Devices, FileCopy(d)
  PROVE  Safe'
<1>1. PICK q \in Requests : q = req[d]
  BY Owners DEF Safe, TypeOK
<1>2. PICK a \in Attendees : a = q.at
  BY <1>1, Files
<1>3. /\ Delivering(d, q) /\ q.step = "file" /\ q.op = "put" /\ a \in Filing
      /\ a \in Lines(q.new)
      /\ GoOn(d, PastRecipient(q, a))
      /\ event' \in [People -> MaybeEvents] /\ rows' \in [People -> 0..MaxRows]
      /\ event'[a] # NoEvent /\ event'[a].id = rows'[a] /\ rows[a] <= rows'[a]
      /\ event'[a].text.seq = q.new.seq
      /\ event'[a].text.att[a] # "out"
      /\ event[a] # NoEvent => event'[a].id = event[a].id
      /\ \A p \in People : p # a => event'[p] = event[p] /\ rows'[p] = rows[p]
  BY <1>1, <1>2, Files
<1>4. /\ GhostsType' /\ stale \subseteq stale' /\ overtaken' = overtaken
      /\ d \in overtaken => a \in stale'
  <2>1. /\ unfiled' = unfiled \ Settle(d, a)
        /\ stale' = IF event[a] # q.copy \/ d \in overtaken
                    THEN stale \cup {a} ELSE stale
        /\ UNCHANGED <<unheard, undone, overtaken>>
    BY <1>1, <1>2, Files
  <2> QED
    BY <2>1, Owners DEF Safe, TypeOK, GhostsType
<1> DEFINE n == PastRecipient(q, a)
<1>5. n \in Requests /\ n.step = "deliver" /\ GoOn(d, n) /\ Asking(d, n)
  <2>1. q.step \in Working
    BY <1>3 DEF Working
  <2>2. n \in Requests /\ Asking(d, n)
    BY <1>1, <2>1, PastOne
  <2>3. n.step = "deliver"
    BY PastRecipientType
  <2> QED
    BY <1>3, <2>2, <2>3
<1> HIDE DEF n
<1>6. /\ req' \in [Clients -> Requests]
      /\ req'[d] \in {Idle, n}
      /\ \A c \in Clients : c # d => req'[c] = req[c]
      /\ \A b \in Attendees : req'[b] = req[b]
  BY <1>5, GoesOn, Owners DEF Safe
<1>7. Answering(a, req'[a]) /\ (a \notin Filing => req'[a].step = "idle")
  BY <1>6 DEF Safe, RequestsOK, OwnLine
<1>8. /\ rows[Organizer] # 0
      /\ rows[Organizer] = 1 /\ Organizer \notin stale /\ event[Organizer] # NoEvent =>
           event'[a].text.seq <= event[Organizer].text.seq
  BY <1>3 DEF Delivering, Working
\* Nobody cancels whom another, not overtaken, invites.
<1>9. ASSUME NEW e \in Devices
      PROVE  /\ Asking(e, req'[e])
             /\ req'[e].step = "remove" /\ req'[e].at = a /\ e \notin overtaken
                  /\ Clean(a)' => event[a] # NoEvent
  <2>1. CASE e = d
    BY <1>5, <1>6, <2>1, IdleAsks, IdleFields
  <2>2. CASE e # d
    <3>1. PICK r \in Requests : r = req[e]
      BY Owners DEF Safe, TypeOK
    <3>2. Asking(e, r) /\ req'[e] = r
      BY <1>6, <2>2, <3>1, Owners DEF Safe, RequestsOK
    <3>3. ~(r.step = "remove" /\ r.at = a /\ e \notin overtaken /\ Clean(a)')
      <4> SUFFICES ASSUME r.step = "remove", r.at = a, e \notin overtaken, Clean(a)'
                   PROVE  FALSE
        OBVIOUS
      <4>1. Organizer \notin stale /\ d \notin overtaken
        BY <1>4 DEF Clean
      <4>2. a \in Listed(event[Organizer])
        BY <1>3, <4>1 DEF Delivering, Working
      <4>3. a \in r.cancel /\ Delivering(e, r)
        BY <3>2 DEF Asking, AtRecipient
      <4> QED
        BY <4>1, <4>2, <4>3, Unlisted DEF Working
    <3> QED
      BY <3>2, <3>3
  <2> QED
    BY <2>1, <2>2
<1> QED
  BY <1>3, <1>4, <1>6, <1>7, <1>8, <1>9, CopyWritten

\* What RemoveCopy does: there is no copy any more, unless another one was made
\* by a client that was overtaken.
LEMMA Removes ==
  ASSUME Safe, NEW d \in Devices, RemoveCopy(d)
  PROVE  LET q == req[d]
             a == q.at
         IN
         /\ q \in Requests /\ Delivering(d, q) /\ q.step = "remove"
         /\ a \in Attendees /\ a \in q.cancel
         /\ GoOn(d, PastRecipient(q, a))
         /\ event' \in [People -> MaybeEvents] /\ rows' = rows
         /\ \A p \in People : p # a => event'[p] = event[p]
         /\ \/ event' = event /\ stale' = stale
            \/ event'[a] = NoEvent
               /\ stale' = IF d \in overtaken THEN stale \cup {a} ELSE stale
         /\ d \notin overtaken /\ Clean(a) => event'[a] = NoEvent
         /\ unfiled' = unfiled \ Settle(d, a)
         /\ unheard' = unheard \ Settle(d, a)
         /\ UNCHANGED <<undone, overtaken>>
<1> DEFINE q == req[d]
<1>1. q \in Requests /\ Delivering(d, q) /\ AtRecipient(d, q)
  BY Owners DEF Safe, TypeOK, RequestsOK, Asking
<1>2. /\ q.step = "remove"
      /\ IF SameRow(q.at, q.copy)
         THEN /\ event' = [event EXCEPT ![q.at] = NoEvent]
              /\ stale' = IF d \in overtaken THEN stale \cup {q.at} ELSE stale
         ELSE UNCHANGED <<event, stale>>
      /\ GoOn(d, PastRecipient(q, q.at))
      /\ unfiled' = unfiled \ Settle(d, q.at)
      /\ unheard' = unheard \ Settle(d, q.at)
      /\ UNCHANGED <<rows, undone, overtaken>>
  BY DEF RemoveCopy
<1> HIDE DEF q
<1>3. q.at \in Attendees /\ q.at \in q.cancel /\ q.at \in People
  BY <1>1, <1>2, RequestType, Owners DEF AtRecipient
<1>4. CASE SameRow(q.at, q.copy)
  <2>1. /\ event' \in [People -> MaybeEvents] /\ event'[q.at] = NoEvent
        /\ \A p \in People : p # q.at => event'[p] = event[p]
    BY <1>2, <1>3, <1>4 DEF Safe, TypeOK, MaybeEvents
  <2> QED
    BY <1>1, <1>2, <1>3, <1>4, <2>1 DEF q
<1>5. CASE ~SameRow(q.at, q.copy)
  <2>1. d \notin overtaken /\ Clean(q.at) => event[q.at] = NoEvent
    BY <1>1, <1>2, <1>5 DEF AtRecipient, SameRow
  <2>2. event' = event /\ stale' = stale /\ event \in [People -> MaybeEvents]
    BY <1>2, <1>5 DEF Safe, TypeOK
  <2> QED
    BY <1>1, <1>2, <1>3, <2>1, <2>2 DEF q
<1> QED
  BY <1>4, <1>5

LEMMA SafeRemoveCopy ==
  ASSUME Safe, NEW d \in Devices, RemoveCopy(d)
  PROVE  Safe'
<1>1. PICK q \in Requests : q = req[d]
  BY Owners DEF Safe, TypeOK
<1>2. PICK a \in Attendees : a = q.at
  BY <1>1, Removes
<1>3. /\ q.step = "remove"
      /\ GoOn(d, PastRecipient(q, a))
      /\ event' \in [People -> MaybeEvents] /\ rows' = rows
      /\ \A p \in People : p # a => event'[p] = event[p]
      /\ \/ event' = event /\ stale' = stale
         \/ event'[a] = NoEvent /\ stale \subseteq stale'
      /\ overtaken' = overtaken
  BY <1>1, <1>2, Removes
<1>4. GhostsType'
  <2>1. /\ unfiled' \subseteq unfiled /\ unheard' \subseteq unheard
        /\ stale' \subseteq stale \cup {a}
        /\ UNCHANGED <<undone, overtaken>>
    BY <1>1, <1>2, Removes
  <2> QED
    BY <2>1, Owners DEF Safe, TypeOK, GhostsType
<1> DEFINE n == PastRecipient(q, a)
<1>5. n \in Requests /\ n.step = "deliver" /\ GoOn(d, n) /\ Asking(d, n)
  <2>1. q.step \in Working
    BY <1>3 DEF Working
  <2>2. n \in Requests /\ Asking(d, n)
    BY <1>1, <2>1, PastOne
  <2>3. n.step = "deliver"
    BY PastRecipientType
  <2> QED
    BY <1>3, <2>2, <2>3
<1> HIDE DEF n
<1>6. CASE event' = event /\ stale' = stale
  BY <1>3, <1>4, <1>5, <1>6, OrganizerGoesOn DEF store
<1>7. CASE event'[a] = NoEvent /\ stale \subseteq stale'
  <2>1. /\ req' \in [Clients -> Requests]
        /\ req'[d] \in {Idle, n}
        /\ \A c \in Clients : c # d => req'[c] = req[c]
        /\ \A b \in Attendees : req'[b] = req[b]
    BY <1>5, GoesOn, Owners DEF Safe
  <2>2. Answering(a, req'[a]) /\ (a \notin Filing => req'[a].step = "idle")
    BY <2>1 DEF Safe, RequestsOK, OwnLine
  <2>3. \A e \in Devices : Asking(e, req'[e])
    BY <1>5, <2>1, IdleAsks, Owners DEF Safe, RequestsOK
  <2>4. rows' \in [People -> 0..MaxRows] /\ rows[a] <= rows'[a]
        /\ \A p \in People : p # a => event'[p] = event[p] /\ rows'[p] = rows[p]
    BY <1>3, Owners DEF Safe, TypeOK
  <2> QED
    BY <1>3, <1>4, <1>7, <2>1, <2>2, <2>3, <2>4, CopyWritten
<1> QED
  BY <1>3, <1>6, <1>7

\* What MergeReply does to the organizer's row.
LEMMA Merges ==
  ASSUME Safe, NEW a \in Attendees, MergeReply(a)
  PROVE  LET q == req[a] IN
         /\ q \in Requests /\ Answering(a, q) /\ q.step = "merge" /\ a \in Filing
         /\ GoOn(a, PastReply(q))
         /\ event' \in [People -> MaybeEvents] /\ rows' = rows
         /\ \A b \in Attendees : event'[b] = event[b]
         /\ q.copy = NoEvent => event' = event
         /\ q.copy # NoEvent =>
              /\ event[Organizer] # NoEvent /\ event'[Organizer] # NoEvent
              /\ event'[Organizer].id = event[Organizer].id
              /\ event'[Organizer].text.seq = q.copy.text.seq
              /\ Listed(event'[Organizer]) = Listed(q.copy)
              /\ \A b \in Attendees :
                   b # a => event'[Organizer].text.att[b] = q.copy.text.att[b]
              /\ a \in Listed(q.copy) => event'[Organizer].text.att[a] = q.new.att[a]
         /\ unheard' = IF a \in Listed(q.copy) THEN unheard \ {a} ELSE unheard \cup {a}
         /\ undone' = IF q.op = "delete" THEN undone \cup {a} ELSE undone \ {a}
         /\ stale' = IF q.copy # NoEvent /\ event[Organizer] # q.copy
                     THEN stale \cup {Organizer} ELSE stale
         /\ UNCHANGED <<unfiled, overtaken>>
<1> DEFINE q == req[a]
           text == WithPartstat(q.copy.text, a, q.new.att[a])
<1>1. q \in Requests /\ Answering(a, q) /\ OwnLine(a)
  BY Owners DEF Safe, TypeOK, RequestsOK
<1>2. /\ q.step = "merge"
      /\ IF q.copy = NoEvent
         THEN UNCHANGED <<event, rows>>
         ELSE SameRow(Organizer, q.copy) /\ Save(Organizer, q.copy, text)
      /\ GoOn(a, PastReply(q))
      /\ unheard' = IF a \in Listed(q.copy) THEN unheard \ {a} ELSE unheard \cup {a}
      /\ undone' = IF q.op = "delete" THEN undone \cup {a} ELSE undone \ {a}
      /\ stale' = IF q.copy # NoEvent /\ event[Organizer] # q.copy
                  THEN stale \cup {Organizer} ELSE stale
      /\ UNCHANGED <<unfiled, overtaken>>
  BY DEF MergeReply
<1>3. a \in Filing
  BY <1>1, <1>2 DEF OwnLine
<1> HIDE DEF q
<1>4. q.new.att[a] \in Answers /\ q.copy \in MaybeEvents
      /\ Organizer \in People /\ \A b \in Attendees : b \in People /\ b # Organizer
  BY <1>1, <1>2, RequestType, Owners DEF Answering
<1>5. CASE q.copy = NoEvent
  <2>1. event' = event /\ rows' = rows /\ event \in [People -> MaybeEvents]
    BY <1>2, <1>5 DEF Safe, TypeOK
  <2> QED
    BY <1>1, <1>2, <1>3, <1>5, <2>1 DEF q
<1>6. CASE q.copy # NoEvent
  <2>1. q.copy.text \in Texts /\ q.new.att[a] \in Partstats \ {"out"}
    BY <1>4, <1>6, EventType, AnswerTypes
  <2>2. /\ text \in Texts /\ text.seq = q.copy.text.seq
        /\ Lines(text) = Lines(q.copy.text)
        /\ \A b \in Attendees : b # a => text.att[b] = q.copy.text.att[b]
        /\ text.att[a] = IF q.copy.text.att[a] = "out" THEN "out" ELSE q.new.att[a]
    BY <2>1, OneLine
  <2> HIDE DEF text
  <2>3. CanSave(Organizer, q.copy) /\ Save(Organizer, q.copy, text)
    BY <1>2, <1>6 DEF CanSave
  <2>4. /\ event' \in [People -> MaybeEvents]
        /\ event'[Organizer] # NoEvent /\ event'[Organizer].text = text
        /\ event'[Organizer].id = rows'[Organizer]
        /\ event[Organizer] # NoEvent /\ rows' = rows
        /\ \A b \in Attendees : event'[b] = event[b]
    BY <1>4, <1>6, <2>2, <2>3, Saved DEF Safe
  <2>5. event'[Organizer].id = event[Organizer].id
    BY <1>4, <2>4 DEF Safe, RowsFit
  <2>6. Listed(event'[Organizer]) = Listed(q.copy)
    BY <1>6, <2>2, <2>4, ListedIs
  <2>7. a \in Listed(q.copy) => event'[Organizer].text.att[a] = q.new.att[a]
    BY <1>6, <2>2, <2>4 DEF Listed
  <2> QED
    BY <1>1, <1>2, <1>3, <1>6, <2>2, <2>4, <2>5, <2>6, <2>7 DEF q
<1> QED
  BY <1>5, <1>6

LEMMA SafeMergeReply ==
  ASSUME Safe, NEW a \in Attendees, MergeReply(a)
  PROVE  Safe'
<1>1. PICK q \in Requests : q = req[a]
  BY Owners DEF Safe, TypeOK
<1>2. /\ q.step = "merge" /\ a \in Filing /\ GoOn(a, PastReply(q))
      /\ event' \in [People -> MaybeEvents] /\ rows' = rows
      /\ \A b \in Attendees : event'[b] = event[b]
      /\ q.copy = NoEvent => event' = event
      /\ q.copy # NoEvent =>
           /\ event[Organizer] # NoEvent /\ event'[Organizer] # NoEvent
           /\ event'[Organizer].id = event[Organizer].id
           /\ event'[Organizer].text.seq = q.copy.text.seq
           /\ Listed(event'[Organizer]) = Listed(q.copy)
      /\ stale' = IF q.copy # NoEvent /\ event[Organizer] # q.copy
                  THEN stale \cup {Organizer} ELSE stale
      /\ overtaken' = overtaken
  BY <1>1, Merges
<1>3. GhostsType'
  BY Merges, Owners DEF Safe, TypeOK, GhostsType
\* Unless stale, the row keeps its revision and its attendees.
<1>4. /\ event'[Organizer] = NoEvent <=> event[Organizer] = NoEvent
      /\ Organizer \notin stale' =>
           /\ Organizer \notin stale
           /\ event[Organizer] # NoEvent =>
                event'[Organizer].text.seq = event[Organizer].text.seq
           /\ Listed(event'[Organizer]) = Listed(event[Organizer])
  BY <1>2
<1>5. PastReply(q) \in Requests /\ (Answering(a, PastReply(q)) \/ req'[a] = Idle)
  BY <1>1, <1>2, PastReplyOK
<1>6. /\ req' \in [Clients -> Requests]
      /\ req'[a] \in {Idle, PastReply(q)}
      /\ \A c \in Clients : c # a => req'[c] = req[c]
  BY <1>2, <1>5, GoesOn, Owners DEF Safe
<1>7. TypeOK'
  BY <1>2, <1>3, <1>6 DEF Safe, TypeOK, GhostsType
<1>8. RowsFit'
  BY <1>2, <1>4 DEF Safe, RowsFit, People
<1>9. NoneNewer'
  BY <1>2, <1>4 DEF Safe, NoneNewer
<1>10. ASSUME NEW b \in Attendees
       PROVE  Answering(b, req[b])' /\ OwnLine(b)'
  <2>1. Answering(b, req'[b])
    BY <1>5, <1>6, IdleAnswers, Owners DEF Safe, RequestsOK
  <2>2. \A r : r = req'[b] => Answering(b, req[b])'
    BY <1>2, <2>1 DEF Answering
  <2>3. b \notin Filing => req'[b].step = "idle"
    BY <1>2, <1>6, Owners DEF Safe, RequestsOK, OwnLine
  <2>4. OwnLine(b)'
    BY <1>2, <2>3 DEF Safe, RequestsOK, OwnLine
  <2> QED
    BY <2>2, <2>4
<1>11. ASSUME NEW d \in Devices
       PROVE  Asking(d, req[d])'
  <2>1. PICK m \in Requests : m = req[d]
    BY Owners DEF Safe, TypeOK
  <2>2. Asking(d, m) /\ req'[d] = m
    BY <1>6, <2>1, Owners DEF Safe, RequestsOK
  <2>3. Delivering(d, m)'
    BY <1>2, <1>4, <2>2 DEF Asking, Delivering
  <2>4. m.step = "remove" => event'[m.at] = event[m.at]
    <3>1. m.cancel \subseteq Attendees
      BY RequestType
    <3> QED
      BY <1>2, <2>2, <3>1 DEF Asking, AtRecipient
  <2>5. AtRecipient(d, m)'
    BY <1>2, <2>2, <2>4 DEF Asking, AtRecipient, Clean
  <2> QED
    BY <2>2, <2>3, <2>5 DEF Asking
<1> QED
  BY <1>7, <1>8, <1>9, <1>10, <1>11 DEF Safe, RequestsOK

-----------------------------------------------------------------------------
LEMMA SafeInit == Init => Safe
<1> SUFFICES ASSUME Init
             PROVE  Safe
  OBVIOUS
<1>1. /\ event = [p \in People |-> NoEvent] /\ rows = [p \in People |-> 0]
      /\ req = [c \in Clients |-> Idle]
      /\ unfiled = {} /\ unheard = {} /\ undone = {} /\ stale = {} /\ overtaken = {}
  BY DEF Init
<1>2. TypeOK
  BY <1>1, IdleType, BoundsAssumption DEF TypeOK, MaybeEvents
<1>3. RowsFit /\ NoneNewer
  BY <1>1, Owners DEF RowsFit, NoneNewer
<1>4. RequestsOK
  BY <1>1, IdleAsks, IdleAnswers, IdleFields, Owners DEF RequestsOK, OwnLine
<1> QED
  BY <1>2, <1>3, <1>4 DEF Safe

LEMMA SafeNext == Safe /\ [Next]_vars => Safe'
<1> SUFFICES ASSUME Safe, [Next]_vars
             PROVE  Safe'
  OBVIOUS
<1>1. CASE Request
  BY <1>1, SafePutMeeting, SafeDeleteMeeting, SafeDeleteCopy, SafePutAnswer DEF Request
<1>2. ASSUME NEW c \in Clients, Commit(c)
      PROVE  Safe'
  BY <1>2, SafeOrganizerCommit, SafeAttendeeCommit, Owners
<1>3. ASSUME NEW c \in Clients, Erase(c)
      PROVE  Safe'
  BY <1>3, SafeOrganizerErase, SafeAttendeeErase, Owners
<1>4. CASE Deliver
  BY <1>4, SafeDeliverRequest, SafeDeliverCancel, SafeFileCopy, SafeRemoveCopy,
     SafeFailDelivery DEF Deliver
<1>5. CASE Reply
  BY <1>5, SafeDeliverReply, SafeMergeReply, SafeFailReply DEF Reply
<1>6. CASE UNCHANGED vars
  <2>1. UNCHANGED <<store, ghosts>> /\ req' = req
    BY <1>6 DEF vars
  <2> QED
    BY <2>1, SafeDropped DEF Safe, TypeOK
<1> QED
  BY <1>1, <1>2, <1>3, <1>4, <1>5, <1>6, SafeRefuse, SafeCrash DEF Next

LEMMA SafeAlways == Spec => []Safe
  BY SafeInit, SafeNext, PTL DEF Spec

\* Rows, requests and ghosts are what they are said to be.
THEOREM TypesAreRight == Spec => []TypeOK
<1>1. Safe => TypeOK
  BY DEF Safe
<1> QED
  BY <1>1, SafeAlways, PTL

OvertakenDelivery ==
  \A a \in Attendees :
    GoesBack(a) => \E d \in overtaken : req[d].at = a /\ FileCopy(d)

LEMMA StepBack == Safe /\ [Next]_vars => OvertakenDelivery
<1> SUFFICES ASSUME Safe, [Next]_vars, NEW a \in Attendees, GoesBack(a)
             PROVE  \E d \in overtaken : req[d].at = a /\ FileCopy(d)
  BY DEF OvertakenDelivery
<1>1. /\ event[a].text.seq \in Nat /\ event'[a] # NoEvent
      /\ Organizer \notin stale /\ rows[Organizer] = 1 /\ event[a] # NoEvent
      /\ event'[a].text.seq < event[a].text.seq
  BY EventType, TextType, Owners DEF Safe, TypeOK, GoesBack
<1>2. event'[a] # event[a]
  BY <1>1
<1>3. ASSUME NEW c \in Clients, Commit(c)
      PROVE  FALSE
  <2>1. CASE c \in Devices
    BY <1>2, <1>3, <2>1, OrganizerCommits
  <2>2. CASE c \in Attendees
    <3>1. c = a
      BY <1>2, <1>3, <2>2, AttendeeCommits, Owners
    <3>2. event'[a].text.seq = event[a].text.seq
      BY <1>3, <3>1, AttendeeCommits DEF Answering
    <3> QED
      BY <1>1, <3>2
  <2> QED
    BY <2>1, <2>2, Owners
<1>4. ASSUME NEW c \in Clients, Erase(c)
      PROVE  FALSE
  <2>1. CASE c \in Devices
    BY <1>2, <1>4, <2>1, OrganizerErases
  <2>2. CASE c \in Attendees
    BY <1>1, <1>2, <1>4, <2>2, AttendeeErases, Owners DEF Safe, TypeOK
  <2> QED
    BY <2>1, <2>2, Owners
\* One that was not overtaken delivers what the organizer has, and no copy is
\* newer than that.
<1>5. ASSUME NEW d \in Devices, FileCopy(d)
      PROVE  d \in overtaken /\ req[d].at = a
  <2>1. PICK q : q = req[d]
    OBVIOUS
  <2>2. q.at = a
    BY <1>2, <1>5, <2>1, Files, Owners
  <2>3. /\ Delivering(d, q) /\ q.step = "file" /\ q.op = "put"
        /\ event'[a].text.seq = q.new.seq
    BY <1>5, <2>1, <2>2, Files
  <2>4. SUFFICES ASSUME d \notin overtaken
                 PROVE  FALSE
    BY <2>1, <2>2
  <2>5. event[Organizer] # NoEvent /\ event[Organizer].text.seq = q.new.seq
    BY <1>1, <2>3, <2>4 DEF Delivering, Working
  <2>6. event[a].text.seq <= event[Organizer].text.seq
    BY <1>1, <2>5 DEF Safe, NoneNewer
  <2>7. event[Organizer].text.seq \in Nat
    BY <2>5, EventType, TextType, Owners DEF Safe, TypeOK
  <2> QED
    BY <1>1, <2>3, <2>5, <2>6, <2>7
<1>6. ASSUME NEW d \in Devices, RemoveCopy(d)
      PROVE  FALSE
  BY <1>1, <1>2, <1>6, Removes, Owners
<1>7. ASSUME NEW b \in Attendees, MergeReply(b)
      PROVE  FALSE
  BY <1>2, <1>7, Merges
<1>8. CASE Request
  BY <1>2, <1>8 DEF Request, PutMeeting, DeleteMeeting, PutAnswer, DeleteCopy, store
<1>9. CASE Deliver
  <2>1. ASSUME NEW d \in Devices, NEW b \in Attendees,
               DeliverRequest(d, b) \/ DeliverCancel(d, b) \/ FailDelivery(d, b)
        PROVE  FALSE
    BY <1>2, <2>1 DEF DeliverRequest, DeliverCancel, FailDelivery, store
  <2> QED
    BY <1>5, <1>6, <1>9, <2>1 DEF Deliver
<1>10. CASE Reply
  BY <1>2, <1>7, <1>10 DEF Reply, DeliverReply, FailReply, store
<1>11. CASE Crash \/ UNCHANGED vars \/ \E c \in Clients : Refuse(c)
  BY <1>2, <1>11 DEF Crash, vars, Refuse, store
<1> QED
  BY <1>3, <1>4, <1>8, <1>9, <1>10, <1>11 DEF Next

\* While the meeting keeps its row, a copy goes back to an older revision of it
\* only by the delivery of a request of the organizer that another one has
\* overtaken (deliverOrganizerInvites): an organizer whose clients wait for one
\* another never sees it, whatever fails, dies or is answered meanwhile, with
\* the exception of an organizer's row that a late reply has put back.
THEOREM OnlyTheOvertakenGoBack == Spec => OnlyOvertakenGoBack
<1>1. Spec => [][OvertakenDelivery]_vars
  BY StepBack, SafeAlways, PTL DEF Spec
<1> QED
  BY <1>1 DEF OnlyOvertakenGoBack, OvertakenDelivery

-----------------------------------------------------------------------------
(* Who is up to date.                                                      *)

\* A step that is not about b, or only about what b has asked for.
LEMMA Bystander ==
  ASSUME NEW b \in Attendees, Current(b),
         event'[b] = event[b], stale \subseteq stale',
         b \in unfiled => b \in unfiled', b \in unheard => b \in unheard',
         b \in undone' <=> b \in undone,
         Organizer \notin stale' =>
           /\ Listed(event'[Organizer]) = Listed(event[Organizer])
           /\ b \in Listed(event[Organizer]) =>
                /\ event'[Organizer].text.seq = event[Organizer].text.seq
                /\ event'[Organizer].text.att[b] = event[Organizer].text.att[b],
         req'[b] \in {Idle, req[b]} \/ Underway(b)'
  PROVE  Current(b)'
<1>1. Follows(b)'
  BY DEF Current, Follows, Clean
<1>2. Uninvited(b)'
  BY DEF Current, Uninvited, Heard, Clean
<1>3. Agrees(b)'
  <2>1. Clean(b)' => Clean(b)
    BY DEF Clean
  <2>2. Heard(b)' => Heard(b)
    BY <2>1 DEF Heard
  <2>3. ~Clean(b)' => ~Heard(b)'
    BY DEF Heard
  <2>4. Clean(b)' => Organizer \notin stale' /\ Organizer \notin stale
    BY DEF Clean
  <2>5. Agrees(b)
    BY DEF Current
  <2>6. CASE Organizer \in stale'
    BY <2>3, <2>4, <2>6 DEF Agrees
  <2>7. CASE Organizer \notin stale'
    BY <2>1, <2>2, <2>5, <2>7 DEF Agrees, Known
  <2> QED
    BY <2>6, <2>7
<1>4. Underway(b)'
  <2>1. ASSUME req'[b] = req[b]
        PROVE  Underway(b)'
    BY <2>1 DEF Current, Underway, Clean, Gone
  <2>2. ASSUME req'[b] = Idle
        PROVE  Underway(b)'
    BY <2>2 DEF Underway, Idle
  <2> QED
    BY <2>1, <2>2
<1> QED
  BY <1>1, <1>2, <1>3, <1>4 DEF Current

\* Who has no copy and is not listed is up to date.
LEMMA NoTrace ==
  ASSUME NEW b \in Attendees, event'[b] = NoEvent,
         Organizer \notin stale' => b \notin Listed(event'[Organizer])
  PROVE  Current(b)'
<1>1. Clean(b)' => b \notin Listed(event'[Organizer])
  BY DEF Clean
<1>2. Follows(b)' /\ Uninvited(b)'
  BY DEF Follows, Uninvited
<1>3. Agrees(b)'
  BY <1>1 DEF Agrees, Heard
<1>4. Underway(b)'
  BY <1>1 DEF Underway, Gone
<1> QED
  BY <1>2, <1>3, <1>4 DEF Current

\* Whose copy was replaced by something older is left out.
LEMMA NotClean ==
  ASSUME NEW b \in Attendees, b \in stale'
  PROVE  Current(b)'
  BY DEF Current, Follows, Uninvited, Agrees, Underway, Heard, Clean

\* Only requests change, or somebody has become one to be heard.
LEMMA OnlyRequests ==
  ASSUME UpToDate, UNCHANGED <<store, unfiled, undone, stale>>, unheard \subseteq unheard',
         \A b \in Attendees : req'[b] \in {Idle, req[b]} \/ Underway(b)'
  PROVE  UpToDate'
<1> SUFFICES ASSUME NEW b \in Attendees
             PROVE  Current(b)'
  BY DEF UpToDate
<1>1. Current(b) /\ event' = event /\ stale' = stale /\ unfiled' = unfiled
      /\ undone' = undone
  BY DEF UpToDate, store
<1> QED
  BY <1>1, Bystander

\* An organizer's request leaves those of the attendees alone.
LEMMA OthersWait ==
  ASSUME TypeOK, NEW p, NEW q, GoOn(p, q)
  PROVE  \A r \in Clients : r # p => req'[r] = req[r]
  BY DEF GoOn, TypeOK

LEMMA CurrentRequest ==
  ASSUME Safe, UpToDate, Request
  PROVE  UpToDate'
<1>1. UNCHANGED <<store, unfiled, undone, stale>> /\ unheard \subseteq unheard'
  BY DEF Request, PutMeeting, DeleteMeeting, PutAnswer, DeleteCopy, ghosts
<1>2. ASSUME NEW d \in Devices, NEW S \in Lists, PutMeeting(d, S)
      PROVE  UpToDate'
  <2>1. \A b \in Attendees : req'[b] = req[b]
    BY <1>2, OthersWait, Owners DEF PutMeeting, Safe
  <2> QED
    BY <1>1, <2>1, OnlyRequests
<1>3. ASSUME NEW d \in Devices, DeleteMeeting(d)
      PROVE  UpToDate'
  <2>1. \A b \in Attendees : req'[b] = req[b]
    BY <1>3, OthersWait, Owners DEF DeleteMeeting, Safe
  <2> QED
    BY <1>1, <2>1, OnlyRequests
<1>4. ASSUME NEW a \in Attendees, NEW x \in Replies, PutAnswer(a, x)
      PROVE  UpToDate'
  <2>1. \A b \in Attendees : b # a => req'[b] = req[b]
    BY <1>4, OthersWait, Owners DEF PutAnswer, Safe
  <2>2. req'[a].step = "commit"
    BY <1>4, Owners DEF PutAnswer, GoOn, Idle, Safe, TypeOK
  <2>3. Underway(a)'
    BY <2>2 DEF Underway
  <2> QED
    BY <1>1, <2>1, <2>3, OnlyRequests
<1>5. ASSUME NEW a \in Attendees, DeleteCopy(a)
      PROVE  UpToDate'
  <2> DEFINE text == WithPartstat(event[a].text, a, "DECLINED")
             q == [Idle EXCEPT !.op = "delete", !.row = event[a], !.new = text]
             n == [q EXCEPT !.step = IF OwnPartstatChanged(a, q) THEN "reply" ELSE "erase"]
  <2>1. \A b \in Attendees : b # a => req'[b] = req[b]
    BY <1>5, OthersWait, Owners DEF DeleteCopy, Safe
  <2>2. /\ event[a] # NoEvent /\ req'[a] = n
        /\ text.att[a] = "DECLINED"
    <3>1. event[a] # NoEvent /\ GoOn(a, n)
      BY <1>5 DEF DeleteCopy
    <3>2. n.step # "deliver"
      BY DEF Idle
    <3> HIDE DEF n
    <3>3. req'[a] = n
      BY <3>1, <3>2, Owners DEF GoOn, Safe, TypeOK
    <3> QED
      BY <3>1, <3>3, OfCopy, AnswerTypes
  <2> HIDE DEF text
  <2>3. q.op = "delete" /\ q.row = event[a] /\ q.new = text
    BY DEF Idle
  <2>4. OwnPartstatChanged(a, q) <=> event[a].text.att[a] # "DECLINED"
    BY <2>2, <2>3, PeopleAssumption DEF OwnPartstatChanged
  <2>5. /\ req'[a].op = "delete" /\ req'[a].row = event[a]
        /\ req'[a].step = "erase" => event[a].text.att[a] = "DECLINED"
    BY <2>2, <2>4 DEF Idle
  <2>6. Underway(a)'
    BY <2>5 DEF Underway
  <2> QED
    BY <1>1, <2>1, <2>6, OnlyRequests
<1> QED
  BY <1>2, <1>3, <1>4, <1>5 DEF Request

LEMMA CurrentDropped ==
  ASSUME Safe, UpToDate, Crash \/ UNCHANGED vars \/ \E c \in Clients : Refuse(c)
  PROVE  UpToDate'
<1>1. UNCHANGED <<store, unfiled, undone, stale>> /\ unheard \subseteq unheard'
  BY DEF Crash, vars, Refuse, ghosts
<1>2. \A b \in Attendees : req'[b] \in {Idle, req[b]}
  BY Owners DEF Crash, vars, Refuse, Safe, TypeOK
<1> QED
  BY <1>1, <1>2, OnlyRequests

LEMMA CurrentDeliverReply ==
  ASSUME Safe, UpToDate, NEW a \in Attendees, DeliverReply(a)
  PROVE  UpToDate'
<1> DEFINE q == req[a]
           n == [q EXCEPT !.step = "merge", !.copy = event[Organizer]]
<1>1. /\ q.step = "reply" /\ GoOn(a, n)
      /\ UNCHANGED <<store, unfiled, undone, stale>> /\ unheard \subseteq unheard'
  BY DEF DeliverReply, store, ghosts
<1>2. q \in Requests /\ event[Organizer] \in MaybeEvents
  BY Owners DEF Safe, TypeOK
<1>3. \A b \in Attendees : b # a => req'[b] = req[b]
  BY <1>1, OthersWait, Owners DEF Safe
<1>4. /\ n \in Requests /\ n.step = "merge" /\ n.op = q.op /\ n.new = q.new
  BY <1>2 DEF Requests, Steps
<1>5. req'[a] = n
  BY <1>1, <1>4, GoesOn, Owners DEF Safe
<1> HIDE DEF n
<1>6. Underway(a)'
  BY <1>1, <1>4, <1>5 DEF UpToDate, Current, Underway, Clean, store
<1> QED
  BY <1>1, <1>3, <1>6, OnlyRequests

LEMMA CurrentFailReply ==
  ASSUME Safe, UpToDate, NEW a \in Attendees, FailReply(a)
  PROVE  UpToDate'
<1> DEFINE q == req[a]
           n == PastReply(q)
<1>1. /\ GoOn(a, n) /\ unheard' = unheard \cup {a}
      /\ UNCHANGED <<store, unfiled, undone, stale>>
  BY DEF FailReply
<1>2. q \in Requests
  BY Owners DEF Safe, TypeOK
<1>3. \A b \in Attendees : b # a => req'[b] = req[b]
  BY <1>1, OthersWait, Owners DEF Safe
<1>4. n \in Requests /\ n.step \in {"erase", "deliver"}
  BY <1>2, PastReplyType
<1>5. req'[a] \in {Idle, n}
  BY <1>1, <1>4, GoesOn, Owners DEF Safe
<1> HIDE DEF n
<1>6. Underway(a)'
  BY <1>1, <1>4, <1>5 DEF Underway, Idle
<1> QED
  BY <1>1, <1>3, <1>6, OnlyRequests

LEMMA CurrentFailDelivery ==
  ASSUME Safe, UpToDate, NEW d \in Devices, NEW a \in Attendees, FailDelivery(d, a)
  PROVE  UpToDate'
<1>1. /\ UNCHANGED <<store, unfiled, undone, stale>> /\ unheard \subseteq unheard'
      /\ GoOn(d, PastRecipient(req[d], a))
  BY DEF FailDelivery, ghosts
<1>2. \A b \in Attendees : req'[b] = req[b]
  BY <1>1, OthersWait, Owners DEF Safe
<1> QED
  BY <1>1, <1>2, OnlyRequests

LEMMA CurrentDeliverRequest ==
  ASSUME Safe, UpToDate, NEW d \in Devices, NEW a \in Attendees, DeliverRequest(d, a)
  PROVE  UpToDate'
<1>1. /\ UNCHANGED <<event, rows, unheard, undone, stale>>
      /\ (a \notin Filing /\ unfiled' = unfiled \ {a}) \/ unfiled' = unfiled
  BY DEF DeliverRequest, Skip, Settle
<1>2. \A b \in Attendees : req'[b] = req[b]
  BY OthersWait, Owners DEF DeliverRequest, Safe
<1>3. ASSUME NEW b \in Attendees, b \in unfiled => b \in unfiled'
      PROVE  Current(b)'
  BY <1>1, <1>2, <1>3, Bystander DEF UpToDate
\* Who files no copies has none, and has never said to come.
<1>4. ASSUME a \notin Filing
      PROVE  Current(a)'
  <2>1. Current(a) /\ OwnLine(a) /\ event[a] = NoEvent /\ req[a].step = "idle"
    BY <1>4 DEF UpToDate, Safe, RequestsOK, OwnLine
  <2>2. Follows(a)' /\ Uninvited(a)'
    BY <1>1, <2>1 DEF Follows, Uninvited
  <2>3. Agrees(a)'
    BY <1>1, <1>4, <2>1, AnswerTypes DEF Current, Agrees, Heard, Clean, Known
  <2>4. Underway(a)'
    BY <1>2, <2>1 DEF Underway
  <2> QED
    BY <2>2, <2>3, <2>4 DEF Current
<1> QED
  BY <1>1, <1>3, <1>4 DEF UpToDate

LEMMA CurrentDeliverCancel ==
  ASSUME Safe, UpToDate, NEW d \in Devices, NEW a \in Attendees, DeliverCancel(d, a)
  PROVE  UpToDate'
<1>1. /\ UNCHANGED <<event, rows, undone, stale>>
      /\ req[d].step \in Working /\ a \in req[d].cancel
      /\ \/ /\ d \notin overtaken
            /\ a \notin Filing \/ event[a] = NoEvent
            /\ unfiled' = unfiled \ {a} /\ unheard' = unheard \ {a}
         \/ UNCHANGED <<unfiled, unheard>>
  BY DEF DeliverCancel, Skip, Settle, Working
<1>2. \A b \in Attendees : req'[b] = req[b]
  BY OthersWait, Owners DEF DeliverCancel, Safe
<1>3. ASSUME NEW b \in Attendees, b \in unfiled => b \in unfiled', b \in unheard => b \in unheard'
      PROVE  Current(b)'
  BY <1>1, <1>2, <1>3, Bystander DEF UpToDate
<1>4. ASSUME d \notin overtaken, a \notin Filing \/ event[a] = NoEvent
      PROVE  Current(a)'
  <2>1. event'[a] = NoEvent
    BY <1>1, <1>4 DEF Safe, RequestsOK, OwnLine
  <2>2. Organizer \notin stale' => a \notin Listed(event'[Organizer])
    <3>1. PICK q \in Requests : q = req[d]
      BY Owners DEF Safe, TypeOK
    <3>2. Delivering(d, q)
      BY <3>1 DEF Safe, RequestsOK, Asking
    <3> QED
      BY <1>1, <1>4, <3>1, <3>2, Unlisted
  <2> QED
    BY <2>1, <2>2, NoTrace
<1> QED
  BY <1>1, <1>3, <1>4 DEF UpToDate

LEMMA CurrentRemoveCopy ==
  ASSUME Safe, UpToDate, NEW d \in Devices, RemoveCopy(d)
  PROVE  UpToDate'
<1>1. PICK q \in Requests : q = req[d]
  BY Owners DEF Safe, TypeOK
<1>2. PICK a \in Attendees : a = q.at
  BY <1>1, Removes
<1>3. /\ Delivering(d, q) /\ q.step \in Working /\ a \in q.cancel
      /\ GoOn(d, PastRecipient(q, a))
      /\ \A p \in People : p # a => event'[p] = event[p]
      /\ \/ event' = event /\ stale' = stale
         \/ event'[a] = NoEvent
            /\ stale' = IF d \in overtaken THEN stale \cup {a} ELSE stale
      /\ d \notin overtaken /\ Clean(a) => event'[a] = NoEvent
      /\ unfiled' = unfiled \ Settle(d, a) /\ unheard' = unheard \ Settle(d, a)
      /\ UNCHANGED <<undone, overtaken>>
  BY <1>1, <1>2, Removes DEF Working
<1>4. event'[Organizer] = event[Organizer] /\ \A b \in Attendees : req'[b] = req[b]
  BY <1>3, OthersWait, Owners DEF Safe
<1>5. ASSUME NEW b \in Attendees, b # a
      PROVE  Current(b)'
  BY <1>3, <1>4, <1>5, Bystander, Owners DEF UpToDate, Settle
<1>6. Current(a)'
  <2>1. CASE a \in stale'
    BY <2>1, NotClean
  <2>2. CASE d \in overtaken /\ a \notin stale'
    <3>1. event' = event /\ stale' = stale /\ unfiled' = unfiled /\ unheard' = unheard
      BY <1>3, <2>2 DEF Settle
    <3> QED
      BY <1>3, <1>4, <3>1, Bystander DEF UpToDate
  <2>3. CASE d \notin overtaken /\ a \notin stale'
    <3>1. CASE Organizer \in stale
      <4>1. Organizer \in stale'
        BY <1>3, <3>1
      <4>2. CASE event'[a] = NoEvent
        BY <4>1, <4>2, NoTrace
      <4>3. CASE event'[a] # NoEvent
        BY <4>1 DEF Current, Follows, Uninvited, Agrees, Underway, Heard, Clean
      <4> QED
        BY <4>2, <4>3
    <3>2. CASE Organizer \notin stale
      <4>1. event'[a] = NoEvent
        BY <1>3, <2>3, <3>2 DEF Clean
      <4>2. a \notin Listed(event'[Organizer])
        BY <1>3, <1>4, <2>3, <3>2, Unlisted
      <4> QED
        BY <4>1, <4>2, NoTrace
    <3> QED
      BY <3>1, <3>2
  <2> QED
    BY <2>1, <2>2, <2>3
<1> QED
  BY <1>5, <1>6 DEF UpToDate

\* The organizer's own write leaves nobody behind without saying so, unless it
\* takes the last attendee off the list.
LEMMA CurrentOrganizerCommit ==
  ASSUME {} \notin Lists, Safe, UpToDate, NEW d \in Devices, Commit(d)
  PROVE  UpToDate'
<1>1. PICK q \in Requests : q = req[d]
  BY Owners DEF Safe, TypeOK
<1> DEFINE n == [req[d] EXCEPT !.step = "deliver"]
<1>2. /\ Writing(q) /\ q.step = "commit" /\ GoOn(d, n)
      /\ event'[Organizer] # NoEvent /\ event'[Organizer].text = q.new
      /\ event[Organizer] = q.row
      /\ \A a \in Attendees : event'[a] = event[a] /\ rows'[a] = rows[a]
      /\ unheard' = unheard \cup q.cancel
      /\ unfiled' = unfiled \cup q.invite \cup q.cancel
      /\ UNCHANGED <<undone, stale>>
  BY <1>1, OrganizerCommits
<1>3. \A b \in Attendees : req'[b] = req[b]
  BY <1>2, OthersWait, Owners DEF Safe
<1>4. /\ Listed(event'[Organizer]) = q.invite
      /\ Listed(q.row) \subseteq q.invite \cup q.cancel
      /\ q.cancel \cap q.invite = {}
      /\ \A a \in q.invite :
           q.new.att[a] = IF a \in Listed(q.row) THEN q.row.text.att[a] ELSE "NEEDS-ACTION"
  BY <1>2, ListedIs DEF Writing
<1> SUFFICES ASSUME NEW a \in Attendees
             PROVE  Current(a)'
  BY DEF UpToDate
<1>5. Current(a) /\ OwnLine(a)
  BY DEF UpToDate, Safe, RequestsOK
<1>6. Follows(a)' /\ Uninvited(a)'
  BY <1>2, <1>4, <1>5 DEF Current, Follows, Uninvited, Heard, Clean
<1>7. a \in Listed(event'[Organizer]) =>
        Known(a)' = IF a \in Listed(event[Organizer]) THEN Known(a) ELSE "NEEDS-ACTION"
  BY <1>2, <1>4 DEF Known
<1>8. Heard(a)' => Heard(a)
  BY <1>2 DEF Heard, Clean
<1>9. Agrees(a)'
  <2> SUFFICES ASSUME a \in Listed(event'[Organizer])
               PROVE  Agrees(a)'
    BY DEF Agrees
  <2>1. (~(Heard(a) /\ a \notin unfiled))'
    BY <1>2, <1>4
  <2>2. CASE a \in Listed(event[Organizer])
    BY <1>2, <1>5, <1>7, <1>8, <2>1, <2>2 DEF Current, Agrees, Clean
  <2>3. CASE a \notin Listed(event[Organizer])
    BY <1>2, <1>5, <1>7, <1>8, <2>1, <2>3, AnswerTypes DEF Current, Agrees, Uninvited
  <2> QED
    BY <2>2, <2>3
<1>10. Underway(a)'
  <2>1. a \in Listed(event'[Organizer]) => a \in unfiled'
    BY <1>2, <1>4
  <2> QED
    BY <1>2, <1>3, <1>5, <2>1 DEF Current, Underway, Clean, Gone
<1> QED
  BY <1>6, <1>9, <1>10 DEF Current

LEMMA CurrentOrganizerErase ==
  ASSUME Safe, UpToDate, NEW d \in Devices, Erase(d)
  PROVE  UpToDate'
<1>1. PICK q \in Requests : q = req[d]
  BY Owners DEF Safe, TypeOK
<1> DEFINE n == [req[d] EXCEPT !.step = "deliver"]
<1>2. /\ GoOn(d, n)
      /\ event[Organizer] = q.row /\ q.cancel = Listed(q.row)
      /\ event'[Organizer] = NoEvent
      /\ \A a \in Attendees : event'[a] = event[a]
      /\ unfiled' = unfiled \cup q.cancel
      /\ unheard' = unheard \cup q.cancel
      /\ undone' = undone \ {Organizer}
      /\ stale' = stale
  BY <1>1, OrganizerErases
<1>3. \A b \in Attendees : req'[b] = req[b] /\ b # Organizer
  BY <1>2, OthersWait, Owners DEF Safe
<1>4. Listed(event'[Organizer]) = {}
  BY <1>2, ListedIs
<1> SUFFICES ASSUME NEW a \in Attendees
             PROVE  Current(a)'
  BY DEF UpToDate
<1>5. Current(a)
  BY DEF UpToDate
<1>6. Follows(a)' /\ Uninvited(a)'
  BY <1>2, <1>3, <1>4, <1>5 DEF Current, Follows, Uninvited, Heard, Clean
<1>7. Agrees(a)'
  BY <1>4 DEF Agrees
<1>8. Underway(a)'
  BY <1>2, <1>3, <1>4, <1>5 DEF Current, Underway, Clean, Gone
<1> QED
  BY <1>6, <1>7, <1>8 DEF Current

\* An attendee's own write keeps the revision; a new answer is yet unheard.
LEMMA CurrentAttendeeCommit ==
  ASSUME Safe, UpToDate, NEW a \in Attendees, Commit(a)
  PROVE  UpToDate'
<1>1. PICK q \in Requests : q = req[a]
  BY Owners DEF Safe, TypeOK
<1>2. /\ Answering(a, q) /\ q.step = "commit"
      /\ q.new.att[a] = q.row.text.att[a] => req'[a] = Idle
      /\ q.new.att[a] # q.row.text.att[a] =>
           req'[a].step = "reply" /\ req'[a].op = "put" /\ req'[a].new = q.new
      /\ \A c \in Clients : c # a => req'[c] = req[c]
      /\ event[a] # NoEvent /\ event[a] = q.row
      /\ event'[a] # NoEvent /\ event'[a].text = q.new
      /\ \A p \in People : p # a => event'[p] = event[p]
      /\ unheard' = unheard \cup (IF q.new.att[a] # q.row.text.att[a] THEN {a} ELSE {})
      /\ UNCHANGED <<unfiled, undone, stale>>
  BY <1>1, AttendeeCommits
<1>3. event'[Organizer] = event[Organizer]
  BY <1>2, Owners
<1>4. ASSUME NEW b \in Attendees, b # a
      PROVE  Current(b)'
  BY <1>2, <1>3, <1>4, Bystander, Owners DEF UpToDate
<1>5. Current(a) /\ q.new.seq = q.row.text.seq
  BY <1>2 DEF UpToDate, Answering
<1>6. Follows(a)' /\ Uninvited(a)'
  BY <1>2, <1>3, <1>5 DEF Current, Follows, Uninvited, Heard, Clean
<1>7. Agrees(a)'
  BY <1>2, <1>3, <1>5 DEF Current, Agrees, Heard, Clean, Known
<1>8. Underway(a)'
  <2>1. CASE q.new.att[a] = q.row.text.att[a]
    BY <1>2, <2>1 DEF Underway, Idle
  <2>2. CASE q.new.att[a] # q.row.text.att[a]
    BY <1>2, <2>2 DEF Underway
  <2> QED
    BY <2>1, <2>2
<1> QED
  BY <1>4, <1>6, <1>7, <1>8 DEF Current, UpToDate

\* Who has declined, or is to be heard, may go.
LEMMA CurrentAttendeeErase ==
  ASSUME Safe, UpToDate, NEW a \in Attendees, Erase(a)
  PROVE  UpToDate'
<1>1. PICK q \in Requests : q = req[a]
  BY Owners DEF Safe, TypeOK
<1>2. /\ q.step = "erase"
      /\ req' = [req EXCEPT ![a] = Idle]
      /\ event[a] # NoEvent /\ event[a] = q.row
      /\ event' = [event EXCEPT ![a] = NoEvent]
      /\ undone' = undone \ {a}
      /\ UNCHANGED <<rows, unfiled, unheard, stale, overtaken>>
  BY <1>1, AttendeeErases
<1>3. /\ event'[a] = NoEvent /\ event'[Organizer] = event[Organizer] /\ req'[a] = Idle
      /\ \A b \in Attendees : b # a => event'[b] = event[b] /\ req'[b] = req[b]
  BY <1>2, Owners DEF Safe, TypeOK
<1>4. ASSUME NEW b \in Attendees, b # a
      PROVE  Current(b)'
  BY <1>2, <1>3, <1>4, Bystander DEF UpToDate
<1>5. Current(a)
  BY DEF UpToDate
<1>6. Clean(a) => q.row.text.att[a] = "DECLINED" \/ a \in undone \cup unheard
  BY <1>1, <1>2, <1>5 DEF Current, Underway, Gone
<1>7. Follows(a)' /\ Uninvited(a)'
  BY <1>3 DEF Follows, Uninvited
<1>8. Agrees(a)'
  <2> SUFFICES ASSUME a \in Listed(event'[Organizer])
               PROVE  Agrees(a)'
    BY DEF Agrees
  <2>1. Agrees(a) /\ a \in Listed(event[Organizer]) /\ Known(a)' = Known(a)
    BY <1>3, <1>5 DEF Current, Known
  <2>2. Heard(a)' => Known(a) # "ACCEPTED"
    <3> SUFFICES ASSUME Clean(a), a \notin unheard
                 PROVE  Known(a) # "ACCEPTED"
      BY <1>2 DEF Heard, Clean
    <3>1. CASE a \in undone
      BY <2>1, <3>1 DEF Agrees
    <3>2. CASE a \notin undone
      <4>1. event[a].text.att[a] = "DECLINED" /\ Heard(a)
        BY <1>2, <1>6, <3>2 DEF Heard
      <4> QED
        BY <1>2, <2>1, <4>1, AnswerTypes DEF Agrees
    <3> QED
      BY <3>1, <3>2
  <2> QED
    BY <1>2, <1>3, <2>1, <2>2 DEF Agrees, Clean
<1>9. Underway(a)'
  BY <1>3 DEF Underway, Idle
<1> QED
  BY <1>4, <1>7, <1>8, <1>9 DEF Current, UpToDate

\* A row that is gone stays gone: ids are not used again.
LEMMA StaysGone ==
  ASSUME Safe, NEW a \in Attendees, NEW row, Gone(a, row),
         row.id \in Nat, row.id <= rows[a],
         event'[a] # NoEvent, event'[a].id = rows'[a],
         event[a] # NoEvent => event'[a].id = event[a].id,
         event[a] = NoEvent => rows'[a] = rows[a] + 1
  PROVE  Gone(a, row)'
<1>1. rows[a] \in Nat
  BY BoundsAssumption DEF Safe, TypeOK, People
<1>2. CASE event[a] = NoEvent
  <2>1. event'[a].id = rows[a] + 1
    BY <1>2
  <2>2. event'[a].id # row.id
    BY <1>1, <2>1
  <2> QED
    BY <2>2 DEF Gone
<1>3. CASE event[a] # NoEvent
  BY <1>3 DEF Gone
<1> QED
  BY <1>2, <1>3

\* A copy that is filed is the organizer's revision, with the answer it had.
LEMMA CurrentFileCopy ==
  ASSUME Safe, UpToDate, NEW d \in Devices, FileCopy(d)
  PROVE  UpToDate'
<1>1. PICK q \in Requests : q = req[d]
  BY Owners DEF Safe, TypeOK
<1>2. PICK a \in Attendees : a = q.at
  BY <1>1, Files
<1>3. /\ Delivering(d, q) /\ q.step = "file" /\ q.op = "put"
      /\ a \in Filing /\ a \in Lines(q.new)
      /\ GoOn(d, PastRecipient(q, a))
      /\ event'[a] # NoEvent /\ event'[a].id = rows'[a]
      /\ event'[a].text.seq = q.new.seq
      /\ event'[a].text.att[a] = FiledPartstat(q)
      /\ event[a] # NoEvent => event'[a].id = event[a].id
      /\ event[a] = NoEvent => rows'[a] = rows[a] + 1
      /\ \A p \in People : p # a => event'[p] = event[p]
      /\ unfiled' = unfiled \ Settle(d, a)
      /\ stale' = IF event[a] # q.copy \/ d \in overtaken THEN stale \cup {a} ELSE stale
      /\ UNCHANGED <<unheard, undone>>
  BY <1>1, <1>2, Files
<1>4. event'[Organizer] = event[Organizer] /\ \A b \in Attendees : req'[b] = req[b]
  BY <1>3, OthersWait, Owners DEF Safe
<1>5. ASSUME NEW b \in Attendees, b # a
      PROVE  Current(b)'
  BY <1>3, <1>4, <1>5, Bystander, Owners DEF UpToDate, Settle
<1>6. Current(a) /\ Answering(a, req[a])
  BY DEF UpToDate, Safe, RequestsOK
<1>7. Clean(a)' =>
        /\ Clean(a) /\ event[a] = q.copy /\ d \notin overtaken
        /\ a \in Listed(event[Organizer]) /\ event[Organizer].text.seq = q.new.seq
        /\ event'[a].text.att[a] \in Answers =>
             event[a] # NoEvent /\ event'[a].text.att[a] = event[a].text.att[a]
  <2>1. Clean(a)' => /\ Clean(a) /\ event[a] = q.copy /\ d \notin overtaken
                     /\ Organizer \notin stale
    BY <1>3 DEF Clean
  <2>2. FiledPartstat(q) \in Answers =>
          q.copy # NoEvent /\ FiledPartstat(q) = q.copy.text.att[a]
    BY <1>2, AnswerTypes, ListedIs DEF FiledPartstat
  <2> QED
    BY <1>3, <2>1, <2>2 DEF Delivering, Working
<1>8. Follows(a)' /\ Uninvited(a)'
  BY <1>3, <1>4, <1>7 DEF Follows, Uninvited, Heard
<1>9. Agrees(a)'
  <2>1. Heard(a)' => Clean(a)' /\ Heard(a)
    BY <1>3, <1>7 DEF Heard
  <2> QED
    BY <1>3, <1>4, <1>6, <1>7, <2>1 DEF Current, Agrees, Known
<1>10. Underway(a)'
  <2>1. req[a].step = "erase" /\ Clean(a)' =>
          \/ req[a].row.text.att[a] = "DECLINED"
          \/ a \in undone \cup unheard
          \/ Gone(a, req[a].row)'
    <3> SUFFICES ASSUME req[a].step = "erase", Clean(a)', Gone(a, req[a].row)
                 PROVE  Gone(a, req[a].row)'
      BY <1>6, <1>7 DEF Current, Underway
    <3>1. PICK row : row = req[a].row
      OBVIOUS
    <3>2. row \in MaybeEvents /\ row # NoEvent /\ row.id <= rows[a] /\ Gone(a, row)
      BY <1>6, <3>1, RequestType, Owners DEF Answering, Safe, TypeOK
    <3>3. row.id \in Nat
      BY <3>2, EventType
    <3>4. Gone(a, row)'
      BY <1>3, <3>2, <3>3, StaysGone
    <3> QED
      BY <1>4, <3>1, <3>4 DEF Gone
  <2>2. req[a].step \in {"reply", "merge"} /\ req[a].op = "put" /\ Clean(a)'
            /\ event'[a].text.att[a] \in Answers =>
          event'[a].text.att[a] = req[a].new.att[a]
    BY <1>6, <1>7 DEF Current, Underway
  <2> QED
    BY <1>3, <1>4, <2>1, <2>2 DEF Underway, Gone
<1> QED
  BY <1>5, <1>8, <1>9, <1>10 DEF Current, UpToDate

\* A reply that is merged is the answer in the copy.
LEMMA CurrentMergeReply ==
  ASSUME Safe, UpToDate, NEW a \in Attendees, MergeReply(a)
  PROVE  UpToDate'
<1>1. PICK q \in Requests : q = req[a]
  BY Owners DEF Safe, TypeOK
<1>2. /\ Answering(a, q) /\ q.step = "merge" /\ a \in Filing
      /\ GoOn(a, PastReply(q))
      /\ \A b \in Attendees : event'[b] = event[b]
      /\ q.copy = NoEvent => event' = event
      /\ q.copy # NoEvent =>
           /\ event'[Organizer].text.seq = q.copy.text.seq
           /\ Listed(event'[Organizer]) = Listed(q.copy)
           /\ \A b \in Attendees :
                b # a => event'[Organizer].text.att[b] = q.copy.text.att[b]
           /\ a \in Listed(q.copy) => event'[Organizer].text.att[a] = q.new.att[a]
      /\ unheard' = IF a \in Listed(q.copy) THEN unheard \ {a} ELSE unheard \cup {a}
      /\ undone' = IF q.op = "delete" THEN undone \cup {a} ELSE undone \ {a}
      /\ stale' = IF q.copy # NoEvent /\ event[Organizer] # q.copy
                  THEN stale \cup {Organizer} ELSE stale
      /\ unfiled' = unfiled
  BY <1>1, Merges
<1>3. \A b \in Attendees : b # a => req'[b] = req[b]
  BY <1>2, OthersWait, Owners DEF Safe
<1>4. Organizer \notin stale' =>
        /\ Organizer \notin stale
        /\ Listed(event'[Organizer]) = Listed(event[Organizer])
        /\ q.copy # NoEvent => event[Organizer] = q.copy
        /\ event'[Organizer].text.seq = event[Organizer].text.seq
  BY <1>2
<1>5. ASSUME NEW b \in Attendees, b # a
      PROVE  Current(b)'
  <2>1. Organizer \notin stale' =>
          event'[Organizer].text.att[b] = event[Organizer].text.att[b]
    BY <1>2, <1>5
  <2>2. stale \subseteq stale'
    BY <1>2
  <2>3. Current(b) /\ req'[b] = req[b] /\ event'[b] = event[b]
    BY <1>2, <1>3, <1>5 DEF UpToDate
  <2> QED
    BY <1>2, <1>4, <1>5, <2>1, <2>2, <2>3, Bystander
<1>6. Current(a)
  BY DEF UpToDate
<1>7. Clean(a)' => Clean(a) /\ Organizer \notin stale'
  BY <1>2 DEF Clean
<1>8. Follows(a)'
  BY <1>2, <1>4, <1>6, <1>7 DEF Current, Follows
\* If it was heard, the organizer lists the attendee and has the answer.
<1>9. Clean(a)' /\ a \notin unheard' =>
        /\ a \in Listed(event[Organizer]) /\ a \in Listed(event'[Organizer])
        /\ Known(a)' = q.new.att[a]
  <2>1. a \notin unheard' => a \in Listed(q.copy)
    BY <1>2
  <2>2. a \in Listed(q.copy) => q.copy # NoEvent
    BY ListedIs
  <2> QED
    BY <1>2, <1>4, <1>7, <2>1, <2>2 DEF Known
<1>10. Uninvited(a)'
  BY <1>9 DEF Uninvited, Heard
<1>11. q.op \in {"put", "delete"} /\ (q.op = "delete" => q.new.att[a] = "DECLINED")
  BY <1>2, RequestType DEF Answering
<1>12. Agrees(a)'
  <2>1. Heard(a)' => /\ Clean(a)' /\ Clean(a) /\ q.op = "put"
                     /\ a \in Listed(event[Organizer]) /\ Known(a)' = q.new.att[a]
    BY <1>2, <1>7, <1>9, <1>11 DEF Heard
  <2>2. Clean(a) /\ q.op = "put" =>
          /\ event[a] # NoEvent /\ event[a].text.att[a] \in Answers
               => event[a].text.att[a] = q.new.att[a]
          /\ a \in Listed(event[Organizer]) /\ a \notin unfiled => event[a] # NoEvent
    BY <1>1, <1>2, <1>6 DEF Current, Underway
  <2>3. Clean(a)' /\ a \in undone' \ unheard' => Known(a)' # "ACCEPTED"
    BY <1>2, <1>9, <1>11
  <2> QED
    BY <1>2, <2>1, <2>2, <2>3 DEF Agrees
<1>13. Underway(a)'
  <2>1. /\ PastReply(q) \in Requests
        /\ PastReply(q).step = IF q.op = "delete" THEN "erase" ELSE "deliver"
    BY PastReplyType
  <2>2. req'[a] \in {Idle, PastReply(q)}
    BY <1>2, <2>1, GoesOn, Owners DEF Safe
  <2>3. req'[a].step = "erase" => a \in undone'
    BY <1>2, <2>1, <2>2 DEF Idle
  <2>4. req'[a].step \notin {"reply", "merge"}
    BY <2>1, <2>2 DEF Idle
  <2> QED
    BY <2>3, <2>4 DEF Underway
<1> QED
  BY <1>5, <1>8, <1>10, <1>12, <1>13 DEF Current, UpToDate

-----------------------------------------------------------------------------
LEMMA CurrentInit == Init => UpToDate
<1> SUFFICES ASSUME Init, NEW a \in Attendees
             PROVE  Current(a)
  BY DEF UpToDate
<1>1. /\ event[a] = NoEvent /\ event[Organizer] = NoEvent /\ req[a].step = "idle"
  BY IdleFields, Owners DEF Init
<1>2. a \notin Listed(event[Organizer])
  BY <1>1, ListedIs
<1> QED
  BY <1>1, <1>2 DEF Current, Follows, Uninvited, Agrees, Underway

LEMMA CurrentNext ==
  ASSUME {} \notin Lists
  PROVE  Safe /\ UpToDate /\ [Next]_vars => UpToDate'
<1> SUFFICES ASSUME Safe, UpToDate, [Next]_vars
             PROVE  UpToDate'
  OBVIOUS
<1>1. CASE Request
  BY <1>1, CurrentRequest
<1>2. ASSUME NEW c \in Clients, Commit(c)
      PROVE  UpToDate'
  BY <1>2, CurrentOrganizerCommit, CurrentAttendeeCommit, Owners
<1>3. ASSUME NEW c \in Clients, Erase(c)
      PROVE  UpToDate'
  BY <1>3, CurrentOrganizerErase, CurrentAttendeeErase, Owners
<1>4. CASE Deliver
  BY <1>4, CurrentDeliverRequest, CurrentDeliverCancel, CurrentFileCopy,
     CurrentRemoveCopy, CurrentFailDelivery DEF Deliver
<1>5. CASE Reply
  BY <1>5, CurrentDeliverReply, CurrentMergeReply, CurrentFailReply DEF Reply
<1>6. CASE Crash \/ UNCHANGED vars \/ \E c \in Clients : Refuse(c)
  BY <1>6, CurrentDropped
<1> QED
  BY <1>1, <1>2, <1>3, <1>4, <1>5, <1>6 DEF Next

LEMMA CurrentAlways ==
  ASSUME {} \notin Lists
  PROVE  Spec => []UpToDate
<1>1. Safe /\ UpToDate /\ [Next]_vars => UpToDate'
  BY CurrentNext
<1> QED
  BY <1>1, CurrentInit, SafeAlways, PTL DEF Spec

LEMMA SettledIs ==
  ASSUME NEW a \in Attendees, Settled(a)
  PROVE  Heard(a) /\ Clean(a) /\ a \notin unfiled
  BY DEF Settled, Heard, Clean

\* Once nothing is on its way and nothing failed, an attendee's copy is the
\* organizer's last version, and there is none of one who is not invited
\* (deliverOrganizerInvites).  An organizer's client that takes the last
\* ATTENDEE off the list is left out: detectSchedulingRole has no role for that
\* text, nobody is sent a CANCEL, and the copies stay.
THEOREM CopiesAlwaysFollow ==
  ASSUME {} \notin Lists
  PROVE  Spec => []CopiesFollow
<1>1. UpToDate => CopiesFollow
  BY SettledIs DEF UpToDate, Current, Follows, CopiesFollow
<1> QED
  BY <1>1, CurrentAlways, PTL

\* Then the organizer also has the answer of the copy, and who is coming has a
\* copy (mergeReplyIntoOrganizerCopy, and the PARTSTAT deliverRequest keeps).
THEOREM AnswersAlwaysAgree ==
  ASSUME {} \notin Lists
  PROVE  Spec => []AnswersAgree
<1>1. UpToDate => AnswersAgree
  <2> SUFFICES ASSUME UpToDate, NEW a \in Attendees, Settled(a),
                      a \in Listed(event[Organizer])
               PROVE  /\ event[a] # NoEvent /\ event[a].text.att[a] \in Answers
                           => Known(a) = event[a].text.att[a]
                      /\ Known(a) = "ACCEPTED" => event[a] # NoEvent
    BY DEF AnswersAgree, Known
  <2>1. Agrees(a) /\ Heard(a) /\ a \notin unfiled
    BY SettledIs DEF UpToDate, Current
  <2> QED
    BY <2>1 DEF Agrees
<1> QED
  BY <1>1, CurrentAlways, PTL

\* What is proved of a copy that is filed holds of the answer in it: an answer
\* given is kept when the meeting is moved, unless it was given while the copy
\* was being written.
ReschedulesKeepAnswers ==
  \A d \in Devices, a \in Attendees :
    FileCopy(d) /\ req[d].at = a /\ event[a] = req[d].copy
      /\ a \in Listed(req[d].row) \cap Listed(event[a])
    => event'[a].text.att[a] = event[a].text.att[a]

LEMMA KeepsAnswer == Safe /\ [Next]_vars => ReschedulesKeepAnswers
<1> SUFFICES ASSUME Safe, NEW d \in Devices, NEW a \in Attendees, FileCopy(d),
                    req[d].at = a, event[a] = req[d].copy,
                    a \in Listed(req[d].row) \cap Listed(event[a])
             PROVE  event'[a].text.att[a] = event[a].text.att[a]
  BY DEF ReschedulesKeepAnswers
<1> QED
  BY Files DEF FiledPartstat

\* A reschedule reverts an answer only if it was given between the two steps of
\* the delivery, the read of the copy and its write (deliverRequest).
THEOREM AnswersSurviveReschedules == Spec => [][ReschedulesKeepAnswers]_vars
  BY KeepsAnswer, SafeAlways, PTL DEF Spec

=============================================================================
