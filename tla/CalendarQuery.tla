---------------------------- MODULE CalendarQuery ----------------------------
(***************************************************************************)
(* The reports calendar-query, free-busy-query and calendar-multiget on    *)
(* one calendar, while clients write and delete its objects.  The first    *)
(* two read the index of the rows page by page, each page by its offset in *)
(* the order of the moment, then the texts of the page's rows, by id, and  *)
(* keep what occurs in the range; the last looks its rows up by name.  To  *)
(* send them, a query or multiget loads the texts (once more), which go    *)
(* with the ETags of the rows read before, expanded if that was asked for. *)
(* No transaction joins any two of these reads.  A write changes text,     *)
(* ETag and index at once.                                                 *)
(*                                                                         *)
(* Names are numbers, in their order.  Ids are UUIDs: numbers, too, but a  *)
(* new one may be less than those there are.  Every text is an event and   *)
(* readable by whoever asks.                                               *)
(***************************************************************************)
EXTENDS Recurrence, Sequences, SequencesExt

CONSTANTS Names, Ids,
          Objects,     \* bound: what clients write
          FirstId,     \* [Names -> the id of a row there is at first]
          Starts,      \* bound: the calendars there may be at first, and how
                       \* many writes follow each
          Questions,   \* bound: the reports: kind, range, zone, the range to
                  \* expand or None, and the names of a multiget
          PageSize, MaxResults,
          MaxWrites    \* bound: writes and deletions

ASSUME PageAssumption ==
  PageSize \in Nat \ {0} /\ MaxResults \in Nat \ {0} /\ MaxWrites \in Nat

\* What rows hold.
Known == Objects \cup ({s.calendar[n] : s \in Starts, n \in Names} \ {None})

ASSUME RowsAssumption ==
  /\ IsFiniteSet(Names) /\ Names \subseteq Nat /\ IsFiniteSet(Ids) /\ Ids \subseteq Nat
  /\ \A n \in Names : FirstId[n] \in Ids
  /\ \A m, n \in Names : FirstId[m] = FirstId[n] => m = n
  /\ \A s \in Starts : s.writes \in 0..MaxWrites
  /\ None \notin Objects /\ \A o \in Known : IsObject(o)

ASSUME QuestionsAssumption ==
  \A q \in Questions :
    /\ q.kind \in {"query", "freebusy", "multiget"}
    /\ IsZone(q.zone)
    /\ q.from \in -Infinity..Infinity /\ q.to \in -Infinity..Infinity
    /\ q.expand # None => q.expand.from \in -Infinity..Infinity /\ q.expand.to \in -Infinity..Infinity
                          /\ q.expand.from < q.expand.to
    /\ q.names \in Seq(Names)

VARIABLES rows,      \* [Names -> row of the calendar, or None]
          unused,    \* ids no row has had
          writes,    \* writes and deletions so far
          report,    \* the report in progress
          ever,      \* history: what each row held since the report began
          gone,      \* history: rows that left the ones it pages through, ...
          come       \* ... and that joined them

history == <<ever, gone, come>>
vars == <<rows, unused, writes, report, history>>

BusyTypes == {"BUSY", "BUSY-TENTATIVE"}

Row(id, version, o) ==
  [id |-> id, version |-> version, object |-> o, index |-> ComputeTimeRangeIndex(o)]
Live == {n \in Names : rows[n] # None}

ASSUME NoneAssumption ==
  \A id \in Ids, version \in 1..(MaxWrites + 1), o \in Known : Row(id, version, o) # None

IdsOf(names) == {rows[n].id : n \in names}
NameOf(id) == CHOOSE n \in Live : rows[n].id = id
ObjectOf(id) == IF id \in IdsOf(Live) THEN rows[NameOf(id)].object ELSE None

Idle == [pc |-> "idle"]
Is(pc) == report.pc = pc
Pages == report.ask.kind \in {"query", "freebusy"}
Sends == report.ask.kind \in {"query", "multiget"}

\* What the report pages through, as the rows are now: events by name, busy
\* time by id.
Before(e, f) == IF report.ask.kind = "query" THEN e.name < f.name ELSE e.id < f.id
Candidates == {n \in Live : Prefilter(rows[n].index, report.ask.from, report.ask.to)}

\* The members of S in the order of the pairs in less.
Ranked(S, less) ==
  [i \in 1..Cardinality(S) |->
     CHOOSE x \in S : Cardinality({y \in S : <<y, x>> \in less}) = i - 1]

\* The elements of s at the indices in I, in their order.
At(s, I) ==
  LET indices == Ranked(I, {p \in I \X I : p[1] < p[2]})
  IN [k \in DOMAIN indices |-> s[indices[k]]]

\* A row as it is looked up: its ETag stays with it.
Entry(n) == [name |-> n, id |-> rows[n].id, version |-> rows[n].version]

Ordered ==
  Ranked(Candidates, {p \in Live \X Live : Before(Entry(p[1]), Entry(p[2]))})

-----------------------------------------------------------------------------
(* Clients. *)

\* What a write means to a report in progress.
Observed ==
  LET before == IdsOf(Candidates)
      after == IdsOf(Candidates)'
  IN /\ ever' = [id \in Ids |-> ever[id] \cup {ObjectOf(id)'}]
     /\ gone' = gone + Cardinality(before \ after)
     /\ come' = come + Cardinality(after \ before)

Write(new) ==
  /\ writes < MaxWrites
  /\ writes' = writes + 1
  /\ rows' = new
  /\ UNCHANGED report
  /\ IF Is("idle") THEN UNCHANGED history ELSE Observed

Put(n, o) ==
  IF rows[n] = None
  THEN \E id \in unused :
         /\ Write([rows EXCEPT ![n] = Row(id, 1, o)])
         /\ unused' = unused \ {id}
  ELSE /\ Write([rows EXCEPT ![n] = Row(rows[n].id, rows[n].version + 1, o)])
       /\ UNCHANGED unused

Delete(n) ==
  /\ rows[n] # None
  /\ Write([rows EXCEPT ![n] = None])
  /\ UNCHANGED unused

-----------------------------------------------------------------------------
(* A report. *)

Begin(q) ==
  /\ Is("idle")
  /\ report' = [pc |-> IF q.kind = "multiget" THEN "names" ELSE "page", ask |-> q,
                offset |-> 0, page |-> <<>>, found |-> <<>>, busy |-> {},
                data |-> <<>>, answer |-> <<>>]
  /\ ever' = [id \in Ids |-> {ObjectOf(id)}]
  /\ UNCHANGED <<rows, unused, writes, gone, come>>

\* findCalendarObjectsByName
ReadNames ==
  /\ Is("names")
  /\ report' = [report EXCEPT !.pc = "collected",
       !.found = LET names == report.ask.names
                     there == At(names, {i \in DOMAIN names : names[i] \in Live})
                 IN [i \in DOMAIN there |-> Entry(there[i])]]
  /\ UNCHANGED <<rows, unused, writes, history>>

\* One entry more than are sent tells that there are more.
Full(found) == report.ask.kind = "query" /\ Len(found) > MaxResults

\* A page that is not full is the last one.
LastPage_Mutant(page) == Len(page) <= PageSize
LastPage(page) == Len(page) < PageSize

ReadPage ==
  /\ Is("page")
  /\ LET last == Min({Len(Ordered), report.offset + PageSize})
         page == [i \in 1..(last - report.offset) |-> Entry(Ordered[report.offset + i])]
     IN report' = IF last <= report.offset THEN [report EXCEPT !.pc = "collected"]
                  ELSE [report EXCEPT !.pc = "contents", !.offset = last, !.page = page]
  /\ UNCHANGED <<rows, unused, writes, history>>

\* matchesTimeRange, and what it makes of an object that is too large.
Matches(o) ==
  LET q == report.ask
  IN /\ ~TooLarge(o, q.zone, q.from, q.to)
     /\ ExpandOccurrences(o, q.zone, q.from, q.to) # {}

BusyIntervalsOf(o) ==
  LET q == report.ask
  IN {[start |-> x.start, end |-> x.end, busy |-> x.busy] :
        x \in {y \in ExpandOccurrences(o, q.zone, q.from, q.to) : y.busy # "free"}}

\* The texts of a page's rows, whatever they are by now.
ReadContents ==
  /\ Is("contents")
  /\ LET page == report.page
         matched == At(page, {i \in DOMAIN page : /\ ObjectOf(page[i].id) # None
                                                  /\ Matches(ObjectOf(page[i].id))})
         all == report.found \o matched
         found == IF Full(all) THEN SubSeq(all, 1, MaxResults + 1) ELSE all
     IN report' = [report EXCEPT
          !.pc = IF Full(found) \/ LastPage(page) THEN "collected" ELSE "page",
          !.page = <<>>,
          !.found = found,
          !.busy = IF report.ask.kind = "query" THEN {}
                   ELSE report.busy \cup UNION {BusyIntervalsOf(ObjectOf(matched[i].id)) :
                                                  i \in DOMAIN matched}]
  /\ UNCHANGED <<rows, unused, writes, history>>

\* loadIcsData: the texts with their versions, 0 for one that is gone.
LoadData ==
  /\ Is("collected")
  /\ Sends
  /\ report' = [report EXCEPT !.pc = "loaded",
       !.data = [i \in 1..(IF Full(report.found) THEN MaxResults ELSE Len(report.found)) |->
                   LET id == report.found[i].id
                   IN IF ObjectOf(id) = None THEN [version |-> 0, object |-> None]
                      ELSE [version |-> rows[NameOf(id)].version, object |-> ObjectOf(id)]]]
  /\ UNCHANGED <<rows, unused, writes, history>>

\* getetag, of the row that was looked up.
Etag_Mutant(e) == IF ObjectOf(e.id) = None THEN e.version ELSE rows[NameOf(e.id)].version
Etag(e) == e.version

\* renderCalendarData fails on an object that is too large.
Unexpandable(o) ==
  LET range == report.ask.expand
  IN o # None /\ range # None /\ TooLarge(o, report.ask.zone, range.from, range.to)

Answer ==
  /\ Is("loaded")
  /\ \A i \in DOMAIN report.data : ~Unexpandable(report.data[i].object)
  /\ report' = [report EXCEPT !.pc = "answered", !.data = <<>>,
       !.answer = [i \in DOMAIN report.data |->
                     [etag |-> Etag(report.found[i]), data |-> report.data[i].version]]]
  /\ UNCHANGED <<rows, unused, writes, history>>

\* One object fails the whole report.
Fail ==
  /\ Is("loaded")
  /\ \E i \in DOMAIN report.data : Unexpandable(report.data[i].object)
  /\ report' = [report EXCEPT !.pc = "failed", !.data = <<>>]
  /\ UNCHANGED <<rows, unused, writes, history>>

\* Sorted by start; an interval that starts within a block, or where it ends,
\* extends the block.
Touches_Mutant(block, i) == i.start < block.end
Touches(block, i) == i.start <= block.end

Extend(blocks, i) ==
  IF blocks # <<>> /\ Touches(blocks[Len(blocks)], i)
  THEN [blocks EXCEPT ![Len(blocks)].end = Max({@, i.end})]
  ELSE Append(blocks, i)

Earlier(i, j) == i.start < j.start \/ (i.start = j.start /\ i.end < j.end)

Coalesce(intervals) ==
  LET sorted == Ranked(intervals, {p \in intervals \X intervals : Earlier(p[1], p[2])})
      blocks[k \in 0..Len(sorted)] == IF k = 0 THEN <<>> ELSE Extend(blocks[k - 1], sorted[k])
  IN blocks[Len(sorted)]

Coalesced(busy) == Coalesce({i \in report.busy : i.busy = busy})

AnswerFreeBusy ==
  /\ Is("collected")
  /\ report.ask.kind = "freebusy"
  /\ report' = [report EXCEPT !.pc = "answered", !.busy = {},
       !.answer = [busy \in BusyTypes |-> Coalesced(busy)]]
  /\ UNCHANGED <<rows, unused, writes, history>>

-----------------------------------------------------------------------------
Init ==
  /\ \E start \in Starts :
       /\ rows = [n \in Names |-> IF start.calendar[n] = None THEN None
                                  ELSE Row(FirstId[n], 1, start.calendar[n])]
       /\ writes = MaxWrites - start.writes
  /\ unused = Ids \ IdsOf(Live)
  /\ report = Idle
  /\ ever = [id \in Ids |-> {}]
  /\ gone = 0 /\ come = 0

Next ==
  \/ \E n \in Names : Delete(n) \/ \E o \in Objects : Put(n, o)
  \/ \E q \in Questions : Begin(q)
  \/ ReadNames \/ ReadPage \/ ReadContents \/ LoadData
  \/ Answer \/ Fail \/ AnswerFreeBusy

Spec == Init /\ [][Next]_vars

-----------------------------------------------------------------------------
\* What is asked of every object, as often as a report looks for a page.
Asked == IF Is("page") THEN {rows[n] : n \in Live} ELSE {}

\* The index hides no object that occurs in the range, in whatever zone the
\* query reads floating times, after whatever RDATE, override or long rule.
NothingHidden ==
  \A row \in Asked :
    LET q == report.ask
    IN TrueOccurrences(row.object, q.zone, q.from, q.to) # {}
       => Prefilter(row.index, q.from, q.to)

\* Starting a rule near the range finds what following it from DTSTART would.
ExpansionRight ==
  \A row \in Asked :
    LET q == report.ask
        o == row.object
    IN \/ TooLarge(o, q.zone, q.from, q.to)
       \/ AmbiguousLength(o, q.zone)
       \/ ExpandOccurrences(o, q.zone, q.from, q.to) = TrueOccurrences(o, q.zone, q.from, q.to)

\* An object is only left out for a rule that has too many instances: near the
\* range if the rule has no memory of how far it has run.
LeftOutTooLong ==
  \A row \in Asked :
    LET q == report.ask
        o == row.object
    IN TooLarge(o, q.zone, q.from, q.to) =>
         \/ q.to = Infinity /\ Endless(o.rule)
         \/ Cardinality(Near(o, q.zone, q.from, q.to)) + Cardinality(o.exdates) + 2
              > MaxInstances

Occurs(o) ==
  LET q == report.ask
  IN ~TooLarge(o, q.zone, q.from, q.to) /\ TrueOccurrences(o, q.zone, q.from, q.to) # {}

\* Paging by offset loses no more objects than left the calendar's candidates
\* meanwhile, and repeats no more than joined them; whatever is answered did
\* occur in the range at some time, and if nothing moved the first objects are
\* answered, in order.
PagesExplained ==
  LET found == report.found
      ids == {found[i].id : i \in DOMAIN found}
      missed == {n \in Live : /\ ever[rows[n].id] = {rows[n].object}
                              /\ Occurs(rows[n].object)
                              /\ rows[n].id \notin ids}
  IN /\ \A id \in ids : \E o \in ever[id] \ {None} : Occurs(o)
     /\ Full(found) \/ Cardinality(missed) <= gone
     /\ Len(found) - Cardinality(ids) <= come
     /\ gone + come = 0 =>
          /\ \A i, j \in DOMAIN found : i < j => Before(found[i], found[j])
          /\ \A n \in missed : Before(Last(found), [name |-> n, id |-> rows[n].id])

\* A query that expands no more than its range fails only if somebody wrote.
QueryExplained ==
  /\ Is("answered") /\ Pages => PagesExplained
  /\ Is("failed") /\ Pages /\ report.ask.expand.from >= report.ask.from
                    /\ report.ask.expand.to <= report.ask.to
     => \E id \in Ids : Cardinality(ever[id]) > 1

\* No text goes out under the ETag of a later one, or the client that gets it
\* would overwrite changes it has not seen.
FreshData ==
  Is("answered") /\ Sends =>
    \A i \in DOMAIN report.answer :
      LET sent == report.answer[i] IN sent.data = 0 \/ sent.etag <= sent.data

\* Busy time is where an event is, no more and no less, in blocks that neither
\* overlap nor touch, if nobody wrote meanwhile.
BusyTimeRight ==
  /\ Is("answered") /\ report.ask.kind = "freebusy"
  /\ \A id \in Ids : Cardinality(ever[id]) = 1
  => \A busy \in BusyTypes :
       LET q == report.ask
           blocks == report.answer[busy]
           events == UNION {TrueOccurrences(rows[n].object, q.zone, q.from, q.to) :
                              n \in {m \in Live : Occurs(rows[m].object)}}
       IN /\ \A t \in q.from..(q.to - 1) :
               (\E i \in DOMAIN blocks : blocks[i].start <= t /\ t < blocks[i].end)
               <=> \E x \in events : x.busy = busy /\ x.start <= t /\ t < x.end
          /\ \A i, j \in DOMAIN blocks : i < j => blocks[i].end < blocks[j].start

\* "An endless rule up to WEEKLY does not count the instances before the range":
\* what is left out has a COUNT, an UNTIL or fills the months (findMatches).
DenseRulesAnswered ==
  \A row \in Asked :
    LET q == report.ask
        r == row.object.rule
    IN r # None /\ Endless(r) /\ r.unit \in DOMAIN Margin
       => ~TooLarge(row.object, q.zone, q.from, q.to)
=============================================================================
