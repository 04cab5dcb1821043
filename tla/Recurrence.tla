----------------------------- MODULE Recurrence -----------------------------
(***************************************************************************)
(* What a calendar object means in time: its instances, the occurrences    *)
(* that overlap a range, and the two columns of the index by which queries *)
(* choose the objects they read.  Pure operators on data.                  *)
(*                                                                         *)
(* Time is counted in ticks.  A wall time is what a clock shows, an        *)
(* instant is in UTC.  All times of an object are written in one form: in  *)
(* UTC, in a zone, or floating, that is in whatever zone a query reads     *)
(* them; "date" is floating, too, and an event that names no end lasts a   *)
(* day then.  ical.js evaluates a rule; here a rule is the set of wall     *)
(* times it allows, in every interval-th period of its unit.               *)
(***************************************************************************)
EXTENDS Integers, FiniteSets, FiniteSetsExt

CONSTANTS Day,
          Unit,        \* [frequencies -> length of the period]
          Margin,      \* [frequencies up to weekly -> slack of fastForward]
          Earliest,    \* offset of the westernmost zone
          Latest,      \* offset of the easternmost zone
          MaxInstances, MaxSpanInstances,
          Horizon,     \* bound: rules are not followed any further
          None

Infinity == 10 * Horizon

ASSUME TimeAssumption ==
  /\ Day \in Nat
  /\ \A u \in DOMAIN Unit : Unit[u] \in Nat \ {0}
  /\ DOMAIN Margin \subseteq DOMAIN Unit /\ \A u \in DOMAIN Margin : Margin[u] \in Nat
  /\ Earliest \in Int /\ Latest \in Int /\ Earliest <= 0 /\ Latest >= 0
  /\ MaxInstances \in Nat /\ MaxSpanInstances \in Nat /\ Horizon \in Nat
  /\ MaxInstances < Infinity

Utc == [before |-> 0, after |-> 0, change |-> 0]

-----------------------------------------------------------------------------
(* The data: zones that change by no more than the index and fastForward     *)
(* allow for, and objects as they are written.                               *)

IsZone(z) ==
  /\ z.change \in Int
  /\ z.before \in Earliest..Latest /\ z.after \in Earliest..Latest
  /\ z.after - z.before <= Latest /\ Earliest <= 2 * z.after - z.before
  /\ \A u \in DOMAIN Margin : z.after - z.before \in -Margin[u]..Margin[u]

IsComponent(c) ==
  c.start \in Int /\ c.length \in Nat /\ c.ends \in {"dtend", "duration", "none"}

IsRule(r) ==
  /\ r.unit \in DOMAIN Unit /\ r.interval \in Nat \ {0} /\ r.count \in Nat
  /\ r.until = None \/ r.until \in Int

IsObject(o) ==
  /\ o.kind \in {"utc", "zoned", "floating", "date"} /\ IsZone(o.zone)
  /\ IF o.master = None THEN o.overrides # {} ELSE IsComponent(o.master) /\ o.master.start <= Horizon
  /\ o.rule = None \/ IsRule(o.rule)
  /\ IsFiniteSet(o.exdates) /\ o.exdates \subseteq Int
  /\ IsFiniteSet(DOMAIN o.rdates) /\ DOMAIN o.rdates \subseteq Int
  /\ \A w \in DOMAIN o.rdates : o.rdates[w] = None \/ o.rdates[w] \in Nat
  /\ IsFiniteSet(o.overrides) /\ \A c \in o.overrides : IsComponent(c) /\ c.of \in Int

-----------------------------------------------------------------------------
(* Instants. *)

\* A zone changes its offset at one instant.  A repeated time is the first of
\* the two, a skipped one is read with the offset before the change.
OffsetFor(zone, wall) ==
  LET At(instant) == IF instant < zone.change THEN zone.before ELSE zone.after
      valid == {o \in {zone.before, zone.after} : At(wall - o) = o}
  IN IF valid = {} THEN zone.before ELSE Max(valid)

\* floating is the zone floating times are read in.
ToInstant(o, floating, wall) ==
  IF o.kind = "utc" THEN wall
  ELSE wall - OffsetFor(IF o.kind = "zoned" THEN o.zone ELSE floating, wall)

StartOf(o, floating, c) == ToInstant(o, floating, c.start)

EndOf(o, floating, c) ==
  CASE c.ends = "dtend" -> ToInstant(o, floating, c.start + c.length)
    [] c.ends = "duration" -> StartOf(o, floating, c) + c.length
    [] c.ends = "none" -> IF o.kind = "date" THEN ToInstant(o, floating, c.start + Day)
                          ELSE StartOf(o, floating, c)

LengthOf(o, floating) == EndOf(o, floating, o.master) - StartOf(o, floating, o.master)

-----------------------------------------------------------------------------
(* The recurrence set of the master. *)

\* The wall times rule r allows in the periods counted from that of base.
Allows(r, base, wall) ==
  /\ wall >= base
  /\ (wall \div Unit[r.unit] - base \div Unit[r.unit]) % r.interval = 0
  /\ wall % r.cycle \in r.by

Endless(r) == r.count = 0 /\ r.until = None

\* Instances before this are of no interest.
SkipTo_Mutant(o, floating, from) == from
SkipTo(o, floating, from) == from - LengthOf(o, floating)

\* Where the rule is started: whole periods after DTSTART, two periods and the
\* margin before skipTo, if the rule has no COUNT and its periods are all of
\* one length.
FastForward_Mutant(o, floating, skipTo) == o.master.start
FastForward(o, floating, skipTo) ==
  LET r == o.rule
      start == o.master.start
      period == Unit[r.unit] * r.interval
      periods == (skipTo - ToInstant(o, floating, start) - 2 * period - Margin[r.unit])
                   \div period
  IN IF r.unit \notin DOMAIN Margin \/ r.count > 0 THEN start
     ELSE start + period * Max({periods, 0})

\* The wall times of the rule started at base; without a rule, DTSTART alone.
RuleInstances(o, floating, base) ==
  LET r == o.rule
      allowed == {w \in base..Horizon :
                    /\ Allows(r, base, w)
                    /\ r.until # None => ToInstant(o, floating, w) <= ToInstant(o, floating, r.until)}
  IN IF r = None THEN {o.master.start}
     ELSE IF r.count = 0 THEN allowed
     ELSE {w \in allowed : Cardinality({v \in allowed : v <= w}) <= r.count}

Excluded(o, floating) == {ToInstant(o, floating, w) : w \in o.exdates}

\* The length an RDATE gives, or None for the master's.  Of two that name one
\* instant it is the later in the text, which is not modelled: any of them.
AnyOf(S) == CHOOSE x \in S : TRUE
RdateLength(o, floating, start) ==
  o.rdates[AnyOf({w \in DOMAIN o.rdates : ToInstant(o, floating, w) = start})]

\* The instants of the drawn wall times, without those that are no later than
\* that of a wall time drawn before.
Rising(o, floating, drawn) ==
  {ToInstant(o, floating, w) :
     w \in {v \in drawn : \A u \in drawn : u < v => ToInstant(o, floating, u) < ToInstant(o, floating, v)}}

\* Rule and RDATEs without the EXDATEs; what both name is the rule's.
RecurrenceSet(o, floating, base) ==
  LET ruled == Rising(o, floating, RuleInstances(o, floating, base))
      dates == {ToInstant(o, floating, w) : w \in DOMAIN o.rdates}
      Instance(start) ==
        IF start \in ruled \/ RdateLength(o, floating, start) = None
        THEN [start |-> start, end |-> start + LengthOf(o, floating),
              explicit |-> o.master.ends = "dtend"]
        ELSE [start |-> start, end |-> start + RdateLength(o, floating, start), explicit |-> TRUE]
  IN {Instance(start) : start \in (ruled \cup dates) \ Excluded(o, floating)}

\* How many of the drawn instances come up to the first of the late ones: those
\* up to the first that is not before that one, and, if it is the rule's, the one
\* after, which is drawn ahead.
CountUpTo(o, floating, drawn, late) ==
  LET stop == Min(late)
      beyond == {w \in drawn : ToInstant(o, floating, w) >= stop}
      next == Min(beyond)
      ahead == IF ToInstant(o, floating, next) = stop THEN 1 ELSE 0
  IN IF late # {} /\ beyond # {}
     THEN Min({Cardinality(drawn), Cardinality({w \in drawn : w <= next}) + ahead})
     ELSE IF late = {} /\ Endless(o.rule) THEN Infinity
     ELSE Cardinality(drawn)

\* How many instances are drawn from the rule until the set yields one that is
\* not before to.
Examined(o, floating, base, to) ==
  IF o.rule = None THEN 0
  ELSE CountUpTo(o, floating, RuleInstances(o, floating, base),
                 {i.start : i \in {j \in RecurrenceSet(o, floating, base) : j.start >= to}})

-----------------------------------------------------------------------------
(* expandOccurrences *)

\* A point without DTEND counts at the start of the range.
Overlaps(start, end, explicit, from, to) ==
  IF end = start /\ ~explicit THEN from <= start /\ to > start
  ELSE from < end /\ to > start

\* of is the instance that an override stands in for.
Occurrence(start, end, of, c) == [start |-> start, end |-> end, of |-> of, busy |-> c.busy]

Overridden(o, floating) == {ToInstant(o, floating, c.of) : c \in o.overrides}

OverrideOccurrences(o, floating, from, to) ==
  {Occurrence(StartOf(o, floating, c), EndOf(o, floating, c), ToInstant(o, floating, c.of), c) :
     c \in {d \in o.overrides : Overlaps(StartOf(o, floating, d), EndOf(o, floating, d),
                                         d.ends = "dtend", from, to)}}

\* -Infinity is a range without a start.
Base(o, floating, from) ==
  IF o.rule = None \/ from = -Infinity THEN o.master.start
  ELSE FastForward(o, floating, SkipTo(o, floating, from))

\* RecurrenceLimitError
TooLarge(o, floating, from, to) ==
  /\ o.master # None
  /\ Examined(o, floating, Base(o, floating, from), to) > MaxInstances

ExpandOccurrences(o, floating, from, to) ==
  OverrideOccurrences(o, floating, from, to) \cup
  IF o.master = None THEN {}
  ELSE {Occurrence(i.start, i.end, None, o.master) :
          i \in {j \in RecurrenceSet(o, floating, Base(o, floating, from)) :
                   /\ j.start \notin Overridden(o, floating)
                   /\ Overlaps(j.start, j.end, j.explicit, from, to)}}

-----------------------------------------------------------------------------
(* The index, made when the object is written, of its times read as UTC. *)

\* A rule too long to be walked ends by UNTIL, an instance and a day.
RuleSpanEnd(o) ==
  LET r == o.rule
      instances == RecurrenceSet(o, Utc, o.master.start)
      dates == {i \in instances : i.start \in {ToInstant(o, Utc, w) : w \in DOMAIN o.rdates}}
      until == ToInstant(o, Utc, r.until) + LengthOf(o, Utc) + Day
      Last(S) == Max({i.end : i \in S} \cup {-Infinity})
  IN IF r = None THEN Last(instances)
     ELSE IF Endless(r) THEN None
     ELSE IF Examined(o, Utc, o.master.start, Infinity) <= MaxSpanInstances THEN Last(instances)
     ELSE IF r.until = None THEN None
     ELSE Max({until, Last(dates)})

\* The end of the last occurrence; None if there is no last one.
ComputeRecurrenceSpanEnd(o) ==
  LET ends == {EndOf(o, Utc, c) : c \in o.overrides}
  IN IF o.master = None THEN Max(ends)
     ELSE IF RuleSpanEnd(o) = None THEN None
     ELSE Max(ends \cup {EndOf(o, Utc, o.master), RuleSpanEnd(o)})

ComputeTimeRangeIndex(o) ==
  LET components == o.overrides \cup (IF o.master = None THEN {} ELSE {o.master})
  IN [dtstart |-> Min({StartOf(o, Utc, c) : c \in components}
                        \cup {ToInstant(o, Utc, w) : w \in DOMAIN o.rdates}),
      spanEnd |-> ComputeRecurrenceSpanEnd(o)]

\* The rows a query reads, widened by where floating times may lie.
Prefilter_Mutant(index, from, to) ==
  /\ index.dtstart < to
  /\ index.spanEnd = None \/ index.spanEnd >= from
Prefilter(index, from, to) ==
  /\ index.dtstart < to + Latest
  /\ index.spanEnd = None \/ index.spanEnd >= from + Earliest

-----------------------------------------------------------------------------
(* What the occurrences should be: the rule is followed from DTSTART on,   *)
(* instance by instance, for as long as it takes.                          *)

Recurs(o, floating, wall) ==
  LET r == o.rule
      Fits(w) == /\ Allows(r, o.master.start, w)
                 /\ r.until # None =>
                      ToInstant(o, floating, w) <= ToInstant(o, floating, r.until)
  IN /\ IF r = None THEN wall = o.master.start ELSE Fits(wall)
     /\ r # None /\ r.count > 0 =>
          Cardinality({w \in o.master.start..wall : Fits(w)}) <= r.count

TrueOccurrences(o, floating, from, to) ==
  LET ruled == {ToInstant(o, floating, w) :
                  w \in {v \in o.master.start..Horizon : Recurs(o, floating, v)}}
      dates == {ToInstant(o, floating, w) : w \in DOMAIN o.rdates} \ ruled
      Length(start) == IF start \in dates /\ RdateLength(o, floating, start) # None
                       THEN RdateLength(o, floating, start)
                       ELSE LengthOf(o, floating)
      Explicit(start) == \/ o.master.ends = "dtend"
                         \/ start \in dates /\ RdateLength(o, floating, start) # None
  IN OverrideOccurrences(o, floating, from, to) \cup
     IF o.master = None THEN {}
     ELSE {Occurrence(start, start + Length(start), None, o.master) :
             start \in {s \in (ruled \cup dates)
                              \ (Excluded(o, floating) \cup Overridden(o, floating)) :
                          Overlaps(s, s + Length(s), Explicit(s), from, to)}}

\* An RDATE with a length of its own names an instance of the rule, which wins:
\* but not if the rule is started after it.
AmbiguousLength(o, floating) ==
  /\ o.master # None
  /\ \E w \in DOMAIN o.rdates :
       /\ o.rdates[w] # None
       /\ \E v \in o.master.start..Horizon :
            ToInstant(o, floating, v) = ToInstant(o, floating, w) /\ Recurs(o, floating, v)

\* The rule's wall times never change places, nor do an event's start and end.
Steady(o, floating) ==
  o.master # None =>
    LET instances == {w \in o.master.start..Horizon : Recurs(o, floating, w)}
    IN /\ LengthOf(o, floating) >= 0
       /\ \A v, w \in instances : v < w => ToInstant(o, floating, v) <= ToInstant(o, floating, w)

\* UNTIL cuts the rule off at the same wall time as when it is read in UTC.
UntilHolds(o, floating) ==
  o.master # None /\ o.rule # None /\ o.rule.until # None =>
    \A w \in o.master.start..Horizon :
      ToInstant(o, floating, w) <= ToInstant(o, floating, o.rule.until)
      <=> ToInstant(o, Utc, w) <= ToInstant(o, Utc, o.rule.until)

\* The instances near the range, from which a rule without memory is started.
Near(o, floating, from, to) ==
  LET r == o.rule
      memory == r.unit \notin DOMAIN Margin \/ r.count > 0 \/ from = -Infinity
      first == IF memory THEN -Infinity
               ELSE from - LengthOf(o, floating) - 3 * Unit[r.unit] * r.interval - Margin[r.unit]
  IN {w \in o.master.start..Horizon :
        /\ Recurs(o, floating, w)
        /\ ToInstant(o, floating, w) > first
        /\ ToInstant(o, floating, w) < to}
=============================================================================
