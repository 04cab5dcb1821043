--------------------------- MODULE MCCalendarQuery ---------------------------
(* One event of each kind alone in a calendar nobody writes to, and a few    *)
(* events in a calendar that changes.  A day has four ticks, a week two days *)
(* and a month three.                                                        *)
EXTENDS CalendarQuery

MCUnit == [hourly |-> 1, daily |-> 4, weekly |-> 8, monthly |-> 12]
MCMargin == [hourly |-> 2, daily |-> 4, weekly |-> 4]

Zone(before, after, change) == [before |-> before, after |-> after, change |-> change]
East == Zone(2, 1, 17)
West == Zone(-2, -1, 23)

Part(start, ends, length) == [start |-> start, ends |-> ends, length |-> length, busy |-> "BUSY"]
NoDates == [w \in {} |-> None]
Plain(kind, part) ==
  [kind |-> kind, zone |-> East, master |-> part, rule |-> None, rdates |-> NoDates,
   exdates |-> {}, overrides |-> {}]

Rule(unit, interval, cycle, by, count, until) ==
  [unit |-> unit, interval |-> interval, cycle |-> cycle, by |-> by, count |-> count,
   until |-> until]

\* Rules that hold at start.
Rules(start) ==
  {Rule("hourly", 1, 1, {0}, 0, None),
   Rule("hourly", 1, 1, {0}, 20, None),
   Rule("hourly", 2, 1, {0}, 0, None),
   Rule("hourly", 5, 4, {start % 4}, 0, None),
   Rule("daily", 1, 4, {start % 4}, 0, None),
   Rule("daily", 3, 4, {start % 4}, 0, None),
   Rule("daily", 1, 4, {start % 4}, 0, 23),
   Rule("weekly", 2, 8, {start % 4, start % 8}, 0, None),
   Rule("weekly", 1, 8, {start % 8}, 2, None),
   Rule("monthly", 1, 12, {start % 12}, 0, None),
   Rule("monthly", 1, 3, {start % 3}, 0, None)}

\* Events with a rule, one of their days taken out, and an instance that moved
\* or is not busy, an RDATE before them, or one that is a period after them.
Timed(kind, part) ==
  LET start == part.start
      Override(p, busy) == [p EXCEPT !.busy = busy] @@ [of |-> start + 16]
      moved == Override(Part(start + 19, "duration", 2), "BUSY-TENTATIVE")
      freed == Override(Part(start + 16, part.ends, part.length), "free")
  IN {[Plain(kind, part) EXCEPT !.rule = r, !.rdates = d, !.exdates = x, !.overrides = v] :
        r \in Rules(start) \cup {None}, x \in {{}, {start + 8}},
        <<d, v>> \in {<<NoDates, {}>>, <<NoDates, {moved}>>, <<NoDates, {freed}>>,
                     <<[w \in {1} |-> None], {}>>, <<[w \in {30} |-> 5], {}>>}}

\* The times of an all-day event are midnights.
AllDay(part) ==
  LET moved == Part(32, "none", 0) @@ [of |-> 20]
      rules == {r \in Rules(part.start) : r.unit # "hourly" /\ r.cycle # 3}
  IN {[Plain("date", part) EXCEPT !.rule = r, !.rdates = d, !.exdates = x, !.overrides = v] :
        r \in {[q EXCEPT !.until = IF @ = None THEN None ELSE 24] : q \in rules} \cup {None},
        d \in {NoDates, [w \in {0, 32} |-> None]}, x \in {{}, {16}}, v \in {{}, {moved}}}

Single ==
  UNION {Timed("utc", Part(2, "dtend", 3)), Timed("utc", Part(5, "none", 0)),
         Timed("zoned", Part(2, "dtend", 14)), Timed("zoned", Part(5, "none", 0)),
         Timed("floating", Part(2, "duration", 2)), Timed("floating", Part(5, "dtend", 3)),
         AllDay(Part(4, "none", 0)), AllDay(Part(4, "dtend", 8))}
  \cup {[Plain("floating", None) EXCEPT !.overrides = {Part(w, "none", 0) @@ [of |-> 8]}] :
           w \in {18, 22, 26}}

Daily == [Plain("utc", Part(3, "dtend", 3)) EXCEPT !.rule = Rule("daily", 1, 4, {3}, 0, None)]
Once == Plain("utc", Part(22, "none", 0))
Rare == [Plain("utc", Part(3, "dtend", 2)) EXCEPT !.rule = Rule("weekly", 3, 8, {3}, 0, None)]
Past == Plain("utc", Part(2, "dtend", 2))

MCObjects == {Daily, Past}
MCStarts ==
  {[calendar |-> <<o, None, None>>, writes |-> 0] : o \in Single}
  \cup {[calendar |-> c, writes |-> 2] :
          c \in {<<Daily, Rare, Once>>, <<Rare, Daily, Daily>>, <<Daily, Once, None>>}}

Ask(kind, from, to, zone) ==
  [kind |-> kind, from |-> from, to |-> to, zone |-> zone, expand |-> None, names |-> <<>>]
Span(from, to) == [from |-> from, to |-> to]
MCQuestions ==
  {Ask(kind, 20, 24, zone) : kind \in {"query", "freebusy"}, zone \in {Utc, East, West}}
  \cup {Ask("query", 20, Infinity, West), Ask("query", -Infinity, 3, East),
        [Ask("query", 33, 36, Utc) EXCEPT !.expand = Span(33, 36)],
        [Ask("multiget", 0, 0, Utc) EXCEPT !.expand = Span(20, 24), !.names = <<3, 1>>]}

MCEarliest == -2
MCFirstId == <<2, 4, 6>>

\* No zone here upsets a rule.
ASSUME NoSwaps ==
  \A o \in Known, zone \in {q.zone : q \in Questions} : Steady(o, zone) /\ UntilHolds(o, zone)
=============================================================================
