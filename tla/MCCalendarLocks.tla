---------------------------- MODULE MCCalendarLocks ----------------------------
(* CalendarLocks for TLC: two clients, one calendar, one name for objects.   *)
EXTENDS CalendarLocks, TLC

CONSTANTS c1, c2

Request(op, client, name) ==
  [op |-> op, client |-> client, name |-> name, scope |-> "exclusive",
   depth |-> "infinity", timeout |-> NoTimeout]
Shared(r) == [r EXCEPT !.scope = "shared"]
Flat(r) == [r EXCEPT !.depth = "zero"]

\* Locks on the calendar, flat and deep, and on an object, exclusive and shared,
\* one of them for longer than is granted; each writer of the two clients.
MCRequests ==
  {Request("LOCK", c1, "cal"), Shared(Request("LOCK", c2, "cal")),
   Flat(Request("LOCK", c2, "cal")),
   Request("LOCK", c1, "event"), [Shared(Request("LOCK", c2, "event")) EXCEPT !.timeout = 9],
   Request("REFRESH", c1, "event"), Request("REFRESH", c2, "cal"),
   Request("UNLOCK", c1, "event"), Request("UNLOCK", c2, "cal"),
   Request("PUT", c1, "event"), Request("PUT", c2, "event"),
   Request("DELETE", c2, "event"), Request("DELETE", c1, "cal")}

ProcSymmetry == Permutations(Procs)
=============================================================================
