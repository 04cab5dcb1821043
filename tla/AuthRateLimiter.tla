---------------------------- MODULE AuthRateLimiter ----------------------------
(***************************************************************************)
(* The counter of failed logins per client address: a window opens with    *)
(* the first failure, and an address with MaxFailures of them is refused   *)
(* until the window ends.                                                  *)
(***************************************************************************)
EXTENDS Integers, FiniteSets, Functions

CONSTANTS MaxFailures,   \* max; 0 switches the limiter off and is not modelled
          WindowLength,  \* windowMs
          MaxTracked     \* MAX_TRACKED_ADDRESSES

ASSUME LimiterAssumption ==
  MaxFailures \in Nat \ {0} /\ WindowLength \in Nat \ {0} /\ MaxTracked \in Nat \ {0}

HasEnded(window, time) == time - window.windowStart >= WindowLength

HasWindow(windows, address, time) ==
  address \in DOMAIN windows /\ ~HasEnded(windows[address], time)

Without(windows, addresses) == Restrict(windows, DOMAIN windows \ addresses)

IsBlocked_Mutant(windows, address, time) ==
  HasWindow(windows, address, time) /\ windows[address].count > MaxFailures

\* retryAfterSeconds is not 0.
IsBlocked(windows, address, time) ==
  HasWindow(windows, address, time) /\ windows[address].count >= MaxFailures

\* What retryAfterSeconds leaves.
DropEnded(windows, address, time) ==
  IF HasWindow(windows, address, time) THEN windows ELSE Without(windows, {address})

Sweep(windows, time) == Without(windows, {a \in DOMAIN windows : HasEnded(windows[a], time)})

CountFailure_Mutant(windows, address, time) ==
  [a \in DOMAIN windows \cup {address} |->
     IF a # address THEN windows[a]
     ELSE IF HasWindow(windows, a, time)
       THEN [count |-> windows[a].count + 1, windowStart |-> time]
       ELSE [count |-> 1, windowStart |-> time]]

CountFailure(windows, address, time) ==
  [a \in DOMAIN windows \cup {address} |->
     IF a # address THEN windows[a]
     ELSE IF HasWindow(windows, a, time)
       THEN [windows[a] EXCEPT !.count = windows[a].count + 1]
       ELSE [count |-> 1, windowStart |-> time]]

\* The others whose windows are the oldest; the map's order is that of the
\* starts, and among equal starts any may be the first.
Oldest(windows, address) ==
  LET others == DOMAIN windows \ {address} IN
  {a \in others : \A b \in others : windows[a].windowStart <= windows[b].windowStart}

\* One too many at most: the address that was just counted.
Trimmed(windows, address) ==
  IF Cardinality(DOMAIN windows) <= MaxTracked THEN {windows}
  ELSE {Without(windows, {a}) : a \in Oldest(windows, address)}
=============================================================================
