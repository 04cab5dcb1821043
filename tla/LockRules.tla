------------------------------- MODULE LockRules -------------------------------
(***************************************************************************)
(* The rules of a lock every domain shares: how long one is granted, when  *)
(* it is in effect, what conflicts with it and what token satisfies it.    *)
(***************************************************************************)
EXTENDS Integers

CONSTANTS DefaultTimeout,  \* DEFAULT_LOCK_TIMEOUT_SECONDS
          MaxTimeout       \* MAX_LOCK_TIMEOUT_SECONDS

ASSUME TimeoutAssumption ==
  MaxTimeout \in Nat /\ DefaultTimeout \in Nat /\ DefaultTimeout <= MaxTimeout

Scopes == {"exclusive", "shared"}
Depths == {"zero", "infinity"}

\* A row of a lock table: target is the id of the resource it is on.
Lock(token, target, holder, scope, depth, expires) ==
  [token |-> token, target |-> target, holder |-> holder, scope |-> scope,
   depth |-> depth, expires |-> expires]

\* Expired locks stay in the table and have no effect.
IsActive(l, time) == l.expires >= time

WouldConflict_Mutant(existing, scope) ==
  scope = "exclusive" /\ \E l \in existing : l.scope = "exclusive"

WouldConflict(existing, scope) ==
  \E l \in existing : "exclusive" \in {l.scope, scope}

HasValidLockToken(effective, tokens) == \A l \in effective : l.token \in tokens

\* The header is missing or has no time that parses; Infinite is above the maximum.
NoTimeout == -1

GrantLockTimeout(timeout) ==
  IF timeout = NoTimeout THEN DefaultTimeout
  ELSE IF timeout > MaxTimeout THEN MaxTimeout ELSE timeout
=============================================================================
