------------------------------ MODULE DigestNonces ------------------------------
(***************************************************************************)
(* The in-memory store of the nonces handed out in Digest challenges: what *)
(* each of its operations makes of the entries it holds.                   *)
(*                                                                         *)
(* A nonce is the number of its issue, which no two share, as no two hold  *)
(* the same random bits.  The order of the numbers is then the order in    *)
(* which the map was filled, by which the oldest entries are dropped.      *)
(***************************************************************************)
EXTENDS Integers, FiniteSets, Functions

CONSTANTS Ttl,         \* ttlMs
          StaleGrace,  \* staleGraceMs
          MaxEntries   \* maxEntries

ASSUME NonceAssumption ==
  Ttl \in Nat /\ StaleGrace \in Nat /\ MaxEntries \in Nat \ {0}

NeverIssued == 0

NewerThan(entries, nonce) == {n \in DOMAIN entries : n > nonce}

\* The oldest go while there are more than MaxEntries.
KeepNewest(entries) ==
  Restrict(entries, {n \in DOMAIN entries : Cardinality(NewerThan(entries, n)) < MaxEntries})

GenerateNonce(entries, nonce, time) ==
  KeepNewest([n \in DOMAIN entries \cup {nonce} |->
                IF n = nonce THEN [expiresAt |-> time + Ttl, highestNc |-> 0]
                             ELSE entries[n]])

ValidateNonce_Mutant(entries, nonce, nc, time) ==
  IF nonce \notin DOMAIN entries THEN "unknown"
  ELSE IF time >= entries[nonce].expiresAt THEN "stale"
  ELSE IF nc < entries[nonce].highestNc THEN "replay" ELSE "valid"

ValidateNonce(entries, nonce, nc, time) ==
  IF nonce \notin DOMAIN entries THEN "unknown"
  ELSE IF time >= entries[nonce].expiresAt THEN "stale"
  ELSE IF nc <= entries[nonce].highestNc THEN "replay" ELSE "valid"

ConsumeNonce(entries, nonce, nc) == [entries EXCEPT ![nonce].highestNc = nc]

SweepNonces_Mutant(entries, time) ==
  Restrict(entries, {n \in DOMAIN entries : entries[n].expiresAt > time})

\* What expired no longer than the grace period ago stays.
SweepNonces(entries, time) ==
  Restrict(entries, {n \in DOMAIN entries : entries[n].expiresAt > time - StaleGrace})
=============================================================================
