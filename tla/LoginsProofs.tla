------------------------------ MODULE LoginsProofs ------------------------------
(***************************************************************************)
(* That nonces are used once and remembered, and that the limiter's        *)
(* windows and its budget hold, for all addresses, limits, lifetimes and   *)
(* numbers of requests.                                                    *)
(*                                                                         *)
(* Beyond the properties, the inductive invariant says that every entry    *)
(* is one this process issued with the expiry it still has, that a count   *)
(* accepted for a nonce is at most the highest of its entry, and that      *)
(* windows are finitely many and opened in the past.                       *)
(***************************************************************************)
EXTENDS Logins, FiniteSetTheorems, WellFoundedInduction, TLAPS

\* A nonempty set of naturals has a least element.
LEMMA Least ==
  ASSUME NEW S \in SUBSET Nat, S # {}
  PROVE  \E m \in S : \A n \in S : m <= n
<1>1. PICK m \in S : \A n \in S : ~(<<n, m>> \in OpToRel(<, Nat))
  BY NatLessThanWellFounded, WFMin
<1>2. \A n \in S : ~(n < m)
  BY <1>1 DEF OpToRel
<1> QED
  BY <1>2

\* KeepNewest leaves a subset of at most MaxEntries.
LEMMA KeepNewestBounds ==
  ASSUME NEW e, NEW k \in Nat, DOMAIN e \subseteq 1..k
  PROVE  /\ DOMAIN KeepNewest(e) \subseteq DOMAIN e
         /\ \A n \in DOMAIN KeepNewest(e) : KeepNewest(e)[n] = e[n]
         /\ Cardinality(DOMAIN KeepNewest(e)) <= MaxEntries
<1> DEFINE Kept == DOMAIN KeepNewest(e)
<1>1. /\ Kept = {n \in DOMAIN e : Cardinality(NewerThan(e, n)) < MaxEntries}
      /\ \A n \in Kept : KeepNewest(e)[n] = e[n]
  BY DEF KeepNewest, Restrict
<1> HIDE DEF Kept
<1>2. IsFiniteSet(DOMAIN e)
  <2>1. IsFiniteSet(1..k)
    BY FS_Interval
  <2> QED
    BY <2>1, FS_Subset
<1>3. IsFiniteSet(Kept) /\ Kept \in SUBSET Nat
  <2>1. Kept \in SUBSET (DOMAIN e)
    BY <1>1
  <2> QED
    BY <1>2, <2>1, FS_Subset
<1>4. CASE Kept = {}
  <2>1. Cardinality(Kept) = 0
    BY <1>4, FS_EmptySet
  <2> QED
    BY <1>1, <2>1, NonceAssumption DEF Kept
<1>5. CASE Kept # {}
  <2>1. PICK m \in Kept : \A n \in Kept : m <= n
    BY <1>3, <1>5, Least
  <2>2. Kept \ {m} \subseteq NewerThan(e, m) /\ NewerThan(e, m) \subseteq DOMAIN e
    <3>1. \A n \in Kept \ {m} : n > m
      BY <1>3, <2>1
    <3> QED
      BY <1>1, <3>1 DEF NewerThan
  <2>3. IsFiniteSet(NewerThan(e, m))
    BY <1>2, <2>2, FS_Subset
  <2>4. Cardinality(Kept \ {m}) <= Cardinality(NewerThan(e, m))
    BY <2>2, <2>3, FS_Subset
  <2>5. Cardinality(NewerThan(e, m)) < MaxEntries /\ Cardinality(NewerThan(e, m)) \in Nat
    BY <1>1, <2>1, <2>3, FS_CardinalityType
  <2>6. Cardinality(Kept \ {m}) = Cardinality(Kept) - 1 /\ Cardinality(Kept) \in Nat
    BY <1>3, <2>1, FS_RemoveElement, FS_CardinalityType
  <2> QED
    BY <1>1, <2>4, <2>5, <2>6, NonceAssumption DEF Kept
<1> QED
  BY <1>1, <1>4, <1>5 DEF Kept

\* An entry with fewer than MaxEntries numbers above it stays.
LEMMA KeepNewestKeeps ==
  ASSUME NEW e, NEW k \in Nat, DOMAIN e \subseteq 1..k,
         NEW n \in DOMAIN e, k - n < MaxEntries
  PROVE  n \in DOMAIN KeepNewest(e)
<1>1. n \in 1..k /\ NewerThan(e, n) \in SUBSET ((n + 1)..k)
  BY DEF NewerThan
<1>2. IsFiniteSet((n + 1)..k) /\ Cardinality((n + 1)..k) = k - n
  <2>1. PICK a \in Int : a = n + 1 /\ k \in Int
    BY <1>1
  <2>2. IsFiniteSet(a..k) /\ Cardinality(a..k) = IF a > k THEN 0 ELSE k - a + 1
    BY <2>1, FS_Interval
  <2> QED
    BY <1>1, <2>1, <2>2
<1>3. Cardinality(NewerThan(e, n)) <= k - n /\ Cardinality(NewerThan(e, n)) \in Nat
  BY <1>1, <1>2, FS_Subset, FS_CardinalityType
<1> QED
  BY <1>1, <1>3, NonceAssumption DEF KeepNewest, Restrict

-----------------------------------------------------------------------------
\* Every entry is one this process issued; every count accepted for a nonce that
\* is still held is at most its highest.
EntriesAgree ==
  \A n \in DOMAIN entries : n \in DOMAIN issued /\ entries[n].expiresAt = issued[n]

UsesRecorded ==
  \A use \in accepted :
    use[1] \in DOMAIN entries => use[2] <= entries[use[1]].highestNc

StoreOK ==
  /\ minted \in Nat
  /\ DOMAIN entries \subseteq 1..minted /\ Cardinality(DOMAIN entries) <= MaxEntries
  /\ entries \in [DOMAIN entries -> [expiresAt : Nat, highestNc : Nat]]
  /\ DOMAIN issued \subseteq 1..minted
  /\ issued \in [DOMAIN issued -> Nat]
  /\ accepted \subseteq (1..minted) \X Nat
  /\ EntriesAgree /\ UsesRecorded /\ NoncesRemembered

\* A window was opened in the past.
WindowsOK(w, time) ==
  /\ DOMAIN w \subseteq Addresses
  /\ IsFiniteSet(DOMAIN w) /\ Cardinality(DOMAIN w) <= MaxTracked
  /\ w \in [DOMAIN w -> [count : Nat \ {0}, windowStart : Nat]]
  /\ \A a \in DOMAIN w : w[a].windowStart <= time

RequestsOK ==
  /\ now \in Nat /\ lastSweep \in Int
  /\ providers \in Configurations
  /\ request \in [Slots -> Requests \cup {Idle}]

Inv == StoreOK /\ WindowsOK(windows, now) /\ RequestsOK /\ FailuresBounded

\* A challenge adds an entry that is agreed on and not the one to be dropped.
LEMMA ChallengeKeepsStore ==
  ASSUME StoreOK, now \in Nat, Challenge, UNCHANGED <<now, accepted>>
  PROVE  StoreOK'
<1> DEFINE nonce == minted + 1
           entry == [expiresAt |-> now + Ttl, highestNc |-> 0]
           added == [n \in DOMAIN entries \cup {nonce} |->
                       IF n = nonce THEN entry ELSE entries[n]]
<1>1. entries' = KeepNewest(added) /\ minted' = nonce
  BY DEF Challenge, GenerateNonce
<1>2. /\ DOMAIN issued' = DOMAIN issued \cup {nonce}
      /\ issued'[nonce] = now + Ttl
      /\ \A n \in DOMAIN issued : n # nonce => issued'[n] = issued[n]
      /\ issued' \in [DOMAIN issued' -> Nat]
  BY NonceAssumption DEF Challenge, StoreOK
<1>3. nonce \in Nat /\ nonce \notin DOMAIN entries /\ DOMAIN added \subseteq 1..nonce
  BY DEF StoreOK
<1>4. /\ DOMAIN entries' \subseteq DOMAIN added
      /\ \A n \in DOMAIN entries' : entries'[n] = added[n]
      /\ Cardinality(DOMAIN entries') <= MaxEntries
  BY <1>1, <1>3, KeepNewestBounds
<1>5. /\ DOMAIN added = DOMAIN entries \cup {nonce} /\ added[nonce] = entry
      /\ \A n \in DOMAIN entries : added[n] = entries[n]
  BY <1>3
<1>6. \A n \in DOMAIN added : nonce - n < MaxEntries => n \in DOMAIN entries'
  BY <1>1, <1>3, KeepNewestKeeps
<1>7. entry \in [expiresAt : Nat, highestNc : Nat]
  BY NonceAssumption
<1> HIDE DEF added, entry
<1>8. entries' \in [DOMAIN entries' -> [expiresAt : Nat, highestNc : Nat]]
  <2>1. \A n \in DOMAIN entries' : entries'[n] \in [expiresAt : Nat, highestNc : Nat]
    BY <1>4, <1>5, <1>7 DEF StoreOK
  <2>2. entries' = [n \in DOMAIN entries' |-> entries'[n]]
    BY <1>1 DEF KeepNewest, Restrict
  <2> QED
    BY <2>1, <2>2
<1>9. EntriesAgree'
  BY <1>2, <1>3, <1>4, <1>5 DEF EntriesAgree, StoreOK, entry
<1>10. UsesRecorded'
  <2>1. \A use \in accepted : use[1] # nonce
    BY DEF StoreOK
  <2> QED
    BY <1>4, <1>5, <2>1 DEF UsesRecorded, StoreOK
<1>11. NoncesRemembered'
  <2> SUFFICES ASSUME NEW n \in DOMAIN issued',
                      now < issued'[n] + StaleGrace, nonce - n < MaxEntries
               PROVE  n \in DOMAIN entries' /\ entries'[n].expiresAt = issued'[n]
    BY <1>1 DEF NoncesRemembered
  <2>1. n \in DOMAIN added
    <3>1. CASE n = nonce
      BY <1>5, <3>1
    <3>2. CASE n # nonce
      <4>1. n \in DOMAIN issued /\ issued'[n] = issued[n]
        BY <1>2, <3>2
      <4>2. n \in Nat /\ minted \in Nat
        BY <4>1 DEF StoreOK
      <4>3. minted - n < MaxEntries
        BY <4>2, NonceAssumption
      <4> QED
        BY <1>5, <4>1, <4>3 DEF NoncesRemembered, StoreOK
    <3> QED
      BY <3>1, <3>2
  <2>2. n \in DOMAIN entries'
    BY <1>6, <2>1
  <2> QED
    BY <1>9, <2>2 DEF EntriesAgree
<1> QED
  BY <1>1, <1>2, <1>3, <1>4, <1>5, <1>8, <1>9, <1>10, <1>11 DEF StoreOK

\* Consuming a nonce raises its highest count to the one accepted.
LEMMA ConsumeKeepsStore ==
  ASSUME StoreOK, NEW p \in Slots, RequestsOK, VerifyDigest(p)
  PROVE  StoreOK'
<1> DEFINE n == request[p].nonce
           c == request[p].nc
<1>1. /\ n \in DOMAIN entries /\ c > entries[n].highestNc /\ c \in Nat
      /\ entries' = [entries EXCEPT ![n].highestNc = c]
      /\ accepted' = accepted \cup {<<n, c>>}
      /\ UNCHANGED <<now, minted, issued>>
  <2>1. request[p] \in Requests /\ request[p].step = "resolving"
    BY DEF VerifyDigest, Resolved, RequestsOK, Idle
  <2>2. c \in Nat
    BY <2>1 DEF Requests
  <2> QED
    BY <2>2 DEF VerifyDigest, NonceState, ValidateNonce, ConsumeNonce, StoreOK
<1> HIDE DEF n, c
<1>2. /\ DOMAIN entries' = DOMAIN entries
      /\ entries'[n].highestNc = c
      /\ \A m \in DOMAIN entries : entries'[m].expiresAt = entries[m].expiresAt
      /\ \A m \in DOMAIN entries : m # n => entries'[m] = entries[m]
      /\ entries' \in [DOMAIN entries' -> [expiresAt : Nat, highestNc : Nat]]
  BY <1>1 DEF StoreOK
<1>3. EntriesAgree' /\ NoncesRemembered'
  BY <1>1, <1>2 DEF EntriesAgree, NoncesRemembered, StoreOK
<1>4. UsesRecorded'
  <2> SUFFICES ASSUME NEW use \in accepted', use[1] \in DOMAIN entries
               PROVE  use[2] <= entries'[use[1]].highestNc
    BY <1>2 DEF UsesRecorded
  <2>1. CASE use = <<n, c>>
    BY <1>1, <1>2, <2>1
  <2>2. CASE use \in accepted
    <3>1. use[2] \in Nat /\ use[2] <= entries[use[1]].highestNc
      BY <2>2 DEF StoreOK, UsesRecorded
    <3>2. entries[n].highestNc \in Nat
      BY <1>1 DEF StoreOK
    <3> QED
      BY <1>1, <1>2, <3>1, <3>2
  <2> QED
    BY <1>1, <2>1, <2>2
<1> QED
  BY <1>1, <1>2, <1>3, <1>4 DEF StoreOK

\* A sweep leaves what is still to be remembered.
LEMMA SweepKeepsStore ==
  ASSUME StoreOK, now \in Nat, SweepStore
  PROVE  StoreOK'
<1>1. /\ DOMAIN entries' = {n \in DOMAIN entries : entries[n].expiresAt > now - StaleGrace}
      /\ \A n \in DOMAIN entries' : entries'[n] = entries[n]
      /\ entries' = [n \in DOMAIN entries' |-> entries'[n]]
      /\ UNCHANGED <<now, minted, issued, accepted>>
  BY DEF SweepStore, SweepNonces, Restrict
<1>2. DOMAIN entries' \in SUBSET (DOMAIN entries)
  BY <1>1
<1>3. Cardinality(DOMAIN entries') <= MaxEntries
  <2>1. minted \in Int /\ 1 \in Int /\ DOMAIN entries \in SUBSET (1..minted)
    BY DEF StoreOK
  <2>2. IsFiniteSet(1..minted)
    BY <2>1, FS_Interval
  <2>3. IsFiniteSet(DOMAIN entries)
    BY <2>1, <2>2, FS_Subset
  <2>4. /\ Cardinality(DOMAIN entries') <= Cardinality(DOMAIN entries)
        /\ Cardinality(DOMAIN entries) \in Nat /\ Cardinality(DOMAIN entries') \in Nat
    BY <1>2, <2>3, FS_Subset, FS_CardinalityType
  <2> QED
    BY <2>4, NonceAssumption DEF StoreOK
<1>4. entries' \in [DOMAIN entries' -> [expiresAt : Nat, highestNc : Nat]]
  BY <1>1, <1>2 DEF StoreOK
<1>5. EntriesAgree' /\ UsesRecorded'
  BY <1>1, <1>2 DEF EntriesAgree, UsesRecorded, StoreOK
<1>6. NoncesRemembered'
  BY <1>1, NonceAssumption DEF NoncesRemembered, StoreOK
<1> QED
  BY <1>1, <1>2, <1>3, <1>4, <1>5, <1>6 DEF StoreOK
-----------------------------------------------------------------------------
\* Dropping windows keeps the rest as they are.
LEMMA WithoutKeeps ==
  ASSUME NEW w, NEW time, NEW S, WindowsOK(w, time)
  PROVE  /\ WindowsOK(Without(w, S), time)
         /\ DOMAIN Without(w, S) = DOMAIN w \ S
         /\ \A a \in DOMAIN w \ S : Without(w, S)[a] = w[a]
<1>1. /\ Without(w, S) = [a \in DOMAIN w \ S |-> w[a]]
      /\ DOMAIN w \ S \in SUBSET (DOMAIN w)
  BY DEF Without, Restrict
<1>2. /\ IsFiniteSet(DOMAIN w \ S)
      /\ Cardinality(DOMAIN w \ S) <= Cardinality(DOMAIN w)
      /\ Cardinality(DOMAIN w \ S) \in Nat /\ Cardinality(DOMAIN w) \in Nat
  BY <1>1, FS_Subset, FS_CardinalityType DEF WindowsOK
<1>3. Cardinality(DOMAIN w \ S) <= MaxTracked
  BY <1>2, LimiterAssumption DEF WindowsOK
<1> QED
  BY <1>1, <1>2, <1>3 DEF WindowsOK

\* Counting a failure opens the window of its address or adds one to it; the others
\* stay, but for one of the oldest when there are too many.
LEMMA CountKeeps ==
  ASSUME NEW w, NEW time \in Nat, WindowsOK(w, time), NEW address \in Addresses,
         NEW v \in Trimmed(CountFailure(w, address, time), address)
  PROVE  /\ WindowsOK(v, time)
         /\ address \in DOMAIN v
         /\ v[address] = IF HasWindow(w, address, time)
                          THEN [w[address] EXCEPT !.count = w[address].count + 1]
                          ELSE [count |-> 1, windowStart |-> time]
         /\ \A a \in DOMAIN v \ {address} : a \in DOMAIN w /\ v[a] = w[a]
         /\ \A a \in DOMAIN w \ DOMAIN v :
              /\ Cardinality(DOMAIN v) = MaxTracked
              /\ \A b \in DOMAIN v : w[a].windowStart <= v[b].windowStart
<1> DEFINE c == CountFailure(w, address, time)
           Window == [count : Nat \ {0}, windowStart : Nat]
           D == DOMAIN w \cup {address}
           new == IF HasWindow(w, address, time)
                  THEN [w[address] EXCEPT !.count = w[address].count + 1]
                  ELSE [count |-> 1, windowStart |-> time]
<1>1. /\ DOMAIN c = D /\ c[address] = new
      /\ \A a \in D : a # address => a \in DOMAIN w /\ c[a] = w[a]
      /\ c = [a \in D |-> c[a]]
  BY DEF CountFailure
<1>2. new \in Window /\ new.windowStart <= time
  <2>1. CASE HasWindow(w, address, time)
    <3>1. /\ w[address] \in Window /\ w[address].windowStart <= time
          /\ w[address].count + 1 \in Nat \ {0}
      BY <2>1 DEF HasWindow, WindowsOK
    <3> QED
      BY <2>1, <3>1
  <2>2. CASE ~HasWindow(w, address, time)
    BY <2>2
  <2> QED
    BY <2>1, <2>2
<1> HIDE DEF c, new
<1>3. \A a \in D : c[a] \in Window /\ c[a].windowStart <= time
  BY <1>1, <1>2 DEF WindowsOK
<1>4. /\ IsFiniteSet(D) /\ Cardinality(D) \in Nat /\ Cardinality(DOMAIN w) \in Nat
      /\ Cardinality(D) <= Cardinality(DOMAIN w) + 1
  <2>1. IsFiniteSet(DOMAIN w)
    BY DEF WindowsOK
  <2>2. /\ IsFiniteSet(D)
        /\ Cardinality(D) = IF address \in DOMAIN w THEN Cardinality(DOMAIN w)
                                                  ELSE Cardinality(DOMAIN w) + 1
    BY <2>1, FS_AddElement
  <2>3. Cardinality(D) \in Nat /\ Cardinality(DOMAIN w) \in Nat
    BY <2>1, <2>2, FS_CardinalityType
  <2> QED
    BY <2>2, <2>3
<1>5. CASE Cardinality(D) <= MaxTracked
  <2>1. v = c
    BY <1>1, <1>5 DEF Trimmed, c
  <2> QED
    BY <1>1, <1>3, <1>4, <1>5, <2>1 DEF WindowsOK, new
<1>6. CASE Cardinality(D) > MaxTracked
  <2>1. PICK x \in Oldest(c, address) : v = Without(c, {x})
    <3>1. ~(Cardinality(DOMAIN c) <= MaxTracked)
      BY <1>1, <1>4, <1>6, LimiterAssumption
    <3>2. v \in {Without(c, {a}) : a \in Oldest(c, address)}
      BY <3>1 DEF Trimmed, c
    <3> QED
      BY <3>2
  <2>2. /\ x \in D /\ x # address
        /\ \A b \in D \ {address} : c[x].windowStart <= c[b].windowStart
    BY <1>1, <2>1 DEF Oldest
  <2>3. v = [a \in D \ {x} |-> c[a]]
    BY <1>1, <2>1 DEF Without, Restrict
  <2>4. IsFiniteSet(D \ {x}) /\ Cardinality(D \ {x}) = Cardinality(D) - 1
    BY <1>4, <2>2, FS_RemoveElement
  <2>5. Cardinality(D \ {x}) = MaxTracked
    BY <1>4, <1>6, <2>4, LimiterAssumption DEF WindowsOK
  <2>6. WindowsOK(v, time)
    BY <1>3, <2>3, <2>4, <2>5, LimiterAssumption DEF WindowsOK
  <2>7. address \in DOMAIN v /\ v[address] = new
    BY <1>1, <2>2, <2>3
  <2>8. \A a \in DOMAIN v \ {address} : a \in DOMAIN w /\ v[a] = w[a]
    BY <1>1, <2>3
  <2>9. ASSUME NEW a \in DOMAIN w \ DOMAIN v, NEW b \in DOMAIN v
        PROVE  w[a].windowStart <= v[b].windowStart
    <3>1. a = x /\ w[a] = c[x] /\ v[b] = c[b] /\ b \in D
      BY <1>1, <2>2, <2>3, <2>9
    <3>2. CASE b # address
      BY <2>2, <3>1, <3>2
    <3>3. CASE b = address
      <4>1. CASE HasWindow(w, address, time)
        <5>1. D = DOMAIN w
          BY <4>1 DEF HasWindow
        <5> QED
          BY <1>4, <1>6, <5>1, LimiterAssumption DEF WindowsOK
      <4>2. CASE ~HasWindow(w, address, time)
        BY <1>1, <2>9, <3>1, <3>3, <4>2 DEF WindowsOK, new
      <4> QED
        BY <4>1, <4>2
    <3> QED
      BY <3>2, <3>3
  <2> QED
    BY <2>3, <2>5, <2>6, <2>7, <2>8, <2>9 DEF new
<1> QED
  BY <1>4, <1>5, <1>6, LimiterAssumption
-----------------------------------------------------------------------------
LEMMA TimePassesKeepsStore ==
  ASSUME StoreOK, now \in Nat, now' \in Nat, now' >= now, UNCHANGED <<store, accepted>>
  PROVE  StoreOK'
<1>1. UNCHANGED <<minted, entries, issued, accepted>>
  BY DEF store
<1>2. EntriesAgree' /\ UsesRecorded'
  BY <1>1 DEF StoreOK, EntriesAgree, UsesRecorded
<1>3. NoncesRemembered'
  <2> SUFFICES ASSUME NEW n \in DOMAIN issued,
                      now' < issued[n] + StaleGrace, minted - n < MaxEntries
               PROVE  n \in DOMAIN entries /\ entries[n].expiresAt = issued[n]
    BY <1>1 DEF NoncesRemembered
  <2>1. now < issued[n] + StaleGrace
    BY NonceAssumption DEF StoreOK
  <2> QED
    BY <2>1 DEF StoreOK, NoncesRemembered
<1> QED
  BY <1>1, <1>2, <1>3 DEF StoreOK

LEMMA RestartKeepsStore ==
  ASSUME StoreOK, Restart
  PROVE  StoreOK'
<1>1. /\ entries' = << >> /\ issued' = << >> /\ UNCHANGED <<minted, accepted>>
      /\ DOMAIN entries' = {} /\ DOMAIN issued' = {}
  BY DEF Restart
<1>2. Cardinality(DOMAIN entries') = 0
  BY <1>1, FS_EmptySet
<1>3. /\ entries' \in [DOMAIN entries' -> [expiresAt : Nat, highestNc : Nat]]
      /\ issued' \in [DOMAIN issued' -> Nat]
  BY <1>1
<1>4. EntriesAgree' /\ UsesRecorded' /\ NoncesRemembered'
  BY <1>1 DEF EntriesAgree, UsesRecorded, NoncesRemembered
<1> QED
  BY <1>1, <1>2, <1>3, <1>4, NonceAssumption DEF StoreOK

LEMMA StoreStep ==
  ASSUME StoreOK, RequestsOK, [Next]_vars
  PROVE  StoreOK'
<1> USE DEF RequestsOK
<1>1. ASSUME Challenge, UNCHANGED <<now, accepted>>
      PROVE  StoreOK'
  BY <1>1, ChallengeKeepsStore
<1>2. ASSUME UNCHANGED <<store, accepted, now>>
      PROVE  StoreOK'
  BY <1>2, TimePassesKeepsStore
<1>3. ASSUME NEW p \in Slots, Step(p)
      PROVE  StoreOK'
  <2>1. ASSUME NEW a \in Addresses, NEW c \in Credentials, Arrive(p, a, c)
        PROVE  StoreOK'
    BY <1>2, <2>1 DEF Arrive
  <2>2. CASE Abort(p)
    BY <1>2, <2>2 DEF Abort
  <2>3. CASE DenyUnread(p)
    BY <1>1, <1>2, <2>3 DEF DenyUnread, ChallengeIf
  <2>4. CASE DenyNonce(p)
    BY <1>1, <2>4 DEF DenyNonce
  <2>5. CASE VerifyDigest(p)
    BY <2>5, ConsumeKeepsStore
  <2>6. CASE VerifyOther(p)
    BY <1>1, <1>2, <2>6 DEF VerifyOther, ChallengeIf
  <2>7. CASE Succeed(p)
    BY <1>2, <2>7 DEF Succeed
  <2>8. CASE Fail(p)
    BY <1>1, <1>2, <2>8 DEF Fail, ChallengeIf
  <2> QED
    BY <1>3, <2>1, <2>2, <2>3, <2>4, <2>5, <2>6, <2>7, <2>8 DEF Step
<1>4. ASSUME NEW a \in Addresses, DiscoveryWithoutCredentials(a)
      PROVE  StoreOK'
  BY <1>2, <1>4 DEF DiscoveryWithoutCredentials
<1>5. CASE SweepStore
  BY <1>5, SweepKeepsStore
<1>6. CASE Tick
  BY <1>6, TimePassesKeepsStore DEF Tick
<1>7. CASE Restart
  BY <1>7, RestartKeepsStore
<1>8. CASE UNCHANGED vars
  BY <1>2, <1>8 DEF vars, store
<1> QED
  BY <1>3, <1>4, <1>5, <1>6, <1>7, <1>8 DEF Next

LEMMA SweptWindows ==
  ASSUME WindowsOK(windows, now), NEW due \in BOOLEAN
  PROVE  LET swept == IF due THEN Sweep(windows, now) ELSE windows IN
         /\ WindowsOK(swept, now)
         /\ \A a \in DOMAIN swept : a \in DOMAIN windows /\ swept[a] = windows[a]
         /\ \A a \in DOMAIN windows : HasWindow(windows, a, now) => a \in DOMAIN swept
<1> DEFINE ended == {a \in DOMAIN windows : HasEnded(windows[a], now)}
<1>1. /\ WindowsOK(Without(windows, ended), now)
      /\ DOMAIN Without(windows, ended) = DOMAIN windows \ ended
      /\ \A a \in DOMAIN windows \ ended : Without(windows, ended)[a] = windows[a]
  <2> HIDE DEF ended
  <2> QED
    BY WithoutKeeps
<1>2. \A a \in ended : ~HasWindow(windows, a, now)
  BY DEF HasWindow
<1>3. Sweep(windows, now) = Without(windows, ended)
  BY DEF Sweep
<1> HIDE DEF ended
<1>4. CASE due
  BY <1>1, <1>2, <1>3, <1>4
<1>5. CASE ~due
  BY <1>5
<1> QED
  BY <1>4, <1>5

\* What becomes of the windows in a step: those of one address may go, a failure of
\* one is counted after ended windows are swept, or all go.
LEMMA LimiterStep ==
  ASSUME WindowsOK(windows, now), RequestsOK, [Next]_vars
  PROVE  WindowsOK(windows', now')
<1> USE DEF RequestsOK
<1>1. ASSUME UNCHANGED <<windows, now>>
      PROVE  WindowsOK(windows', now')
  BY <1>1
<1>2. ASSUME NEW S, windows' = Without(windows, S), UNCHANGED now
      PROVE  WindowsOK(windows', now')
  BY <1>2, WithoutKeeps
<1>3. ASSUME NEW a, windows' = DropEnded(windows, a, now), UNCHANGED now
      PROVE  WindowsOK(windows', now')
  BY <1>1, <1>2, <1>3 DEF DropEnded
<1>4. ASSUME NEW p \in Slots, Step(p)
      PROVE  WindowsOK(windows', now')
  <2>1. ASSUME NEW a \in Addresses, NEW c \in Credentials, Arrive(p, a, c)
        PROVE  WindowsOK(windows', now')
    BY <1>3, <2>1 DEF Arrive
  <2>2. CASE Abort(p) \/ DenyUnread(p) \/ DenyNonce(p) \/ VerifyDigest(p) \/ VerifyOther(p)
    BY <1>1, <2>2 DEF Abort, DenyUnread, DenyNonce, VerifyDigest, VerifyOther, limiter
  <2>3. CASE Succeed(p)
    BY <1>2, <2>3 DEF Succeed
  <2>4. CASE Fail(p)
    <3> DEFINE a == request[p].address
               due == now - lastSweep >= WindowLength
               swept == IF due THEN Sweep(windows, now) ELSE windows
    <3>1. /\ windows' \in Trimmed(CountFailure(swept, a, now), a)
          /\ UNCHANGED now
      BY <2>4 DEF Fail, RecordFailure
    <3>2. WindowsOK(swept, now)
      BY WithoutKeeps DEF Sweep
    <3>3. a \in Addresses
      BY <2>4 DEF Fail, Requests, Idle
    <3> HIDE DEF swept, a
    <3> QED
      BY <3>1, <3>2, <3>3, CountKeeps
  <2> QED
    BY <1>4, <2>1, <2>2, <2>3, <2>4 DEF Step
<1>5. ASSUME NEW a \in Addresses, DiscoveryWithoutCredentials(a)
      PROVE  WindowsOK(windows', now')
  BY <1>3, <1>5 DEF DiscoveryWithoutCredentials
<1>6. CASE SweepStore
  BY <1>1, <1>6 DEF SweepStore, limiter
<1>7. CASE Tick
  BY <1>7 DEF Tick, limiter, WindowsOK
<1>8. CASE Restart
  <2>1. windows' = << >> /\ DOMAIN windows' = {}
    BY <1>8 DEF Restart
  <2>2. IsFiniteSet({}) /\ Cardinality({}) = 0
    BY FS_EmptySet
  <2>3. windows' \in [DOMAIN windows' -> [count : Nat \ {0}, windowStart : Nat]]
    BY <2>1
  <2> QED
    BY <2>1, <2>2, <2>3, LimiterAssumption DEF WindowsOK
<1>9. CASE UNCHANGED vars
  BY <1>1, <1>9 DEF vars
<1> QED
  BY <1>4, <1>5, <1>6, <1>7, <1>8, <1>9 DEF Next
-----------------------------------------------------------------------------
\* What a step makes of the request of one slot.
LEMMA RequestStep ==
  ASSUME RequestsOK, WindowsOK(windows, now), StoreOK, [Next]_vars
  PROVE  RequestsOK'
<1> USE DEF RequestsOK
<1>1. providers \in Seq(Schemes)
  BY LoginAssumption DEF Schemes
<1>2. \A i \in DOMAIN providers : providers[i] \in Schemes
  BY <1>1
<1>3. ASSUME NEW p \in Slots, Step(p)
      PROVE  RequestsOK'
  <2>1. UNCHANGED <<now, providers>>
    BY <1>3 DEF Step, Arrive, Abort, DenyUnread, DenyNonce, VerifyDigest, VerifyOther, Succeed, Fail
  <2>2. lastSweep' \in Int
    <3>1. CASE Fail(p)
      <4>1. lastSweep' \in {now, lastSweep}
        BY <3>1 DEF Fail, RecordFailure
      <4> QED
        BY <4>1
    <3>2. CASE ~Fail(p)
      <4>1. UNCHANGED lastSweep
        BY <1>3, <3>2 DEF Step, Arrive, Abort, DenyUnread, DenyNonce, VerifyDigest, VerifyOther,
                          Succeed, limiter
      <4> QED
        BY <4>1
    <3> QED
      BY <3>1, <3>2
  <2>3. ASSUME NEW a \in Addresses, NEW c \in Credentials, Arrive(p, a, c)
        PROVE  request' \in [Slots -> Requests \cup {Idle}]
    <3>1. c.nonce \in Nat /\ c.nc \in Nat /\ c.scheme \in Schemes \cup {"none", "discovery"}
      BY <1>2 DEF Credentials, Configured, Schemes, NeverIssued, StoreOK
    <3>2. CASE c.scheme = "discovery"
      BY <2>3, <3>2 DEF Arrive, Verifying, Requests
    <3>3. CASE c.scheme # "discovery"
      BY <2>3, <3>1, <3>3 DEF Arrive, Resolving, Requests
    <3> QED
      BY <3>2, <3>3
  <2>4. ASSUME Finish(p)
        PROVE  request' \in [Slots -> Requests \cup {Idle}]
    BY <2>4 DEF Finish
  <2>5. ASSUME Verify(p), request[p].step = "resolving", request[p].scheme # "none"
        PROVE  request' \in [Slots -> Requests \cup {Idle}]
    <3>1. request[p].address \in Addresses /\ request[p].scheme \in Schemes
      BY <2>5 DEF Requests, Idle
    <3> QED
      BY <2>5, <3>1 DEF Verify, Verifying, Requests
  <2>6. request' \in [Slots -> Requests \cup {Idle}]
    BY <1>3, <2>3, <2>4, <2>5 DEF Step, Abort, DenyUnread, DenyNonce, VerifyDigest, VerifyOther,
                                  Succeed, Fail, Resolved
  <2> QED
    BY <2>1, <2>2, <2>6
<1>4. CASE Restart
  BY <1>4, LimiterAssumption DEF Restart
<1>5. CASE Tick
  BY <1>5 DEF Tick, limiter
<1>6. CASE SweepStore
  BY <1>6 DEF SweepStore, limiter
<1>7. ASSUME NEW a \in Addresses, DiscoveryWithoutCredentials(a)
      PROVE  RequestsOK'
  BY <1>7 DEF DiscoveryWithoutCredentials
<1>8. CASE UNCHANGED vars
  BY <1>8 DEF vars
<1> QED
  BY <1>3, <1>4, <1>5, <1>6, <1>7, <1>8 DEF Next

LEMMA SlotsBound ==
  ASSUME NEW S \in SUBSET Slots
  PROVE  /\ IsFiniteSet(S) /\ Cardinality(S) \in Nat /\ Cardinality(Slots) \in Nat
         /\ Cardinality(S) <= Cardinality(Slots)
BY LoginAssumption, FS_Subset, FS_CardinalityType

Budget(a) == FailuresOf(a) + Cardinality(Pending(a)) < MaxFailures + Cardinality(Slots)

LEMMA FailuresAreNatural ==
  ASSUME WindowsOK(windows, now), NEW a
  PROVE  FailuresOf(a) \in Nat /\ (a \in DOMAIN windows => FailuresOf(a) # 0)
BY DEF WindowsOK, FailuresOf

\* A step that adds neither a failure nor a request of an address keeps its budget.
LEMMA BudgetKept ==
  ASSUME NEW a, Budget(a), WindowsOK(windows, now), WindowsOK(windows', now'),
         Pending(a)' \in SUBSET Pending(a), FailuresOf(a)' <= FailuresOf(a)
  PROVE  Budget(a)'
<1>1. Pending(a) \in SUBSET Slots /\ Pending(a)' \in SUBSET Slots
  BY DEF Pending
<1>2. /\ Cardinality(Pending(a)') <= Cardinality(Pending(a))
      /\ Cardinality(Pending(a)') \in Nat /\ Cardinality(Pending(a)) \in Nat
      /\ Cardinality(Slots) \in Nat
  BY <1>1, SlotsBound, FS_Subset
<1>3. FailuresOf(a) \in Nat
  BY FailuresAreNatural
<1>4. FailuresOf(a)' \in Nat
  BY DEF WindowsOK, FailuresOf
<1> QED
  BY <1>2, <1>3, <1>4, LimiterAssumption DEF Budget

\* A request that the limiter lets in leaves room for itself.
LEMMA ArriveKeepsBudget ==
  ASSUME NEW a \in Addresses, Budget(a), WindowsOK(windows, now), WindowsOK(windows', now'),
         RequestsOK, NEW p \in Slots, NEW b \in Addresses, NEW c \in Credentials, Arrive(p, b, c)
  PROVE  Budget(a)'
<1>1. windows' = DropEnded(windows, b, now) /\ ~IsBlocked(windows, b, now)
  BY DEF Arrive
<1>2. CASE a = b
  <2>1. FailuresOf(a)' < MaxFailures /\ FailuresOf(a)' \in Nat
    <3>1. CASE HasWindow(windows, b, now)
      <4>1. windows' = windows /\ windows[a].count < MaxFailures
        BY <1>1, <1>2, <3>1, LimiterAssumption DEF DropEnded, IsBlocked, HasWindow, WindowsOK
      <4> QED
        BY <1>2, <3>1, <4>1 DEF FailuresOf, HasWindow, WindowsOK
    <3>2. CASE ~HasWindow(windows, b, now)
      <4>1. a \notin DOMAIN windows'
        BY <1>1, <1>2, <3>2 DEF DropEnded, Without, Restrict
      <4> QED
        BY <4>1, LimiterAssumption DEF FailuresOf
    <3> QED
      BY <3>1, <3>2
  <2>2. Pending(a)' \in SUBSET Slots
    BY DEF Pending
  <2>3. /\ Cardinality(Pending(a)') \in Nat /\ Cardinality(Slots) \in Nat
        /\ Cardinality(Pending(a)') <= Cardinality(Slots)
    BY <2>2, SlotsBound
  <2> QED
    BY <2>1, <2>3, LimiterAssumption DEF Budget
<1>3. CASE a # b
  <2>1. FailuresOf(a)' <= FailuresOf(a)
    <3>1. CASE HasWindow(windows, b, now)
      BY <1>1, <3>1, FailuresAreNatural DEF DropEnded, FailuresOf
    <3>2. CASE ~HasWindow(windows, b, now)
      <4>1. /\ DOMAIN windows' = DOMAIN windows \ {b}
            /\ \A x \in DOMAIN windows \ {b} : windows'[x] = windows[x]
        BY <1>1, <3>2, WithoutKeeps DEF DropEnded
      <4> QED
        BY <1>3, <4>1, FailuresAreNatural DEF FailuresOf
    <3> QED
      BY <3>1, <3>2
  <2>2. Pending(a)' \in SUBSET Pending(a)
    BY <1>3 DEF Arrive, Pending, InProgress, Verifying, Resolving, RequestsOK
  <2> QED
    BY <2>1, <2>2, BudgetKept
<1> QED
  BY <1>2, <1>3

\* A failure counts one more and one less is in progress; a new window counts one.
LEMMA FailKeepsBudget ==
  ASSUME NEW a \in Addresses, Budget(a), WindowsOK(windows, now), WindowsOK(windows', now'),
         RequestsOK, NEW p \in Slots, Fail(p)
  PROVE  Budget(a)'
<1> DEFINE b == request[p].address
           due == now - lastSweep >= WindowLength
           swept == IF due THEN Sweep(windows, now) ELSE windows
<1>1. /\ b \in Addresses /\ now \in Nat /\ InProgress(p)
      /\ windows' \in Trimmed(CountFailure(swept, b, now), b)
      /\ request' = [request EXCEPT ![p] = Idle]
  BY DEF Fail, RecordFailure, Requests, Idle, RequestsOK, InProgress, Finish
<1>2. /\ WindowsOK(swept, now)
      /\ \A x \in DOMAIN swept : x \in DOMAIN windows /\ swept[x] = windows[x]
  BY SweptWindows
<1>3. Pending(a)' = IF a = b THEN Pending(a) \ {p} ELSE Pending(a)
  BY <1>1 DEF Pending, InProgress, RequestsOK, Idle
<1> HIDE DEF swept, b
<1>4. /\ b \in DOMAIN windows'
      /\ windows'[b] = IF HasWindow(swept, b, now)
                       THEN [swept[b] EXCEPT !.count = swept[b].count + 1]
                       ELSE [count |-> 1, windowStart |-> now]
      /\ \A x \in DOMAIN windows' \ {b} : x \in DOMAIN swept /\ windows'[x] = swept[x]
  BY <1>1, <1>2, CountKeeps
<1>5. CASE a # b
  <2>1. FailuresOf(a)' <= FailuresOf(a)
    BY <1>2, <1>4, <1>5, FailuresAreNatural DEF FailuresOf
  <2> QED
    BY <1>3, <1>5, <2>1, BudgetKept
<1>6. CASE a = b
  <2>1. p \in Pending(a) /\ Pending(a) \in SUBSET Slots
    BY <1>1, <1>6 DEF Pending, b
  <2>2. /\ Cardinality(Pending(a)') = Cardinality(Pending(a)) - 1
        /\ Cardinality(Pending(a)) \in Nat /\ Cardinality(Slots) \in Nat
        /\ Cardinality(Pending(a)) <= Cardinality(Slots)
    BY <1>3, <1>6, <2>1, SlotsBound, FS_RemoveElement
  <2>3. FailuresOf(a)' = 1 \/ FailuresOf(a)' = FailuresOf(a) + 1
    <3>1. CASE HasWindow(swept, b, now)
      <4>1. /\ swept[b] \in [count : Nat \ {0}, windowStart : Nat]
            /\ b \in DOMAIN windows /\ swept[b] = windows[b]
        BY <1>2, <3>1 DEF HasWindow, WindowsOK
      <4> QED
        BY <1>4, <1>6, <3>1, <4>1 DEF FailuresOf
    <3>2. CASE ~HasWindow(swept, b, now)
      BY <1>4, <1>6, <3>2 DEF FailuresOf
    <3> QED
      BY <3>1, <3>2
  <2>4. FailuresOf(a) \in Nat
    BY FailuresAreNatural
  <2> QED
    BY <2>2, <2>3, <2>4, LimiterAssumption DEF Budget
<1> QED
  BY <1>5, <1>6

LEMMA BudgetStep ==
  ASSUME Inv, WindowsOK(windows', now'), [Next]_vars, NEW a \in Addresses
  PROVE  Budget(a)'
<1>1. Budget(a) /\ WindowsOK(windows, now) /\ RequestsOK
  BY DEF Inv, FailuresBounded, Budget
<1>2. ASSUME NEW S, windows' = Without(windows, S), Pending(a)' \in SUBSET Pending(a)
      PROVE  Budget(a)'
  <2>1. /\ DOMAIN windows' = DOMAIN windows \ S
        /\ \A x \in DOMAIN windows \ S : windows'[x] = windows[x]
    BY <1>1, <1>2, WithoutKeeps
  <2>2. FailuresOf(a)' <= FailuresOf(a)
    BY <1>1, <2>1, FailuresAreNatural DEF FailuresOf
  <2> QED
    BY <1>1, <1>2, <2>2, BudgetKept
<1>3. ASSUME UNCHANGED windows, Pending(a)' \in SUBSET Pending(a)
      PROVE  Budget(a)'
  BY <1>1, <1>3, BudgetKept, FailuresAreNatural DEF FailuresOf
<1>4. ASSUME NEW p \in Slots, Step(p)
      PROVE  Budget(a)'
  <2>1. ASSUME NEW b \in Addresses, NEW c \in Credentials, Arrive(p, b, c)
        PROVE  Budget(a)'
    BY <1>1, <2>1, ArriveKeepsBudget
  <2>2. CASE Abort(p) \/ DenyUnread(p) \/ DenyNonce(p)
    <3>1. UNCHANGED windows /\ Finish(p)
      BY <2>2 DEF Abort, DenyUnread, DenyNonce, limiter
    <3>2. Pending(a)' \in SUBSET Pending(a)
      BY <1>1, <3>1 DEF Finish, Pending, InProgress, Idle, RequestsOK
    <3> QED
      BY <1>3, <3>1, <3>2
  <2>3. CASE VerifyDigest(p) \/ VerifyOther(p)
    <3>1. UNCHANGED windows /\ Verify(p) /\ InProgress(p)
      BY <2>3 DEF VerifyDigest, VerifyOther, limiter, Resolved, InProgress
    <3>2. Pending(a)' \in SUBSET Pending(a)
      BY <1>1, <3>1 DEF Verify, Verifying, Pending, InProgress, RequestsOK
    <3> QED
      BY <1>3, <3>1, <3>2
  <2>4. CASE Succeed(p)
    <3>1. Pending(a)' \in SUBSET Pending(a)
      BY <1>1, <2>4 DEF Succeed, Finish, Pending, InProgress, Idle, RequestsOK
    <3> QED
      BY <1>2, <2>4, <3>1 DEF Succeed
  <2>5. CASE Fail(p)
    BY <1>1, <2>5, FailKeepsBudget
  <2> QED
    BY <1>4, <2>1, <2>2, <2>3, <2>4, <2>5 DEF Step
<1>5. ASSUME NEW b \in Addresses, DiscoveryWithoutCredentials(b)
      PROVE  Budget(a)'
  <2>1. Pending(a)' = Pending(a)
    BY <1>5 DEF DiscoveryWithoutCredentials, Pending, InProgress
  <2> QED
    BY <1>2, <1>3, <1>5, <2>1 DEF DiscoveryWithoutCredentials, DropEnded
<1>6. CASE SweepStore \/ Tick \/ UNCHANGED vars
  <2>1. UNCHANGED windows /\ Pending(a)' = Pending(a)
    BY <1>6 DEF SweepStore, Tick, vars, limiter, Pending, InProgress
  <2> QED
    BY <1>3, <2>1
<1>7. CASE Restart
  <2>1. FailuresOf(a)' = 0
    BY <1>7 DEF Restart, FailuresOf
  <2>2. Pending(a)' = {}
    BY <1>7 DEF Restart, Pending, InProgress, Idle
  <2>3. FailuresOf(a)' <= FailuresOf(a)
    BY <1>1, <2>1, FailuresAreNatural
  <2> QED
    BY <1>1, <2>2, <2>3, BudgetKept
<1> QED
  BY <1>4, <1>5, <1>6, <1>7 DEF Next

-----------------------------------------------------------------------------
LEMMA InitInv == Init => Inv
<1> SUFFICES ASSUME Init PROVE Inv
  OBVIOUS
<1>1. /\ DOMAIN entries = {} /\ DOMAIN issued = {} /\ DOMAIN windows = {}
      /\ IsFiniteSet({}) /\ Cardinality({}) = 0
  BY FS_EmptySet DEF Init
<1>2. StoreOK
  <2>1. /\ entries \in [DOMAIN entries -> [expiresAt : Nat, highestNc : Nat]]
        /\ issued \in [DOMAIN issued -> Nat]
    BY <1>1 DEF Init
  <2> QED
    BY <1>1, <2>1, NonceAssumption
       DEF Init, StoreOK, EntriesAgree, UsesRecorded, NoncesRemembered
<1>3. WindowsOK(windows, now)
  <2>1. windows \in [DOMAIN windows -> [count : Nat \ {0}, windowStart : Nat]]
    BY <1>1 DEF Init
  <2> QED
    BY <1>1, <2>1, LimiterAssumption DEF WindowsOK
<1>4. RequestsOK
  BY LimiterAssumption DEF Init, RequestsOK
<1>5. ASSUME NEW a \in Addresses
      PROVE  Budget(a)
  <2>1. FailuresOf(a) = 0 /\ Pending(a) = {}
    BY <1>1 DEF FailuresOf, Pending, InProgress, Init, Idle
  <2>2. Cardinality(Slots) \in Nat
    BY SlotsBound
  <2> QED
    BY <1>1, <2>1, <2>2, LimiterAssumption DEF Budget
<1> QED
  BY <1>2, <1>3, <1>4, <1>5 DEF Inv, FailuresBounded, Budget

LEMMA NextInv == Inv /\ [Next]_vars => Inv'
<1> SUFFICES ASSUME Inv, [Next]_vars PROVE Inv'
  OBVIOUS
<1>1. StoreOK'
  BY StoreStep DEF Inv
<1>2. WindowsOK(windows', now')
  BY LimiterStep DEF Inv
<1>3. RequestsOK'
  BY RequestStep DEF Inv
<1>4. \A a \in Addresses : Budget(a)'
  BY <1>2, BudgetStep
<1> QED
  BY <1>1, <1>2, <1>3, <1>4 DEF Inv, FailuresBounded, Budget

\* The inductive invariant holds in every state.
THEOREM Inductive == Spec => []Inv
BY InitInv, NextInv, PTL DEF Spec

\* Every variable has its type, and neither map outgrows its limit (TypeOK).
THEOREM TypeCorrect == Spec => []TypeOK
<1>1. Inv => TypeOK
  BY DEF Inv, StoreOK, WindowsOK, RequestsOK, TypeOK
<1> QED
  BY <1>1, Inductive, PTL

\* An issued nonce is known until its grace period is over or MaxEntries newer ones
\* were issued, for all lifetimes and limits (NoncesRemembered).
THEOREM Remembered == Spec => []NoncesRemembered
<1>1. Inv => NoncesRemembered
  BY DEF Inv, StoreOK
<1> QED
  BY <1>1, Inductive, PTL

\* Failures and requests that may yet fail stay within the limit and the requests
\* that run side by side, for all limits and numbers of them (FailuresBounded).
THEOREM WithinBudget == Spec => []FailuresBounded
<1>1. Inv => FailuresBounded
  BY DEF Inv
<1> QED
  BY <1>1, Inductive, PTL

\* No pair of nonce and count is let through to verification twice, and counts only
\* rise, for all nonces, counts and restarts (SingleUse).
THEOREM UsedOnce == Spec => SingleUse
<1> DEFINE Once ==
      \A p \in Slots :
        Resolved(p) /\ request[p].scheme = "digest" /\ request'[p].step = "verifying" =>
          \A use \in accepted : use[1] = request[p].nonce => use[2] < request[p].nc
<1>1. ASSUME Inv, [Next]_vars PROVE [Once]_vars
  <2> SUFFICES ASSUME NEW p \in Slots, Resolved(p), request[p].scheme = "digest",
                      request'[p].step = "verifying",
                      NEW use \in accepted, use[1] = request[p].nonce
               PROVE  use[2] < request[p].nc
    OBVIOUS
  <2>1. RequestsOK /\ StoreOK
    BY <1>1 DEF Inv
  <2>2. request'[p] # request[p] /\ request'[p] # Idle
    BY DEF Resolved, Idle
  <2>3. PICK q \in Slots : Step(q)
    BY <1>1, <2>1, <2>2 DEF Next, DiscoveryWithoutCredentials, SweepStore, Tick, Restart, vars,
                            RequestsOK
  <2>4. q = p
    BY <2>1, <2>2, <2>3 DEF RequestsOK, Step, Arrive, Abort, DenyUnread, DenyNonce, VerifyDigest,
                            VerifyOther, Succeed, Fail, Finish, Verify
  <2>5. VerifyDigest(p)
    BY <2>1, <2>2, <2>3, <2>4 DEF RequestsOK, Step, Arrive, InProgress, Resolved, Abort,
                            DenyUnread, DenyNonce, VerifyOther, Succeed, Fail, Finish
  <2>6. /\ request[p].nonce \in DOMAIN entries /\ request[p].nc \in Nat
        /\ request[p].nc > entries[request[p].nonce].highestNc
    BY <2>1, <2>5 DEF VerifyDigest, Resolved, NonceState, ValidateNonce, RequestsOK, Requests, Idle,
                      StoreOK
  <2>7. use[2] \in Nat /\ use[2] <= entries[use[1]].highestNc
    BY <2>1, <2>6 DEF StoreOK, UsesRecorded
  <2>8. entries[use[1]].highestNc \in Nat
    BY <2>1, <2>6 DEF StoreOK
  <2> QED
    BY <2>6, <2>7, <2>8
<1> HIDE DEF Once
<1>2. Spec => [][Once]_vars
  BY <1>1, Inductive, PTL DEF Spec
<1> QED
  BY <1>2 DEF SingleUse, Once

\* A running window keeps its start and its failures unless its address logs in, it
\* gives way or the process restarts, for all limits (WindowStands).
THEOREM WindowsStand == Spec => WindowStands
<1> DEFINE Stands(a) ==
             \/ KeepsFailures(a)
             \/ \E p \in Slots : Succeed(p) /\ request[p].address = a
             \/ GaveWay(a)
             \/ Restart
           AllStand == \A a \in Addresses : HasWindow(windows, a, now) => Stands(a)
<1>1. ASSUME Inv, [Next]_vars PROVE [AllStand]_vars
  <2> SUFFICES ASSUME NEW a \in Addresses, HasWindow(windows, a, now), Next
               PROVE  Stands(a)
    BY <1>1
  <2>1. /\ WindowsOK(windows, now) /\ RequestsOK
        /\ a \in DOMAIN windows /\ windows[a].count \in Nat
    BY <1>1 DEF Inv, HasWindow, WindowsOK
  <2>2. ASSUME UNCHANGED windows PROVE Stands(a)
    BY <2>1, <2>2 DEF KeepsFailures
  <2>3. ASSUME NEW b, b # a, windows' = Without(windows, {b}) PROVE Stands(a)
    <3>1. a \in DOMAIN windows' /\ windows'[a] = windows[a]
      BY <2>1, <2>3 DEF Without, Restrict
    <3> QED
      BY <2>1, <3>1 DEF KeepsFailures
  <2>4. ASSUME NEW b, windows' = DropEnded(windows, b, now) PROVE Stands(a)
    BY <2>2, <2>3, <2>4 DEF DropEnded
  <2>5. ASSUME NEW p \in Slots, Fail(p) PROVE Stands(a)
    <3> DEFINE b == request[p].address
               due == now - lastSweep >= WindowLength
               swept == IF due THEN Sweep(windows, now) ELSE windows
    <3>1. /\ b \in Addresses /\ now \in Nat
          /\ windows' \in Trimmed(CountFailure(swept, b, now), b)
      BY <2>1, <2>5 DEF Fail, RecordFailure, RequestsOK, Requests, Idle
    <3>2. /\ WindowsOK(swept, now) /\ a \in DOMAIN swept /\ swept[a] = windows[a]
      BY <2>1, SweptWindows
    <3> HIDE DEF swept, b
    <3>3. /\ b \in DOMAIN windows'
          /\ windows'[b] = IF HasWindow(swept, b, now)
                           THEN [swept[b] EXCEPT !.count = swept[b].count + 1]
                           ELSE [count |-> 1, windowStart |-> now]
          /\ \A x \in DOMAIN windows' \ {b} : x \in DOMAIN swept /\ windows'[x] = swept[x]
          /\ \A x \in DOMAIN swept \ DOMAIN windows' :
               /\ Cardinality(DOMAIN windows') = MaxTracked
               /\ \A y \in DOMAIN windows' : swept[x].windowStart <= windows'[y].windowStart
      BY <3>1, <3>2, CountKeeps
    <3>4. CASE a = b
      <4>1. HasWindow(swept, b, now)
        BY <3>2, <3>4 DEF HasWindow
      <4>2. swept[b] \in [count : Nat \ {0}, windowStart : Nat]
        BY <3>2, <3>4 DEF WindowsOK
      <4> QED
        BY <3>2, <3>3, <3>4, <4>1, <4>2 DEF KeepsFailures
    <3>5. CASE a # b /\ a \in DOMAIN windows'
      BY <2>1, <3>2, <3>3, <3>5 DEF KeepsFailures
    <3>6. CASE a # b /\ a \notin DOMAIN windows'
      BY <2>5, <3>2, <3>3, <3>6 DEF GaveWay, b
    <3> QED
      BY <3>4, <3>5, <3>6
  <2>6. ASSUME NEW p \in Slots, Step(p) PROVE Stands(a)
    <3>1. ASSUME NEW b \in Addresses, NEW c \in Credentials, Arrive(p, b, c)
          PROVE  Stands(a)
      BY <2>4, <3>1 DEF Arrive
    <3>2. CASE Abort(p) \/ DenyUnread(p) \/ DenyNonce(p) \/ VerifyDigest(p) \/ VerifyOther(p)
      BY <2>2, <3>2 DEF Abort, DenyUnread, DenyNonce, VerifyDigest, VerifyOther, limiter
    <3>3. CASE Succeed(p)
      BY <2>3, <3>3 DEF Succeed
    <3> QED
      BY <2>5, <2>6, <3>1, <3>2, <3>3 DEF Step
  <2>7. ASSUME NEW b \in Addresses, DiscoveryWithoutCredentials(b) PROVE Stands(a)
    BY <2>4, <2>7 DEF DiscoveryWithoutCredentials
  <2>8. CASE SweepStore \/ Tick
    BY <2>2, <2>8 DEF SweepStore, Tick, limiter
  <2>9. CASE Restart
    BY <2>9
  <2> QED
    BY <2>6, <2>7, <2>8, <2>9 DEF Next
<1> HIDE DEF AllStand
<1>2. Spec => [][AllStand]_vars
  BY <1>1, Inductive, PTL DEF Spec
<1> QED
  BY <1>2 DEF WindowStands, AllStand
=============================================================================
