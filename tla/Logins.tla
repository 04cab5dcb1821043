--------------------------------- MODULE Logins ---------------------------------
(***************************************************************************)
(* Requests on their way through the limiter and the chain of              *)
(* authentication schemes.  Each is let in by the limiter, waits for its   *)
(* tenant, has its nonce consumed if it brings one, waits for its          *)
(* credentials to be verified, and only then is counted: what was read     *)
(* before a wait may be stale after it.  Nonces and counters are in the    *)
(* memory of the process and go with it.                                   *)
(***************************************************************************)
EXTENDS DigestNonces, AuthRateLimiter, Sequences

CONSTANTS Addresses,
          Slots,           \* requests in progress at a time
          Configurations,  \* of providers: each a sequence of schemes
          MaxNonces, MaxNc, MaxNow   \* bounds

ASSUME LoginAssumption ==
  /\ IsFiniteSet(Slots) /\ Slots # {}
  /\ \A c \in Configurations : c \in Seq({"basic", "digest", "oauth2"})

VARIABLES now,        \* Date.now()
          providers,  \* the configured schemes, in order
          entries,    \* DigestNonceStore.entries
          minted,     \* nonces issued so far
          windows,    \* AuthRateLimiter.windows
          lastSweep,
          request,    \* Slots -> what each is about and how far it is
          issued,     \* history: the expiry of each nonce this process issued
          accepted    \* history: the <<nonce, nc>> let through to verification

vars == <<now, providers, entries, minted, windows, lastSweep, request, issued, accepted>>
store == <<entries, minted, issued>>
limiter == <<windows, lastSweep>>

Schemes == {"basic", "digest", "oauth2"}

Configured == {providers[i] : i \in DOMAIN providers}

Precedes(s, t) ==
  \E i, j \in DOMAIN providers : i < j /\ providers[i] = s /\ providers[j] = t

\* The scheme is "none" when there is no Authorization header, or one no scheme
\* reads; "discovery" is Basic authentication on /.well-known.
Credentials ==
  {[scheme |-> s, nonce |-> NeverIssued, nc |-> 1] : s \in Configured \cup {"none", "discovery"}}
    \cup {[scheme |-> "digest", nonce |-> n, nc |-> c] : n \in 1..minted, c \in 0..MaxNc}

\* What the rest of a request depends on, before and after its header is read.
Resolving(address, c) ==
  [step |-> "resolving", address |-> address, scheme |-> c.scheme, nonce |-> c.nonce, nc |-> c.nc]

Verifying(address, scheme) ==
  [step |-> "verifying", address |-> address, scheme |-> scheme]

Requests ==
  [step : {"resolving"}, address : Addresses,
   scheme : Schemes \cup {"none"}, nonce : Nat, nc : Nat]
    \cup [step : {"verifying"}, address : Addresses, scheme : Schemes \cup {"discovery"}]

Idle == [step |-> "idle"]

InProgress(p) == request[p].step # "idle"

Pending(address) == {p \in Slots : InProgress(p) /\ request[p].address = address}

-----------------------------------------------------------------------------
Init ==
  /\ now = 0
  /\ providers \in Configurations
  /\ entries = << >> /\ minted = 0 /\ issued = << >>
  /\ windows = << >> /\ lastSweep = -WindowLength
  /\ request = [p \in Slots |-> Idle]
  /\ accepted = {}

\* A Digest challenge is recorded, with a fresh nonce.
Challenge ==
  LET nonce == minted + 1 IN
  /\ minted < MaxNonces
  /\ minted' = nonce
  /\ entries' = GenerateNonce(entries, nonce, now)
  /\ issued' = [n \in DOMAIN issued \cup {nonce} |->
                  IF n = nonce THEN now + Ttl ELSE issued[n]]

ChallengeIf(condition) == IF condition THEN Challenge ELSE UNCHANGED store

Verify(p) ==
  request' = [request EXCEPT ![p] = Verifying(request[p].address, request[p].scheme)]

Finish(p) == request' = [request EXCEPT ![p] = Idle]

\* The limiter lets a request in; one it refuses changes nothing.
Arrive(p, address, c) ==
  /\ ~InProgress(p)
  /\ ~IsBlocked(windows, address, now)
  /\ windows' = DropEnded(windows, address, now)
  /\ request' = [request EXCEPT ![p] =
                    IF c.scheme = "discovery" THEN Verifying(address, "discovery")
                                              ELSE Resolving(address, c)]
  /\ UNCHANGED <<now, providers, store, lastSweep, accepted>>

\* A discovery request without credentials, or without a tenant, is answered at once.
DiscoveryWithoutCredentials(address) ==
  /\ ~IsBlocked(windows, address, now)
  /\ windows' = DropEnded(windows, address, now)
  /\ UNCHANGED <<now, providers, store, lastSweep, request, accepted>>

\* The tenant is unknown, or the database fails under a lookup.
Abort(p) ==
  /\ InProgress(p)
  /\ Finish(p)
  /\ UNCHANGED <<now, providers, store, limiter, accepted>>

Resolved(p) == request[p].step = "resolving"

\* No scheme of the chain reads the header: every one of them denies.
DenyUnread(p) ==
  /\ Resolved(p)
  /\ request[p].scheme \notin Configured
  /\ ChallengeIf("digest" \in Configured)
  /\ Finish(p)
  /\ UNCHANGED <<now, providers, limiter, accepted>>

NonceState(p) == ValidateNonce(entries, request[p].nonce, request[p].nc, now)

DenyNonce(p) ==
  /\ Resolved(p)
  /\ request[p].scheme = "digest" /\ "digest" \in Configured
  /\ NonceState(p) # "valid"
  /\ Challenge
  /\ Finish(p)
  /\ UNCHANGED <<now, providers, limiter, accepted>>

VerifyDigest(p) ==
  /\ Resolved(p)
  /\ request[p].scheme = "digest" /\ "digest" \in Configured
  /\ NonceState(p) = "valid"
  /\ entries' = ConsumeNonce(entries, request[p].nonce, request[p].nc)
  /\ accepted' = accepted \cup {<<request[p].nonce, request[p].nc>>}
  /\ Verify(p)
  /\ UNCHANGED <<now, providers, minted, issued, limiter>>

\* A Digest scheme ahead in the chain has denied the request by then.
VerifyOther(p) ==
  /\ Resolved(p)
  /\ request[p].scheme \in {"basic", "oauth2"} /\ request[p].scheme \in Configured
  /\ ChallengeIf(Precedes("digest", request[p].scheme))
  /\ Verify(p)
  /\ UNCHANGED <<now, providers, limiter, accepted>>

\* The credentials are right: observer.success.
Succeed(p) ==
  /\ request[p].step = "verifying"
  /\ windows' = Without(windows, {request[p].address})
  /\ Finish(p)
  /\ UNCHANGED <<now, providers, store, lastSweep, accepted>>

RecordFailure(address) ==
  LET due == now - lastSweep >= WindowLength
      swept == IF due THEN Sweep(windows, now) ELSE windows
  IN /\ windows' \in Trimmed(CountFailure(swept, address, now), address)
     /\ lastSweep' = IF due THEN now ELSE lastSweep

\* They are wrong: observer.failure, then the challenge of Digest if it is the
\* scheme itself or one behind it.
Fail(p) ==
  /\ request[p].step = "verifying"
  /\ RecordFailure(request[p].address)
  /\ ChallengeIf(IF request[p].scheme = "digest" THEN TRUE
                 ELSE Precedes(request[p].scheme, "digest"))
  /\ Finish(p)
  /\ UNCHANGED <<now, providers, accepted>>

SweepStore ==
  /\ entries' = SweepNonces(entries, now)
  /\ UNCHANGED <<now, providers, minted, issued, limiter, request, accepted>>

Tick ==
  /\ now < MaxNow
  /\ now' = now + 1
  /\ UNCHANGED <<providers, store, limiter, request, accepted>>

Restart ==
  /\ entries' = << >> /\ issued' = << >>
  /\ windows' = << >> /\ lastSweep' = -WindowLength
  /\ request' = [p \in Slots |-> Idle]
  /\ UNCHANGED <<now, providers, minted, accepted>>

Step(p) ==
  \/ \E a \in Addresses, c \in Credentials : Arrive(p, a, c)
  \/ Abort(p) \/ DenyUnread(p) \/ DenyNonce(p)
  \/ VerifyDigest(p) \/ VerifyOther(p) \/ Succeed(p) \/ Fail(p)

Next ==
  \/ \E p \in Slots : Step(p)
  \/ \E a \in Addresses : DiscoveryWithoutCredentials(a)
  \/ SweepStore \/ Tick \/ Restart

Spec == Init /\ [][Next]_vars

-----------------------------------------------------------------------------
TypeOK ==
  /\ now \in Nat /\ minted \in Nat /\ lastSweep \in Int
  /\ providers \in Configurations
  /\ DOMAIN entries \subseteq 1..minted /\ Cardinality(DOMAIN entries) <= MaxEntries
  /\ entries \in [DOMAIN entries -> [expiresAt : Nat, highestNc : Nat]]
  /\ DOMAIN windows \subseteq Addresses /\ Cardinality(DOMAIN windows) <= MaxTracked
  /\ windows \in [DOMAIN windows -> [count : Nat \ {0}, windowStart : Nat]]
  /\ request \in [Slots -> Requests \cup {Idle}]
  /\ DOMAIN issued \subseteq 1..minted
  /\ issued \in [DOMAIN issued -> Nat]
  /\ accepted \subseteq (1..minted) \X Nat

\* A pair of nonce and count is let through to verification once, and only with
\* a count above those let through before: whatever order requests with the same
\* nonce arrive in, and after the nonce was swept, dropped or lost in a restart
\* (validateAndConsumeNonce, generateNonce, sweep).
SingleUse ==
  [][\A p \in Slots :
       Resolved(p) /\ request[p].scheme = "digest" /\ request'[p].step = "verifying" =>
         \A use \in accepted : use[1] = request[p].nonce => use[2] < request[p].nc]_vars

\* A nonce the process issued is known until the grace period after its expiry is
\* over, whatever is swept, unless MaxEntries newer ones were issued: a client that
\* comes late is told "stale", and never asked for its password again
\* (generateNonce's eviction against sweep's cutoff).
NoncesRemembered ==
  \A n \in DOMAIN issued :
    now < issued[n] + StaleGrace /\ minted - n < MaxEntries =>
      n \in DOMAIN entries /\ entries[n].expiresAt = issued[n]

FailuresOf(address) == IF address \in DOMAIN windows THEN windows[address].count ELSE 0

\* The failures an address has had in its window and those it may still have, from
\* requests that passed the limiter before they were counted, exceed the limit by at
\* most the requests that ran beside the last one (retryAfterSeconds before the
\* wait, recordFailure after it).
FailuresBounded ==
  \A a \in Addresses :
    FailuresOf(a) + Cardinality(Pending(a)) < MaxFailures + Cardinality(Slots)

KeepsFailures(address) ==
  /\ address \in DOMAIN windows'
  /\ windows'[address].windowStart = windows[address].windowStart
  /\ windows'[address].count >= windows[address].count

\* Room was made for the failure of another address by dropping the oldest window.
GaveWay(address) ==
  /\ Cardinality(DOMAIN windows') = MaxTracked
  /\ \A b \in DOMAIN windows' : windows[address].windowStart <= windows'[b].windowStart
  /\ \E p \in Slots : Fail(p) /\ request[p].address # address

\* A running window neither moves, by which a block would extend itself, nor loses
\* a failure, by which it would end early, unless its address logs in, it gives way
\* to another address or the process restarts (recordFailure, recordSuccess).
WindowStands ==
  [][\A a \in Addresses :
       HasWindow(windows, a, now) =>
         \/ KeepsFailures(a)
         \/ \E p \in Slots : Succeed(p) /\ request[p].address = a
         \/ GaveWay(a)
         \/ Restart]_vars
=============================================================================
