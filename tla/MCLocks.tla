-------------------------------- MODULE MCLocks --------------------------------
(* Locks for TLC: two clients on a tree of two collections and a file.       *)
EXTENDS Locks, TLC

CONSTANTS c1, c2

A == <<"a">>
B == <<"b">>
AF == <<"a", "f">>
BF == <<"b", "f">>
BA == <<"b", "a">>

MCTree ==
  (Root :> Node("coll", NoParent, "")) @@ (2 :> Node("coll", Root, "a")) @@
  (3 :> Node("coll", Root, "b")) @@ (4 :> Node("file", 2, "f"))

Request(op, client, path) ==
  [op |-> op, client |-> client, path |-> path, dest |-> <<>>, scope |-> "exclusive",
   depth |-> "infinity", timeout |-> NoTimeout, overwrite |-> TRUE]
Shared(r) == [r EXCEPT !.scope = "shared"]
Flat(r) == [r EXCEPT !.depth = "zero"]
For(r, timeout) == [r EXCEPT !.timeout = timeout]
To(r, dest) == [r EXCEPT !.dest = dest]

\* Locks of all kinds above, on and below one another, the longest capped; one
\* on an unmapped URL; and each method inside, into and onto what they lock.
MCRequests ==
  {For(Request("LOCK", c1, B), 9), Request("LOCK", c2, AF),
   Shared(Request("LOCK", c2, <<>>)), Flat(Request("LOCK", c1, A)),
   Shared(Request("LOCK", c1, A)), Request("LOCK", c2, BF),
   Request("REFRESH", c1, BF), Request("REFRESH", c2, AF),
   Request("UNLOCK", c1, A), Request("UNLOCK", c2, B),
   Request("PUT", c2, AF), Request("PUT", c1, BF), Request("MKCOL", c2, BA),
   Request("DELETE", c1, AF), Request("DELETE", c2, A),
   To(Request("COPY", c2, AF), BF), To(Request("COPY", c1, B), A),
   To(Request("MOVE", c1, A), BA), To(Request("MOVE", c2, AF), BF)}

ProcSymmetry == Permutations(Procs)
=============================================================================
