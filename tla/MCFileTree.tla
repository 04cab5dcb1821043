------------------------------ MODULE MCFileTree ------------------------------
(* FileTree for TLC: a small tree and the requests clients send to it.       *)
EXTENDS FileTree, TLC

CONSTANTS u1, u2, bx, by

MCSize == (bx :> 1) @@ (by :> 2)
MCUserLimit == (u1 :> 4) @@ (u2 :> 3)

\* /a/ (2), /a/b of u1 with bx (1), /b of u2 with by (2), made by MKCOL and PUTs.
A == <<"a">>
B == <<"b">>
C == <<"c">>
AB == <<"a", "b">>
AC == <<"a", "c">>

Made(d, parent, name) == RecordChange(InsertColl(d, parent, name), parent, name, "added")
Stored(d, parent, name, body, user) ==
  RecordChange(InsertFile(ApplyQuotaDelta(d, user, Size[body]),
                          FileRow(parent, name, body, Size[body], user), body),
               parent, name, "added")

SmallTree ==
  Stored(Stored(Made(NewTenant, Root, "a"), 2, "b", bx, u1), Root, "b", by, u2)

Request(op, user, path, dest, body) ==
  [op |-> op, user |-> user, path |-> path, dest |-> dest, body |-> body,
   ifMatch |-> NoMatch, overwrite |-> TRUE, recursive |-> TRUE]

Put(user, path, body) == Request("PUT", user, path, <<>>, body)
PutIf(user, path, body, etag) == [Put(user, path, body) EXCEPT !.ifMatch = etag]
MkCol(path) == Request("MKCOL", u1, path, <<>>, bx)
Del(path) == Request("DELETE", u1, path, <<>>, bx)
Cp(user, path, dest) == Request("COPY", user, path, dest, bx)
Mv(path, dest) == Request("MOVE", u1, path, dest, bx)

\* All five operations over files and collections, with and without a
\* destination to overwrite, into the source itself, onto an ancestor of the
\* source, and shallow.
MCRequests ==
  {Put(u1, B, bx), Put(u2, AB, by), Put(u1, C, by), PutIf(u2, B, bx, by),
   MkCol(C), MkCol(AC),
   Del(A), Del(B), Del(AB),
   Cp(u1, A, C), Cp(u2, AB, B), Cp(u1, B, A), Cp(u2, A, AC), Cp(u1, AC, A),
   [Cp(u1, A, C) EXCEPT !.recursive = FALSE],
   [Cp(u1, B, AB) EXCEPT !.overwrite = FALSE],
   Mv(A, C), Mv(AB, B), Mv(B, C), Mv(A, AC), Mv(AC, A)}

\* The places requests are worked on at are interchangeable.
ProcSymmetry == Permutations(Procs)

MCSpec == InitWith(SmallTree) /\ [][Next]_vars
=============================================================================
