---------------------------- MODULE MCDirectory ----------------------------
(* The first user and a second of one tenant, a third of another tenant. *)
EXTENDS Directory

CONSTANTS u1, u2, u3, t1, t2, p1, p2, i1

MCHome == [u \in {u1, u2, u3} |-> IF u = u3 THEN t2 ELSE t1]

Roster(second, third) ==
  [u \in {u1, u2, u3} |-> CASE u = u1 -> "server_admin" [] u = u2 -> second [] OTHER -> third]
MCStaff == {Roster("tenant_admin", "new"), Roster("server_admin", "server_admin")}
MCTwoAdmins == {Roster("server_admin", "member")}

About(kind, by, target) ==
  [kind |-> kind, by |-> by, target |-> target, role |-> "keep",
   password |-> p2, identity |-> i1]
ToBe(q, r) == [q EXCEPT !.role = r]

MCAsked ==
  {ToBe(About("patch", u1, u2), r) : r \in {"keep", "member", "server_admin"}}
  \cup {ToBe(About("patch", u1, u1), "member"), ToBe(About("patch", u2, u2), "server_admin")}
  \cup {ToBe(About("create", u1, u3), "member"), ToBe(About("create", u2, u3), "server_admin")}
  \cup {About(kind, u1, u2) : kind \in {"delete", "password", "link", "unlink"}}
  \cup {About("link", u1, u1), About("recompute", u2, t1)}
  \cup {About(kind, u1, t2) : kind \in TenantKinds} \cup {About("deleteTenant", u1, t1)}
=============================================================================
