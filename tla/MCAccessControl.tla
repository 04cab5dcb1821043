-------------------------- MODULE MCAccessControl --------------------------
(* A file of the second user in the first user's collection. *)
EXTENDS AccessControl

CONSTANTS u1, u2, g1, g2, g3, none

MCResources == {"home", "file"}
MCParent == [y \in MCResources |-> IF y = "file" THEN "home" ELSE none]
MCOwner == [y \in MCResources |-> IF y = "file" THEN u2 ELSE u1]

Deny == <<Ace(g1, FALSE, "all"), Ace("authenticated", TRUE, "read")>>
MCLists == {Deny, <<Ace(u1, FALSE, "read")>>}
MCStartLists == {[y \in MCResources |->
  IF y = "file" THEN <<Ace("owner", FALSE, "read"), Ace(g2, TRUE, "read")>> ELSE Deny]}

Alone == {<<g1, u1>>}
Chain == {<<g1, u1>>, <<g2, g1>>, <<g3, g2>>}
Diamond == {<<g1, u2>>, <<g2, u2>>, <<g3, g1>>, <<g3, g2>>}
MCStart == {Alone, Chain, Diamond}
MCNewRows == {<<g1, g2>>, <<g2, g1>>, <<g1, g3>>}
=============================================================================
