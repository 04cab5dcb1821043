-------------------------------- MODULE MCLogins --------------------------------
(* Logins for TLC: the default chain and that of all schemes, two addresses  *)
(* of which one is tracked.                                                  *)
EXTENDS Logins, TLC

MCConfigurations == {<<"basic">>, <<"basic", "digest", "oauth2">>}

Symmetry == Permutations(Slots) \cup Permutations(Addresses)
=============================================================================
