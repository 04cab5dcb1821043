--------------------------- MODULE MCSyncCollection ---------------------------
(* SyncCollection on small sets, for TLC: the .cfg gives the model values.   *)
EXTENDS SyncCollection
=============================================================================
