---------------------------- MODULE MCSyncCache ----------------------------
(* Instances of SyncCache for TLC. *)
EXTENDS SyncCache

Ttls == {0, 1}
=============================================================================
