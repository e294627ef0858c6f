---------------------------- MODULE MCConnection ----------------------------
(* Instances of Connection for TLC; the cfg gives its constants. *)
EXTENDS Connection
=============================================================================
