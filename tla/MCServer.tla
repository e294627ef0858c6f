------------------------------ MODULE MCServer ------------------------------
(* Instances of Server for TLC; the cfg gives its constants. *)
EXTENDS Server
=============================================================================
