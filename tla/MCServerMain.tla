---------------------------- MODULE MCServerMain ----------------------------
(* Instances of ServerMain for TLC; the cfg gives its constants. *)
EXTENDS ServerMain
=============================================================================
