---------------------------- MODULE MCShardSplit ----------------------------
(* An instance of ShardSplit for TLC. *)
EXTENDS ShardSplit

NoKeys == [k \in {} |-> 0]
Counts == 0..6
Totals == 0..14
=============================================================================
