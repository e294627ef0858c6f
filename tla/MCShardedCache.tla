--------------------------- MODULE MCShardedCache ---------------------------
(* Instances of ShardedCache for TLC. *)
EXTENDS ShardedCache, TLC

CONSTANTS k1, k2, k3, t1, t2

\* Two keys share a shard; the third is alone.
TwoAndOne == (k1 :> 0) @@ (k2 :> 1) @@ (k3 :> 2)

Ttls == {0, 1}

\* One thread makes every sweep, the other clears under it.
ClearedUnder == (t1 :> Sums \cup {"clear", "export_entries"}) @@ (t2 :> {"clear"})
=============================================================================
