----------------------------- MODULE ShardedOps -----------------------------
(***************************************************************************)
(* How ShardedCache is built: the number of shards, the capacity of each,  *)
(* and the shard a key belongs to.  A set of shards is a function from     *)
(* 0..count-1 to caches; total_capacity None is the unbounded constructor. *)
(***************************************************************************)
EXTENDS CacheOps

CONSTANT Hash  \* shard_hash of each key

ASSUME HashAssumption == Hash \in [Key -> Nat]

sane_shard_count(requested) == IF requested = 0 THEN 1 ELSE requested

AtLeastOne(n) == IF n = 0 THEN 1 ELSE n

\* Mutant: more shards than entries.
Bad_ShardsMade(requested, total_capacity) == sane_shard_count(requested)

\* How many shards the constructors make.
ShardsMade(requested, total_capacity) ==
    LET count == sane_shard_count(requested) IN
    IF total_capacity # None /\ total_capacity < count
    THEN AtLeastOne(total_capacity)
    ELSE count

\* Mutant: the remainder is lost.
Bad_ShardCapacity(i, count, total_capacity) ==
    IF total_capacity = None THEN None ELSE total_capacity \div count

\* The capacity of shard i: an even split, the remainder to the first shards.
ShardCapacity(i, count, total_capacity) ==
    IF total_capacity = None THEN None
    ELSE total_capacity \div count + (IF i < total_capacity % count THEN 1 ELSE 0)

NewShards(requested, total_capacity) ==
    LET count == ShardsMade(requested, total_capacity) IN
    [i \in 0..count - 1 |-> New(ShardCapacity(i, count, total_capacity))]

shard_index_for(k, count) == Hash[k] % count
=============================================================================
