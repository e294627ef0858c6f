----------------------------- MODULE ShardSplit -----------------------------
(***************************************************************************)
(* The loop of ShardedCache's bounded constructor, which hands the total   *)
(* capacity out to the shards one at a time.                               *)
(***************************************************************************)
EXTENDS ShardedOps

CONSTANTS ShardCounts, TotalCapacities  \* the constructor's possible arguments

ASSUME ArgumentsAssumption == ShardCounts \subseteq Nat /\ TotalCapacities \subseteq Nat

VARIABLES shard_count, total_capacity,  \* the arguments
          i,                            \* shards pushed so far
          handed_out,                   \* the sum of their capacities
          smallest                      \* and the least of them, None before any

vars == <<shard_count, total_capacity, i, handed_out, smallest>>

count == ShardsMade(shard_count, total_capacity)

Init ==
    /\ shard_count \in ShardCounts /\ total_capacity \in TotalCapacities
    /\ i = 0 /\ handed_out = 0 /\ smallest = None

PushShard ==
    /\ i < count
    /\ LET c == ShardCapacity(i, count, total_capacity) IN
       /\ handed_out' = handed_out + c
       /\ smallest' = IF smallest = None \/ c < smallest THEN c ELSE smallest
    /\ i' = i + 1
    /\ UNCHANGED <<shard_count, total_capacity>>

\* The constructor has returned.
Built == i = count /\ UNCHANGED vars

Next == PushShard \/ Built

Spec == Init /\ [][Next]_vars

-----------------------------------------------------------------------------
(* Properties *)

\* The variables hold values of their types.
TypeOK ==
    /\ shard_count \in Nat /\ total_capacity \in Nat
    /\ count \in Nat \ {0} /\ i \in 0..count
    /\ handed_out \in Nat /\ smallest \in Nat \cup {None}

\* When the constructor is done the shards' capacities add up to exactly the
\* total that was asked for, not to a rounded approximation of it.
SplitIsExact == i = count => handed_out = total_capacity

\* No shard is left without room unless the whole cache is, so no key vanishes
\* because of the shard it hashes to.
NoEmptyShard == total_capacity > 0 /\ smallest # None => smallest > 0
=============================================================================
