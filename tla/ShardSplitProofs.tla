-------------------------- MODULE ShardSplitProofs --------------------------
(***************************************************************************)
(* For every shard count and total capacity, the bounded constructor of    *)
(* ShardedCache splits the total exactly and leaves no shard without room. *)
(***************************************************************************)
EXTENDS ShardSplit, TLAPS

base == total_capacity \div count
remainder == total_capacity % count

\* What the first i shards have been given: base each, and one more for each of
\* them that comes before the remainder runs out.
Share(n) == n * base + (IF n < remainder THEN n ELSE remainder)

\* The inductive invariant: SplitIsExact speaks only of the end of the loop.
IInv ==
    /\ TypeOK
    /\ handed_out = Share(i)
    /\ smallest # None => smallest >= base

\* Integer division.
LEMMA DivisionProperties ==
    ASSUME NEW t \in Nat, NEW c \in Nat \ {0}
    PROVE  /\ t \div c \in Nat
           /\ t % c \in 0..c - 1
           /\ t = c * (t \div c) + (t % c)
           /\ t >= c => t \div c >= 1
<1>1. t \div c \in Int /\ t % c \in 0..c - 1 /\ t = c * (t \div c) + (t % c)
  OBVIOUS
<1> DEFINE q == t \div c
<1>2. q >= 0
  BY <1>1
<1>3. t >= c => q >= 1
  BY <1>1
<1> QED
  BY <1>1, <1>2, <1>3

\* The arguments fix at least one shard, and no more shards than entries unless
\* there are no entries.
LEMMA CountProperties ==
    ASSUME shard_count \in Nat, total_capacity \in Nat
    PROVE  /\ count \in Nat \ {0}
           /\ total_capacity > 0 => count <= total_capacity
  BY NoneAssumption DEF count, ShardsMade, sane_shard_count, AtLeastOne

\* What the split comes to, as arithmetic.
LEMMA SplitProperties ==
    ASSUME shard_count \in Nat, total_capacity \in Nat
    PROVE  /\ base \in Nat /\ remainder \in 0..count - 1
           /\ Share(0) = 0
           /\ Share(count) = total_capacity
           /\ total_capacity > 0 => base >= 1
           /\ \A n \in 0..count - 1 :
                 /\ ShardCapacity(n, count, total_capacity) \in Nat
                 /\ ShardCapacity(n, count, total_capacity) >= base
                 /\ Share(n + 1) = Share(n) + ShardCapacity(n, count, total_capacity)
<1>1. count \in Nat \ {0} /\ (total_capacity > 0 => count <= total_capacity)
  BY CountProperties
<1> DEFINE c == count
<1>2. /\ base \in Nat /\ remainder \in 0..c - 1
      /\ total_capacity = c * base + remainder
      /\ total_capacity >= c => base >= 1
  BY <1>1, DivisionProperties DEF base, remainder
<1>3. \A n \in 0..c - 1 : ShardCapacity(n, c, total_capacity) = base + (IF n < remainder THEN 1 ELSE 0)
  BY NoneAssumption DEF ShardCapacity, base, remainder
<1> HIDE DEF c
<1>4. ASSUME NEW n \in 0..c - 1
      PROVE  Share(n + 1) = Share(n) + ShardCapacity(n, c, total_capacity)
  <2>1. (n + 1) * base = n * base + base /\ n * base \in Nat
    BY <1>1, <1>2 DEF c
  <2>2. Share(n) = n * base + (IF n < remainder THEN n ELSE remainder)
    BY DEF Share
  <2>3. Share(n + 1) = (n + 1) * base + (IF n + 1 < remainder THEN n + 1 ELSE remainder)
    BY DEF Share
  <2> DEFINE a == n * base
  <2> HIDE DEF a
  <2>4. /\ Share(n) = a + (IF n < remainder THEN n ELSE remainder)
        /\ Share(n + 1) = (a + base) + (IF n + 1 < remainder THEN n + 1 ELSE remainder)
        /\ a \in Nat
    BY <2>1, <2>2, <2>3 DEF a
  <2> QED
    BY <1>1, <1>2, <1>3, <2>4 DEF c
<1>5. Share(0) = 0
  BY <1>2 DEF Share
<1>6. Share(c) = total_capacity
  BY <1>1, <1>2 DEF Share, c
<1> QED
  BY <1>1, <1>2, <1>3, <1>4, <1>5, <1>6 DEF c

\* Before the loop nothing has been handed out.
LEMMA InitIInv == Init => IInv
<1> SUFFICES ASSUME Init PROVE IInv
  OBVIOUS
<1>1. shard_count \in Nat /\ total_capacity \in Nat /\ i = 0 /\ handed_out = 0 /\ smallest = None
  BY ArgumentsAssumption DEF Init
<1>2. count \in Nat \ {0} /\ Share(0) = 0
  BY <1>1, CountProperties, SplitProperties
<1> QED
  BY <1>1, <1>2 DEF IInv, TypeOK

\* Each iteration hands out one more share.
LEMMA NextIInv == IInv /\ [Next]_vars => IInv'
<1> SUFFICES ASSUME IInv, [Next]_vars PROVE IInv'
  OBVIOUS
<1>0. /\ shard_count \in Nat /\ total_capacity \in Nat /\ count \in Nat \ {0} /\ i \in 0..count
      /\ handed_out \in Nat /\ smallest \in Nat \cup {None}
      /\ handed_out = Share(i) /\ (smallest # None => smallest >= base)
  BY DEF IInv, TypeOK
<1>1. CASE PushShard
  <2> DEFINE c == ShardCapacity(i, count, total_capacity)
  <2>1. /\ i \in 0..count - 1 /\ i' = i + 1 /\ handed_out' = handed_out + c
        /\ smallest' = IF smallest = None \/ c < smallest THEN c ELSE smallest
        /\ shard_count' = shard_count /\ total_capacity' = total_capacity
    BY <1>0, <1>1 DEF PushShard
  <2>2. count' = count /\ base' = base /\ Share(i)' = Share(i')
    BY <2>1 DEF count, base, remainder, Share
  <2>3. c \in Nat /\ c >= base /\ Share(i + 1) = Share(i) + c /\ base \in Nat
    BY <1>0, <2>1, SplitProperties
  <2> HIDE DEF c
  <2>4. smallest' \in Nat \cup {None} /\ (smallest' # None => smallest' >= base')
    BY <1>0, <2>1, <2>2, <2>3, NoneAssumption
  <2>5. handed_out' \in Nat /\ handed_out' = Share(i)'
    BY <1>0, <2>1, <2>2, <2>3
  <2> QED
    BY <1>0, <2>1, <2>2, <2>4, <2>5 DEF IInv, TypeOK
<1>2. CASE UNCHANGED vars
  <2>1. count' = count /\ base' = base /\ Share(i)' = Share(i)
    BY <1>2 DEF vars, count, base, remainder, Share
  <2> QED
    BY <1>0, <1>2, <2>1 DEF vars, IInv, TypeOK
<1> QED
  BY <1>1, <1>2 DEF Next, Built

LEMMA Inductive == Spec => []IInv
  BY InitIInv, NextIInv, PTL DEF Spec

\* The capacities of the shards add up to the total, for every shard count and total.
THEOREM NothingIsLost == Spec => []SplitIsExact
<1>1. IInv => SplitIsExact
  <2> SUFFICES ASSUME IInv PROVE SplitIsExact
    OBVIOUS
  <2>1. shard_count \in Nat /\ total_capacity \in Nat
    BY DEF IInv, TypeOK
  <2> QED
    BY <2>1, SplitProperties DEF IInv, SplitIsExact
<1> QED
  BY <1>1, Inductive, PTL

\* No shard is left without room, unless the total is zero.
THEOREM EveryShardHasRoom == Spec => []NoEmptyShard
<1>1. IInv => NoEmptyShard
  <2> SUFFICES ASSUME IInv PROVE NoEmptyShard
    OBVIOUS
  <2>1. shard_count \in Nat /\ total_capacity \in Nat
    BY DEF IInv, TypeOK
  <2> QED
    BY <2>1, SplitProperties DEF IInv, TypeOK, NoEmptyShard
<1> QED
  BY <1>1, Inductive, PTL
=============================================================================
