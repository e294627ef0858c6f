---------------------------- MODULE ShardedCache ----------------------------
(***************************************************************************)
(* Threads sharing a ShardedCache.  An operation on one key runs inside    *)
(* one critical section of one shard, so it is one step on that shard (the *)
(* steps inside it are the subject of SyncCache).  clear, export_entries   *)
(* and the sums size, evictions and expired_removals are sweeps: they lock *)
(* the shards one after the other, and anything may happen in between.     *)
(***************************************************************************)
EXTENDS ShardedOps, FiniteSets, FiniteSetsExt

CONSTANTS Thread,         \* threads that sweep
          Sweeps,         \* the sweeps each of them makes
          shard_count,    \* the constructor's arguments
          total_capacity,
          Ttl,            \* the TTL arguments that callers pass, in milliseconds
          MaxTime,        \* bound on the clock
          MaxStores       \* bound on the calls that store a key

VARIABLES shards, now, stores,
          sweep,  \* what each thread sweeps for, the next shard and the result so far
          watch   \* history: what has happened since each thread's sweep began

vars == <<shards, now, stores, sweep, watch>>

Count == ShardsMade(shard_count, total_capacity)
shard_for(k) == shard_index_for(k, Count)

Sums == {"size", "evictions", "expired_removals"}

\* The term a sum adds for one shard.
Term(op, c) == CASE op = "size" -> Len(c.entries)
                 [] op = "evictions" -> c.evictions
                 [] op = "expired_removals" -> c.expired_removals

Total(op, s) == MapThenSumSet(LAMBDA i : Term(op, s[i]), 0..Count - 1)

Keys(c) == {c.entries[i].key : i \in 1..Len(c.entries)}

\* The visible keys with their values.
Pairs(s, t) == {<<k, s[shard_for(k)].entries[Slot(s[shard_for(k)], k)].value>> :
                   k \in {j \in Key : Visible(s[shard_for(j)], j, t)}}

Idle == [op |-> "none", at |-> 0, acc |-> 0]
Unwatched == [written |-> {}, steady |-> {}, seen |-> {}, start |-> 0]

Init ==
    /\ shards = NewShards(shard_count, total_capacity)
    /\ now = 0 /\ stores = 0
    /\ sweep = [t \in Thread |-> Idle]
    /\ watch = [t \in Thread |-> Unwatched]

\* For every sweep under way keep what its properties need: the keys stored
\* since a clear began, the pairs visible ever since an export began, and those
\* visible at some moment of it.
Watch(stored) ==
    watch' = [t \in Thread |->
        [watch[t] EXCEPT
            !.written = IF sweep[t].op = "clear" THEN @ \cup stored ELSE @,
            !.steady = @ \cap Pairs(shards', now'),
            !.seen = IF sweep[t].op = "export_entries" THEN @ \cup Pairs(shards', now') ELSE @]]

-----------------------------------------------------------------------------
(* Operations on one key.  Their answers are those of CacheOps, and are     *)
(* covered by Cache; contains changes nothing and get_into changes what get *)
(* does, so neither has an action here.                                     *)

\* shard_for(k).f(k): that shard becomes c.
OnShard(k, c) ==
    /\ shards' = [shards EXCEPT ![shard_for(k)] = c]
    /\ UNCHANGED <<now, sweep>>

Set(k, v) ==
    /\ stores < MaxStores /\ stores' = stores + 1
    /\ OnShard(k, set(shards[shard_for(k)], k, v))
    /\ Watch({k})

SetTtl(k, v, ttl_ms) ==
    /\ stores < MaxStores /\ stores' = stores + 1
    /\ OnShard(k, set_ttl(shards[shard_for(k)], k, v, ttl_ms, now))
    /\ Watch({k})

Get(k) ==
    /\ OnShard(k, get(shards[shard_for(k)], k, now).cache)
    /\ UNCHANGED stores /\ Watch({})

GetTtl(k) ==
    /\ OnShard(k, ttl(shards[shard_for(k)], k, now).cache)
    /\ UNCHANGED stores /\ Watch({})

Erase(k) ==
    /\ OnShard(k, erase(shards[shard_for(k)], k, now).cache)
    /\ UNCHANGED stores /\ Watch({})

-----------------------------------------------------------------------------
(* Sweeps *)

Begin(t, op) ==
    /\ sweep[t].op = "none"
    /\ sweep' = [sweep EXCEPT ![t] = [op |-> op, at |-> 0,
                                      acc |-> IF op = "export_entries" THEN <<>> ELSE 0]]
    /\ LET pairs == Pairs(shards, now) IN
       watch' = [watch EXCEPT ![t] =
           [written |-> {},
            steady  |-> IF op = "export_entries" THEN pairs ELSE {},
            seen    |-> IF op = "export_entries" THEN pairs ELSE {},
            start   |-> IF op \in Sums THEN Total(op, shards) ELSE 0]]
    /\ UNCHANGED <<shards, now, stores>>

\* Mutant: every other shard is skipped.
Bad_NextShard(i) == i + 2
NextShard(i) == i + 1

\* The result so far with a shard's part.  Mutant: only the last shard's is kept.
Bad_Collected(op, acc, c) == IF op \in Sums THEN Term(op, c) ELSE acc
Collected(op, acc, c) ==
    CASE op = "export_entries" -> acc \o export_entries(c, now)
      [] op \in Sums -> acc + Term(op, c)
      [] OTHER -> acc

\* The next iteration of the loop over shards_.
Visit(t, op) ==
    /\ sweep[t].op = op /\ sweep[t].at < Count
    /\ sweep' = [sweep EXCEPT ![t].at = NextShard(@),
                              ![t].acc = Collected(op, @, shards[sweep[t].at])]
    /\ shards' = IF op = "clear" THEN [shards EXCEPT ![sweep[t].at] = clear(@)] ELSE shards
    /\ UNCHANGED <<now, stores>>
    /\ Watch({})

Done(t) == sweep[t].op # "none" /\ sweep[t].at = Count

End(t) ==
    /\ Done(t)
    /\ sweep' = [sweep EXCEPT ![t] = Idle]
    /\ watch' = [watch EXCEPT ![t] = Unwatched]
    /\ UNCHANGED <<shards, now, stores>>

Tick ==
    /\ now < MaxTime
    /\ now' = now + 1
    /\ UNCHANGED <<shards, stores, sweep>>
    /\ Watch({})

Next ==
    \/ \E k \in Key, v \in Value : Set(k, v)
    \/ \E k \in Key, v \in Value, ttl_ms \in Ttl : SetTtl(k, v, ttl_ms)
    \/ \E k \in Key : Get(k) \/ GetTtl(k) \/ Erase(k)
    \/ \E t \in Thread : \E op \in Sweeps[t] : Begin(t, op) \/ Visit(t, op)
    \/ \E t \in Thread : End(t)
    \/ Tick

Spec == Init /\ [][Next]_vars

-----------------------------------------------------------------------------
(* Properties *)

\* Although a sweep of evictions or expired_removals adds up counters read at
\* different moments, the sum is one the cache really passed through: not less
\* than the true total when the call began, not more than when it returns.
SumsAreBracketed ==
    \A t \in Thread :
        Done(t) /\ sweep[t].op \in {"evictions", "expired_removals"} =>
            /\ watch[t].start <= sweep[t].acc
            /\ sweep[t].acc <= Total(sweep[t].op, shards)

\* An export is no single instant, but it lists no key twice, lists every key
\* whose value stayed visible throughout, and lists no value that its key did
\* not have at some moment of the call.
ExportIsFaithful ==
    \A t \in Thread :
        Done(t) /\ sweep[t].op = "export_entries" =>
            LET all == sweep[t].acc
                listed == {<<all[i].key, all[i].value>> : i \in 1..Len(all)} IN
            /\ \A i, j \in 1..Len(all) : all[i].key = all[j].key => i = j
            /\ watch[t].steady \subseteq listed
            /\ listed \subseteq watch[t].seen

\* When clear() returns, whatever the cache holds was stored after it began.
ClearRemovesOlderEntries ==
    \A t \in Thread :
        Done(t) /\ sweep[t].op = "clear" =>
            \A i \in 0..Count - 1 : Keys(shards[i]) \subseteq watch[t].written

\* A key that is stored can be read back: no shard is born without room, so a
\* store that finds its shard full costs that shard's oldest key and nothing
\* else, in that shard or any other.
StoresAreKept ==
    [][\A k \in Key, v \in Value :
          Set(k, v) /\ total_capacity # 0 =>
             LET lost == {p[1] : p \in Pairs(shards, now)} \ {p[1] : p \in Pairs(shards', now)}
             IN  /\ <<k, v>> \in Pairs(shards', now)
                 /\ Cardinality(lost) <= 1
                 /\ \A j \in lost : shard_for(j) = shard_for(k)]_vars
=============================================================================
