------------------------------ MODULE TtlStore ------------------------------
(***************************************************************************)
(* What a Cache promises its caller, with neither recency nor laziness: a  *)
(* map in which a key disappears the instant its deadline passes, every    *)
(* answer is read off the map, and a bounded map may lose one other key    *)
(* when a key that was not there is stored.                                *)
(***************************************************************************)
EXTENDS Integers, Sequences, FiniteSets

CONSTANTS Key, Value, None, TicksPerMs,
          Capacities,  \* numbers of entries, or None for an unbounded map
          Ttl          \* the TTL arguments, in milliseconds

VARIABLES capacity,
          map,    \* what each key maps to, None when it is not there
          now,    \* the steady clock, in ticks
          reply   \* the last call made, and what it returned

vars == <<capacity, map, now, reply>>

Present == {k \in Key : map[k] # None}

Answer(op, k, ret) ==
    /\ reply'.op = op /\ reply'.key = k
    /\ reply'.ret = ret

Item(v, expires_at) == [value |-> v, expires_at |-> expires_at]

Init ==
    /\ capacity \in Capacities
    /\ map = [k \in Key |-> None]
    /\ now = 0
    /\ reply = [op |-> "Cache", key |-> None, ret |-> None]

\* Storing a new key may cost a bounded map one other key; overwriting a key
\* that is present costs nobody anything.
Put(k, item) ==
    /\ \E lost \in SUBSET (Present \ {k}) :
         /\ Cardinality(lost) <= 1
         /\ lost # {} => capacity # None /\ k \notin Present
         /\ map' = [j \in Key |-> IF j \in lost THEN None
                                  ELSE IF j = k /\ capacity # 0 THEN item
                                  ELSE map[j]]
    /\ capacity # None => Cardinality(Present') <= capacity

Set(k, v) ==
    /\ Answer("set", k, None)
    /\ Put(k, Item(v, None))
    /\ UNCHANGED <<capacity, now>>

SetTtl(k, v, ttl) ==
    /\ Answer("set_ttl", k, None)
    /\ IF ttl > 0 THEN Put(k, Item(v, now + ttl * TicksPerMs))
                  ELSE map' = [map EXCEPT ![k] = None]
    /\ UNCHANGED <<capacity, now>>

Get(k) ==
    /\ Answer("get", k, IF k \in Present THEN map[k].value ELSE None)
    /\ UNCHANGED <<capacity, map, now>>

GetInto(k, out) ==
    /\ Answer("get_into", k, [hit |-> k \in Present,
                              out |-> IF k \in Present THEN map[k].value ELSE out])
    /\ UNCHANGED <<capacity, map, now>>

MsLeft(k) == (map[k].expires_at - now) \div TicksPerMs

GetTtl(k) ==
    /\ Answer("ttl", k,
              IF k \notin Present THEN [state |-> "Missing", remaining |-> 0]
              ELSE IF map[k].expires_at = None
                   THEN [state |-> "Persistent", remaining |-> 0]
              ELSE [state |-> "Expiring", remaining |-> MsLeft(k)])
    /\ UNCHANGED <<capacity, map, now>>

Erase(k) ==
    /\ Answer("erase", k, k \in Present)
    /\ map' = [map EXCEPT ![k] = None]
    /\ UNCHANGED <<capacity, now>>

Contains(k) ==
    /\ Answer("contains", k, k \in Present)
    /\ UNCHANGED <<capacity, map, now>>

Clear ==
    /\ Answer("clear", None, None)
    /\ map' = [k \in Key |-> None]
    /\ UNCHANGED <<capacity, now>>

\* Every key present, once, in an order the map does not promise.
Export ==
    /\ reply'.op = "export_entries"
    /\ Len(reply'.ret) = Cardinality(Present)
    /\ {reply'.ret[i] : i \in 1..Len(reply'.ret)} =
          {[key |-> k, value |-> map[k].value,
            remaining_ttl |-> IF map[k].expires_at = None THEN None ELSE MsLeft(k)]
           : k \in Present}
    /\ UNCHANGED <<capacity, map, now>>

Tick ==
    /\ now' = now + 1
    /\ map' = [k \in Key |-> IF map[k] # None /\ map[k].expires_at = now'
                               THEN None ELSE map[k]]
    /\ UNCHANGED <<capacity, reply>>

Next ==
    \/ \E k \in Key, v \in Value : Set(k, v) \/ GetInto(k, v)
    \/ \E k \in Key, v \in Value, ttl \in Ttl : SetTtl(k, v, ttl)
    \/ \E k \in Key : Get(k) \/ GetTtl(k) \/ Erase(k) \/ Contains(k)
    \/ Clear
    \/ Export
    \/ Tick

Spec == Init /\ [][Next]_vars
=============================================================================
