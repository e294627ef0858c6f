------------------------------- MODULE Cache -------------------------------
(***************************************************************************)
(* Class Cache under an arbitrary sequence of calls and passing time: one  *)
(* action for each member function, plus the clock.                        *)
(*                                                                         *)
(* The cache and the clock are the program's state.  The other variables   *)
(* only record what has happened, for the properties to refer to.          *)
(***************************************************************************)
EXTENDS CacheOps

CONSTANTS Capacities,  \* the capacities to construct with, None for unbounded
          Ttl,         \* the TTL arguments that callers pass, in milliseconds
          MaxTime,     \* bound on the clock
          MaxUses      \* bound on the calls that may use a key

ASSUME CapacitiesAssumption == Capacities \subseteq Nat \cup {None}
ASSUME TtlAssumption == Ttl \subseteq Int
ASSUME BoundsAssumption == MaxTime \in Nat /\ MaxUses \in Nat

VARIABLES cache, now,
          reply,     \* the last call and its result
          uses,      \* how many times any key has been used
          last_use,  \* the number of the last use of each key, 0 before any
          owed       \* entries ever created, less those removed at the caller's word

vars == <<cache, now, reply, uses, last_use, owed>>

Init ==
    /\ \E capacity \in Capacities : cache = New(capacity)
    /\ now = 0
    /\ reply = [op |-> "Cache", key |-> None, ret |-> None]
    /\ uses = 0
    /\ last_use = [k \in Key |-> 0]
    /\ owed = 0

Answer(op, k, ret) == reply' = [op |-> op, key |-> k, ret |-> ret]

Use(k) ==
    /\ uses' = uses + 1
    /\ last_use' = [last_use EXCEPT ![k] = uses + 1]

NoUse == UNCHANGED <<uses, last_use>>

Stored(k) == owed' = IF Holds(cache, k) THEN owed ELSE owed + 1

Erased(k) == owed' = IF Visible(cache, k, now) THEN owed - 1 ELSE owed

-----------------------------------------------------------------------------
Set(k, v) ==
    /\ uses < MaxUses
    /\ cache' = set(cache, k, v)
    /\ Answer("set", k, None)
    /\ Use(k) /\ Stored(k)
    /\ UNCHANGED now

SetTtl(k, v, ttl_ms) ==
    /\ uses < MaxUses
    /\ cache' = set_ttl(cache, k, v, ttl_ms, now)
    /\ Answer("set_ttl", k, None)
    /\ IF ttl_ms > 0 THEN Use(k) /\ Stored(k) ELSE NoUse /\ Erased(k)
    /\ UNCHANGED now

Get(k) ==
    /\ uses < MaxUses
    /\ cache' = get(cache, k, now).cache
    /\ Answer("get", k, get(cache, k, now).ret)
    /\ IF Visible(cache, k, now) THEN Use(k) ELSE NoUse
    /\ UNCHANGED <<now, owed>>

GetInto(k, out) ==
    /\ uses < MaxUses
    /\ cache' = get_into(cache, k, out, now).cache
    /\ Answer("get_into", k, get_into(cache, k, out, now).ret)
    /\ IF Visible(cache, k, now) THEN Use(k) ELSE NoUse
    /\ UNCHANGED <<now, owed>>

GetTtl(k) ==
    /\ cache' = ttl(cache, k, now).cache
    /\ Answer("ttl", k, ttl(cache, k, now).ret)
    /\ NoUse
    /\ UNCHANGED <<now, owed>>

Erase(k) ==
    /\ cache' = erase(cache, k, now).cache
    /\ Answer("erase", k, erase(cache, k, now).ret)
    /\ NoUse /\ Erased(k)
    /\ UNCHANGED now

ContainsKey(k) ==
    /\ Answer("contains", k, contains(cache, k, now))
    /\ NoUse
    /\ UNCHANGED <<cache, now, owed>>

Clear ==
    /\ cache' = clear(cache)
    /\ Answer("clear", None, None)
    /\ owed' = owed - Len(cache.entries)
    /\ NoUse
    /\ UNCHANGED now

ExportEntries ==
    /\ Answer("export_entries", None, export_entries(cache, now))
    /\ NoUse
    /\ UNCHANGED <<cache, now, owed>>

\* steady_clock never goes back.
Tick ==
    /\ now < MaxTime
    /\ now' = now + 1
    /\ NoUse
    /\ UNCHANGED <<cache, reply, owed>>

Next ==
    \/ \E k \in Key, v \in Value : Set(k, v) \/ GetInto(k, v)
    \/ \E k \in Key, v \in Value, ttl_ms \in Ttl : SetTtl(k, v, ttl_ms)
    \/ \E k \in Key : Get(k) \/ GetTtl(k) \/ Erase(k) \/ ContainsKey(k)
    \/ Clear
    \/ ExportEntries
    \/ Tick

Spec == Init /\ [][Next]_vars

-----------------------------------------------------------------------------
(* Properties *)

\* The variables hold values of their types.
TypeOK ==
    /\ cache \in CacheState
    /\ now \in Nat
    /\ uses \in Nat
    /\ last_use \in [Key -> 0..uses]
    /\ owed \in Int

\* The recency list is ordered by the last use of each key, where storing a key
\* and a get that hits are uses, and ttl, contains, a miss and an export are
\* not.  In particular no key has two entries.
RecencyOrder == OrderedByUse(cache.entries, last_use)

\* However calls and expirations are mixed, a bounded cache never keeps more
\* entries than its capacity, expired entries not yet reclaimed included.
WithinCapacity ==
    cache.capacity # None => Len(cache.entries) <= cache.capacity

\* evictions_ and expired_removals_ miss nothing and count nothing twice: every
\* entry ever created is still there, or was removed at the caller's word, or
\* is counted by exactly one of the two.
Accounting ==
    Len(cache.entries) + cache.evictions + cache.expired_removals = owed

Keys(c) == {c.entries[i].key : i \in 1..Len(c.entries)}

\* A step that evicts finds the cache full, evicts exactly one entry, and that
\* entry's key was used less recently than every key that stays.
EvictsOnlyTheOldest ==
    [][cache'.evictions # cache.evictions =>
          /\ cache'.evictions = cache.evictions + 1
          /\ Len(cache.entries) = cache.capacity
          /\ Len(cache'.entries) = cache.capacity
          /\ \A gone \in Keys(cache) \ Keys(cache'), kept \in Keys(cache) \cap Keys(cache') :
                last_use[gone] < last_use[kept]
          /\ \A i \in 2..Len(cache'.entries) : cache'.entries[i] = cache.entries[i - 1]]_vars

\* What the caller can see of a key: its value and deadline, unless it expired.
VisibleMap ==
    [k \in Key |-> IF Visible(cache, k, now)
                   THEN LET e == cache.entries[Slot(cache, k)]
                        IN  [value |-> e.value, expires_at |-> e.expires_at]
                   ELSE None]

Abstract == INSTANCE TtlStore WITH capacity <- cache.capacity, map <- VisibleMap

\* Lazy expiration and LRU are invisible but for the keys eviction loses: every
\* answer is the one a map that expires keys on time would give.
ImplementsTtlStore == Abstract!Spec
=============================================================================
