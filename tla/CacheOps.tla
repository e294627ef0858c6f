------------------------------ MODULE CacheOps ------------------------------
(***************************************************************************)
(* The operations of class Cache as functions of its state.                *)
(*                                                                         *)
(* A cache is a record.  Its entries form a sequence, most recently used   *)
(* first, which is what RecencyList holds; index_ is the map from a key to *)
(* its place in that sequence, and is left implicit here (SyncCache models *)
(* the list nodes and the map of iterators into them).  An operation that  *)
(* reads the clock takes the instant it reads as its argument now, and one *)
(* that returns something yields [cache |-> ..., ret |-> ...].             *)
(*                                                                         *)
(* Time is counted in ticks finer than the milliseconds in which TTLs are  *)
(* given and reported, because the code truncates from the one to the      *)
(* other.                                                                  *)
(***************************************************************************)
EXTENDS Integers, Sequences, SequencesExt

CONSTANTS Key, Value,
          None,       \* std::nullopt
          TicksPerMs  \* steady_clock ticks in a millisecond

ASSUME NoneAssumption == None \notin Int \cup Value
ASSUME TicksAssumption == TicksPerMs \in Nat \ {0}

Entry == [key : Key, value : Value, expires_at : Nat \cup {None}]

CacheState == [capacity         : Nat \cup {None},
               entries          : Seq(Entry),
               evictions        : Nat,
               expired_removals : Nat]

\* Both constructors: capacity None is the default, unbounded one.
New(capacity) == [capacity |-> capacity, entries |-> <<>>,
                  evictions |-> 0, expired_removals |-> 0]

-----------------------------------------------------------------------------
(* RecencyList *)

insert_newest(s, e) == <<e>> \o s

mark_used(s, i) == <<s[i]>> \o RemoveAt(s, i)

-----------------------------------------------------------------------------
(* Lookup *)

\* index_.find(k) # index_.end()
Holds(c, k) == \E i \in 1..Len(c.entries) : c.entries[i].key = k

\* index_.find(k)->second
Slot(c, k) == CHOOSE i \in 1..Len(c.entries) : c.entries[i].key = k

\* Mutant: an entry lives through its last tick.
Bad_is_expired(e, now) == e.expires_at # None /\ e.expires_at < now

is_expired(e, now) == e.expires_at # None /\ e.expires_at <= now

Visible(c, k, now) == Holds(c, k) /\ ~is_expired(c.entries[Slot(c, k)], now)

-----------------------------------------------------------------------------
(* Private members *)

remove(c, i) == [c EXCEPT !.entries = RemoveAt(@, i)]

\* How many entries stay.  Mutant: one too many.
Bad_Room(c) ==
    IF c.capacity # None /\ Len(c.entries) > c.capacity + 1 THEN c.capacity ELSE Len(c.entries)
Room(c) ==
    IF c.capacity # None /\ Len(c.entries) > c.capacity THEN c.capacity ELSE Len(c.entries)

\* Those that stay.  Mutant: the newest go.
Bad_Newest(s, n) == SubSeq(s, Len(s) - n + 1, Len(s))
Newest(s, n) == SubSeq(s, 1, n)

\* The loop of evict_oldest calls that ends store: everything past the first
\* `capacity` entries goes, and each one that goes is counted.
Trimmed(c) ==
    [c EXCEPT !.entries = Newest(@, Room(c)), !.evictions = @ + (Len(c.entries) - Room(c))]

store(c, k, v, expires_at) ==
    LET e == [key |-> k, value |-> v, expires_at |-> expires_at] IN
    IF Holds(c, k)
    THEN LET i == Slot(c, k)
         IN  [c EXCEPT !.entries = mark_used([@ EXCEPT ![i] = e], i)]
    ELSE Trimmed([c EXCEPT !.entries = insert_newest(@, e)])

\* Mutant: the removal is not counted.
Bad_find_live(c, k, now) ==
    IF Holds(c, k) /\ is_expired(c.entries[Slot(c, k)], now) THEN remove(c, Slot(c, k)) ELSE c

\* The cache find_live leaves behind: an expired entry found is reclaimed.
find_live(c, k, now) ==
    IF Holds(c, k) /\ is_expired(c.entries[Slot(c, k)], now)
    THEN [remove(c, Slot(c, k)) EXCEPT !.expired_removals = @ + 1]
    ELSE c

-----------------------------------------------------------------------------
(* Public members *)

\* Mutant: a hit does not count as a use.
Bad_get(c, k, now) ==
    LET live == find_live(c, k, now) IN
    [cache |-> live,
     ret   |-> IF Holds(live, k) THEN live.entries[Slot(live, k)].value ELSE None]

get(c, k, now) ==
    LET live == find_live(c, k, now) IN
    IF Holds(live, k)
    THEN LET i == Slot(live, k)
         IN  [cache |-> [live EXCEPT !.entries = mark_used(@, i)],
              ret   |-> live.entries[i].value]
    ELSE [cache |-> live, ret |-> None]

\* out is what the caller's buffer held: a miss leaves it there.
get_into(c, k, out, now) ==
    LET got == get(c, k, now) IN
    [cache |-> got.cache,
     ret   |-> [hit |-> got.ret # None,
                out |-> IF got.ret # None THEN got.ret ELSE out]]

\* duration_cast from ticks to milliseconds, which truncates.
Remaining(e, now) == (e.expires_at - now) \div TicksPerMs

Missing    == [state |-> "Missing", remaining |-> 0]
Persistent == [state |-> "Persistent", remaining |-> 0]

ttl(c, k, now) ==
    LET live == find_live(c, k, now) IN
    [cache |-> live,
     ret   |-> IF ~Holds(live, k) THEN Missing
               ELSE LET e == live.entries[Slot(live, k)] IN
                    IF e.expires_at = None THEN Persistent
                    ELSE [state |-> "Expiring", remaining |-> Remaining(e, now)]]

erase(c, k, now) ==
    [cache |-> IF ~Holds(c, k) THEN c
               ELSE IF Visible(c, k, now) THEN remove(c, Slot(c, k))
               ELSE find_live(c, k, now),
     ret   |-> Visible(c, k, now)]

set(c, k, v) == store(c, k, v, None)

set_ttl(c, k, v, ttl_ms, now) ==
    IF ttl_ms <= 0 THEN erase(c, k, now).cache
                   ELSE store(c, k, v, now + ttl_ms * TicksPerMs)

contains(c, k, now) == Visible(c, k, now)

clear(c) == [c EXCEPT !.entries = <<>>]

Exported(e, now) ==
    [key |-> e.key, value |-> e.value,
     remaining_ttl |-> IF e.expires_at = None THEN None ELSE Remaining(e, now)]

export_entries(c, now) ==
    LET live == SelectSeq(c.entries, LAMBDA e : ~is_expired(e, now))
    IN  [i \in 1..Len(live) |-> Exported(live[i], now)]

keys_by_recency(c) == [i \in 1..Len(c.entries) |-> c.entries[i].key]

\* A list is in order of last use, where use gives each key the number of its
\* last use.
OrderedByUse(s, use) ==
    \A i, j \in 1..Len(s) : i < j => use[s[j].key] < use[s[i].key]
=============================================================================
