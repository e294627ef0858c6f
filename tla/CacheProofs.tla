---------------------------- MODULE CacheProofs ----------------------------
(***************************************************************************)
(* For every capacity, clock, set of keys and sequence of calls: the       *)
(* recency list stays in order of last use, a bounded cache stays within   *)
(* its capacity, the counters account for every entry, and what is evicted *)
(* is the least recently used.                                             *)
(***************************************************************************)
EXTENDS Cache, CacheOpsProofs

\* The inductive invariant.  No conjunct is inductive alone: that a use keeps
\* the list in order needs the bound on last_use that TypeOK gives, and that an
\* expired entry is counted once needs the order, by which no key has two.
IInv == TypeOK /\ RecencyOrder /\ WithinCapacity /\ Accounting

\* IInv in the terms of the lemmas about the operations.
LEMMA IInvUnfolds ==
    IInv <=> /\ now \in Nat /\ uses \in Nat /\ last_use \in [Key -> 0..uses] /\ owed \in Int
             /\ Sound(cache, last_use)
             /\ Accounted(cache) = owed
  BY DEF IInv, TypeOK, RecencyOrder, WithinCapacity, Accounting, Sound, Accounted

\* A newly constructed cache satisfies the invariant.
LEMMA InitIInv == Init => IInv
<1> SUFFICES ASSUME Init PROVE IInv
  OBVIOUS
<1>1. PICK capacity \in Capacities : cache = New(capacity)
  BY DEF Init
<1>2. capacity \in Nat \cup {None}
  BY CapacitiesAssumption
<1>3. cache \in CacheState /\ cache.entries = <<>> /\ cache.capacity = capacity
      /\ cache.evictions = 0 /\ cache.expired_removals = 0
  BY <1>1, <1>2 DEF New, CacheState
<1>4. Len(cache.entries) = 0
  BY <1>3
<1>5. Sound(cache, last_use)
  BY <1>2, <1>3, <1>4, NoneAssumption DEF Sound, OrderedByUse
<1>6. Accounted(cache) = 0
  BY <1>3, <1>4 DEF Accounted
<1>7. now = 0 /\ uses = 0 /\ owed = 0 /\ last_use \in [Key -> 0..0]
  BY DEF Init
<1> QED
  BY <1>5, <1>6, <1>7, IInvUnfolds

\* Every call, and the passing of time, preserves the invariant.
LEMMA NextIInv == IInv /\ [Next]_vars => IInv'
<1> SUFFICES ASSUME IInv, [Next]_vars PROVE IInv'
  OBVIOUS
<1>0. /\ now \in Nat /\ uses \in Nat /\ last_use \in [Key -> 0..uses] /\ owed \in Int
      /\ Sound(cache, last_use)
      /\ Accounted(cache) = owed
  BY IInvUnfolds
<1>p. ASSUME /\ now' \in Nat /\ uses' \in Nat /\ last_use' \in [Key -> 0..uses'] /\ owed' \in Int
             /\ Sound(cache', last_use')
             /\ Accounted(cache') = owed'
      PROVE  IInv'
  BY <1>p DEF IInv, TypeOK, RecencyOrder, WithinCapacity, Accounting, Sound, Accounted
<1>u. ASSUME NEW k \in Key, Use(k)
      PROVE  uses' \in Nat /\ last_use' = [last_use EXCEPT ![k] = uses + 1]
             /\ last_use' \in [Key -> 0..uses']
  BY <1>0, <1>u DEF Use
<1>s. ASSUME NEW k \in Key, NEW v \in Value, NEW x \in Nat \cup {None},
             cache' = store(cache, k, v, x), Use(k), Stored(k), now' = now
      PROVE  IInv'
  <2>1. /\ Sound(cache', last_use')
        /\ Accounted(cache') = IF Holds(cache, k) THEN Accounted(cache) ELSE Accounted(cache) + 1
    <3>1. /\ Sound(store(cache, k, v, x), [last_use EXCEPT ![k] = uses + 1])
          /\ Accounted(store(cache, k, v, x)) =
                IF Holds(cache, k) THEN Accounted(cache) ELSE Accounted(cache) + 1
      BY <1>0, StoreSound
    <3>2. last_use' = [last_use EXCEPT ![k] = uses + 1]
      BY <1>s, <1>u
    <3> QED
      BY <1>s, <3>1, <3>2
  <2>2. owed' \in Int /\ Accounted(cache') = owed'
    BY <1>0, <1>s, <2>1 DEF Stored
  <2> QED
    BY <1>0, <1>p, <1>s, <1>u, <2>1, <2>2
<1>e. ASSUME NEW k \in Key, cache' = erase(cache, k, now).cache, NoUse, Erased(k), now' = now
      PROVE  IInv'
  <2>1. /\ Sound(cache', last_use)
        /\ Accounted(cache') = IF Visible(cache, k, now) THEN Accounted(cache) - 1 ELSE Accounted(cache)
    <3> DEFINE r == erase(cache, k, now).cache
    <3>1. /\ Sound(r, last_use)
          /\ Accounted(r) = IF Visible(cache, k, now) THEN Accounted(cache) - 1 ELSE Accounted(cache)
      BY <1>0, EraseSound, SMTT(60)
    <3> QED
      BY <1>e, <3>1, Zenon
  <2>2. owed' \in Int /\ Accounted(cache') = owed'
    BY <1>0, <1>e, <2>1 DEF Erased
  <2> QED
    BY <1>0, <1>e, <1>p, <2>1, <2>2 DEF NoUse
<1>g. ASSUME NEW k \in Key, cache' = get(cache, k, now).cache,
             IF Visible(cache, k, now) THEN Use(k) ELSE NoUse,
             now' = now, owed' = owed
      PROVE  IInv'
  <2>1. /\ Sound(cache', IF Visible(cache, k, now)
                         THEN [last_use EXCEPT ![k] = uses + 1] ELSE last_use)
        /\ Accounted(cache') = Accounted(cache)
    BY <1>0, <1>g, GetSound
  <2>2. CASE Visible(cache, k, now)
    BY <1>0, <1>g, <1>p, <1>u, <2>1, <2>2
  <2>3. CASE ~Visible(cache, k, now)
    BY <1>0, <1>g, <1>p, <2>1, <2>3 DEF NoUse
  <2> QED
    BY <2>2, <2>3
<1>n. ASSUME cache' = cache, NoUse, now' \in Nat, owed' = owed
      PROVE  IInv'
  BY <1>0, <1>n, <1>p DEF NoUse
<1>1. ASSUME NEW k \in Key, NEW v \in Value, Set(k, v)
      PROVE  IInv'
  BY <1>1, <1>s DEF Set, set
<1>2. ASSUME NEW k \in Key, NEW v \in Value, NEW ttl_ms \in Ttl, SetTtl(k, v, ttl_ms)
      PROVE  IInv'
  <2>1. ttl_ms \in Int
    BY TtlAssumption
  <2>2. CASE ttl_ms > 0
    <3>1. now + ttl_ms * TicksPerMs \in Nat
      BY <1>0, <2>1, <2>2, DeadlineIsNat
    <3>2. cache' = store(cache, k, v, now + ttl_ms * TicksPerMs)
      BY <1>2, <2>1, <2>2 DEF SetTtl, set_ttl
    <3> QED
      BY <1>2, <1>s, <2>2, <3>1, <3>2 DEF SetTtl
  <2>3. CASE ~(ttl_ms > 0)
    BY <1>2, <1>e, <2>1, <2>3 DEF SetTtl, set_ttl
  <2> QED
    BY <2>2, <2>3
<1>3. ASSUME NEW k \in Key, Get(k)
      PROVE  IInv'
  BY <1>3, <1>g DEF Get
<1>4. ASSUME NEW k \in Key, NEW out \in Value, GetInto(k, out)
      PROVE  IInv'
  BY <1>4, <1>g DEF GetInto, get_into
<1>5. ASSUME NEW k \in Key, GetTtl(k)
      PROVE  IInv'
  <2>1. cache' = find_live(cache, k, now)
    BY <1>5 DEF GetTtl, ttl
  <2>2. Sound(cache', last_use) /\ Accounted(cache') = Accounted(cache)
    BY <1>0, <2>1, FindLiveSound
  <2> QED
    BY <1>0, <1>5, <1>p, <2>2 DEF GetTtl, NoUse
<1>6. ASSUME NEW k \in Key, Erase(k)
      PROVE  IInv'
  BY <1>6, <1>e DEF Erase
<1>7. ASSUME NEW k \in Key, ContainsKey(k)
      PROVE  IInv'
  BY <1>0, <1>7, <1>n DEF ContainsKey
<1>8. CASE Clear
  <2>1. Sound(cache', last_use) /\ Accounted(cache') = Accounted(cache) - Len(cache.entries)
    BY <1>0, <1>8, ClearSound DEF Clear
  <2>2. Len(cache.entries) \in Nat
    BY <1>0 DEF Sound, CacheState
  <2> QED
    BY <1>0, <1>8, <1>p, <2>1, <2>2 DEF Clear, NoUse
<1>9. CASE ExportEntries
  BY <1>0, <1>9, <1>n DEF ExportEntries
<1>10. CASE Tick
  BY <1>0, <1>10, <1>n DEF Tick
<1>11. CASE UNCHANGED vars
  BY <1>0, <1>11, <1>n DEF vars, NoUse
<1> QED
  BY <1>1, <1>2, <1>3, <1>4, <1>5, <1>6, <1>7, <1>8, <1>9, <1>10, <1>11 DEF Next

LEMMA Inductive == Spec => []IInv
  BY InitIInv, NextIInv, PTL DEF Spec

\* Whatever calls are made, the recency list is in order of last use.
THEOREM InOrderOfUse == Spec => []RecencyOrder
  BY Inductive, PTL DEF IInv

\* Whatever calls are made, a bounded cache holds no more than its capacity.
THEOREM NeverOverCapacity == Spec => []WithinCapacity
  BY Inductive, PTL DEF IInv

\* Whatever calls are made, the counters balance with the entries.
THEOREM CountersBalance == Spec => []Accounting
  BY Inductive, PTL DEF IInv

-----------------------------------------------------------------------------
(* Eviction *)

\* Only store evicts.
LEMMA OthersDoNotEvict ==
    ASSUME NEW c \in CacheState, NEW k, NEW t
    PROVE  /\ find_live(c, k, t).evictions = c.evictions
           /\ get(c, k, t).cache.evictions = c.evictions
           /\ erase(c, k, t).cache.evictions = c.evictions
           /\ clear(c).evictions = c.evictions
<1>1. ASSUME NEW d, DOMAIN d = DOMAIN c, NEW s
      PROVE  [d EXCEPT !.entries = s].evictions = d.evictions
             /\ DOMAIN [d EXCEPT !.entries = s] = DOMAIN c
             /\ [d EXCEPT !.expired_removals = @ + 1].evictions = d.evictions
             /\ DOMAIN [d EXCEPT !.expired_removals = @ + 1] = DOMAIN c
  BY <1>1 DEF CacheState
<1>2. \A n : remove(c, n).evictions = c.evictions /\ DOMAIN remove(c, n) = DOMAIN c
  BY <1>1 DEF remove
<1>3. find_live(c, k, t).evictions = c.evictions /\ DOMAIN find_live(c, k, t) = DOMAIN c
  BY <1>1, <1>2 DEF find_live
<1>4. get(c, k, t).cache.evictions = c.evictions
  BY <1>1, <1>3 DEF get
<1>5. erase(c, k, t).cache.evictions = c.evictions
  BY <1>2, <1>3 DEF erase
<1>6. clear(c).evictions = c.evictions
  BY <1>1 DEF clear
<1> QED
  BY <1>3, <1>4, <1>5, <1>6

\* When store evicts, the cache was full, and what is left is the new entry in
\* front of all the others but the last.
LEMMA StoreEvicts ==
    ASSUME NEW c, NEW use, Sound(c, use), NEW k \in Key, NEW v \in Value, NEW x \in Nat \cup {None},
           NEW d, d = store(c, k, v, x), d.evictions # c.evictions
    PROVE  /\ d.evictions = c.evictions + 1 /\ c.capacity \in Nat
           /\ Len(c.entries) = c.capacity /\ Len(d.entries) = c.capacity
           /\ ~Holds(c, k)
           /\ c.capacity > 0 => d.entries[1].key = k
           /\ \A j \in 2..c.capacity : d.entries[j] = c.entries[j - 1]
<1> DEFINE e == [key |-> k, value |-> v, expires_at |-> x]
           s == insert_newest(c.entries, e)
           f == [c EXCEPT !.entries = s]
<1>1. /\ c \in CacheState /\ c.entries \in Seq(Entry) /\ Len(c.entries) \in Nat
      /\ c.evictions \in Nat /\ c.capacity \in Nat \cup {None}
      /\ c.capacity # None => Len(c.entries) <= c.capacity
  BY DEF Sound, CacheState
<1>2. ~Holds(c, k)
  <2>1. SUFFICES ASSUME Holds(c, k) PROVE FALSE
    OBVIOUS
  <2>2. d = [c EXCEPT !.entries = mark_used([@ EXCEPT ![Slot(c, k)] = e], Slot(c, k))]
    BY <2>1 DEF store
  <2> QED
    BY <1>1, <2>2 DEF CacheState
<1>3. d = Trimmed(f)
  BY <1>2 DEF store
<1>4. e \in Entry /\ e.key = k
  BY DEF Entry
<1> HIDE DEF e
<1>5. /\ s \in Seq(Entry) /\ Len(s) = Len(c.entries) + 1 /\ s[1] = e
      /\ \A j \in 2..Len(c.entries) + 1 : s[j] = c.entries[j - 1]
  BY <1>1, <1>4, InsertNewestProperties
<1> HIDE DEF s
<1>6. f \in CacheState /\ f.entries = s /\ f.capacity = c.capacity /\ f.evictions = c.evictions
  BY <1>1, <1>5 DEF CacheState
<1> HIDE DEF f
<1> DEFINE r == Room(f)
<1>7. r \in 0..Len(s) /\ r = (IF c.capacity # None /\ Len(s) > c.capacity THEN c.capacity ELSE Len(s))
  BY <1>1, <1>5, <1>6, NoneAssumption DEF Room
<1>8. d = [f EXCEPT !.entries = SubSeq(s, 1, r), !.evictions = f.evictions + (Len(s) - r)]
  BY <1>3, <1>6 DEF Trimmed, Newest
<1> HIDE DEF r
<1>9. d.entries = SubSeq(s, 1, r) /\ d.evictions = c.evictions + (Len(s) - r)
  BY <1>6, <1>8 DEF CacheState
<1>10. c.capacity # None /\ Len(s) > c.capacity /\ r = c.capacity
  BY <1>1, <1>5, <1>7, <1>9
<1>11. Len(c.entries) = c.capacity /\ Len(s) = r + 1 /\ c.capacity \in Nat
  BY <1>1, <1>5, <1>10
<1>12. Len(d.entries) = r /\ \A j \in 1..r : d.entries[j] = s[j]
  BY <1>5, <1>7, <1>9, SubSeqProperties
<1>13. d.evictions = c.evictions + 1
  <2>1. Len(s) - r = 1
    BY <1>10, <1>11
  <2> QED
    BY <1>9, <2>1
<1>14. Len(d.entries) = c.capacity
  BY <1>10, <1>12
<1>15. ASSUME c.capacity > 0 PROVE d.entries[1].key = k
  <2>1. 1 \in 1..r
    BY <1>10, <1>11, <1>15
  <2>2. d.entries[1] = s[1]
    BY <1>12, <2>1
  <2> QED
    BY <1>4, <1>5, <2>2
<1>16. ASSUME NEW j \in 2..c.capacity
       PROVE  d.entries[j] = c.entries[j - 1]
  <2>1. j \in 1..r /\ j \in 2..Len(c.entries) + 1
    BY <1>10, <1>11
  <2> QED
    BY <1>5, <1>12, <2>1
<1> QED
  BY <1>2, <1>11, <1>13, <1>14, <1>15, <1>16

\* A step that evicts does so because the cache is full, takes one entry, and takes
\* the one that was used least recently.
THEOREM OldestGoes == Spec => EvictsOnlyTheOldest
<1> DEFINE Evicts ==
      cache'.evictions # cache.evictions =>
          /\ cache'.evictions = cache.evictions + 1
          /\ Len(cache.entries) = cache.capacity
          /\ Len(cache'.entries) = cache.capacity
          /\ \A gone \in Keys(cache) \ Keys(cache'), kept \in Keys(cache) \cap Keys(cache') :
                last_use[gone] < last_use[kept]
          /\ \A i \in 2..Len(cache'.entries) : cache'.entries[i] = cache.entries[i - 1]
<1>1. IInv /\ [Next]_vars => [Evicts]_vars
  <2> SUFFICES ASSUME IInv, Next, cache'.evictions # cache.evictions PROVE Evicts
    BY DEF vars
  <2>1. /\ now \in Nat /\ uses \in Nat /\ last_use \in [Key -> 0..uses]
        /\ Sound(cache, last_use) /\ cache \in CacheState
    BY IInvUnfolds DEF Sound
  <2>2. PICK k \in Key, v \in Value, x \in Nat \cup {None} : cache' = store(cache, k, v, x)
    <3>1. ASSUME NEW k \in Key, NEW v \in Value, Set(k, v)
          PROVE  cache' = store(cache, k, v, None)
      BY <3>1 DEF Set, set
    <3>2. ASSUME NEW k \in Key, NEW v \in Value, NEW ttl_ms \in Ttl, SetTtl(k, v, ttl_ms)
          PROVE  /\ cache' = store(cache, k, v, now + ttl_ms * TicksPerMs)
                 /\ now + ttl_ms * TicksPerMs \in Nat
      <4>1. ttl_ms \in Int
        BY TtlAssumption
      <4>2. ttl_ms > 0
        BY <2>1, <3>2, <4>1, OthersDoNotEvict DEF SetTtl, set_ttl
      <4> QED
        BY <2>1, <3>2, <4>1, <4>2, DeadlineIsNat DEF SetTtl, set_ttl
    <3>3. ASSUME NEW k \in Key, NEW v \in Value
          PROVE  ~GetInto(k, v)
      BY <2>1, OthersDoNotEvict DEF GetInto, get_into
    <3>4. ASSUME NEW k \in Key
          PROVE  ~Get(k) /\ ~GetTtl(k) /\ ~Erase(k) /\ ~ContainsKey(k)
      <4>1. /\ find_live(cache, k, now).evictions = cache.evictions
            /\ get(cache, k, now).cache.evictions = cache.evictions
            /\ erase(cache, k, now).cache.evictions = cache.evictions
        BY <2>1, OthersDoNotEvict
      <4>2. ~Get(k) /\ ~Erase(k)
        BY <4>1 DEF Get, Erase
      <4>3. ~GetTtl(k)
        BY <4>1 DEF GetTtl, ttl
      <4>4. ~ContainsKey(k)
        BY DEF ContainsKey
      <4> QED
        BY <4>2, <4>3, <4>4
    <3>5. ~Clear /\ ~ExportEntries /\ ~Tick
      <4>1. clear(cache).evictions = cache.evictions
        BY <2>1, OthersDoNotEvict
      <4>2. ~Clear
        BY <4>1 DEF Clear
      <4>3. ~ExportEntries /\ ~Tick
        BY DEF ExportEntries, Tick
      <4> QED
        BY <4>2, <4>3
    <3>6. \/ \E k \in Key, v \in Value : Set(k, v)
          \/ \E k \in Key, v \in Value, ttl_ms \in Ttl : SetTtl(k, v, ttl_ms)
      BY <3>3, <3>4, <3>5 DEF Next
    <3> QED
      BY <3>1, <3>2, <3>6, ZenonT(60)
  <2>3. /\ cache'.evictions = cache.evictions + 1 /\ cache.capacity \in Nat
        /\ Len(cache.entries) = cache.capacity /\ Len(cache'.entries) = cache.capacity
        /\ ~Holds(cache, k)
        /\ cache.capacity > 0 => cache'.entries[1].key = k
        /\ \A j \in 2..cache.capacity : cache'.entries[j] = cache.entries[j - 1]
    BY <2>1, <2>2, StoreEvicts
  <2>4. ASSUME NEW gone \in Keys(cache) \ Keys(cache'), NEW kept \in Keys(cache) \cap Keys(cache')
        PROVE  last_use[gone] < last_use[kept]
    <3>1. PICK g \in 1..cache.capacity : gone = cache.entries[g].key
      BY <2>3 DEF Keys
    <3>2. g = cache.capacity
      <4>1. SUFFICES ASSUME g < cache.capacity PROVE FALSE
        BY <2>3, <3>1
      <4>2. g + 1 \in 2..cache.capacity /\ (g + 1) - 1 = g
        BY <2>3, <4>1
      <4>3. cache'.entries[g + 1] = cache.entries[g]
        BY <2>3, <4>2
      <4> QED
        BY <2>3, <3>1, <4>2, <4>3 DEF Keys
    <3>3. PICK h \in 1..cache.capacity : kept = cache.entries[h].key
      BY <2>3 DEF Keys
    <3>4. gone # kept
      OBVIOUS
    <3>5. h < g
      BY <2>3, <3>1, <3>2, <3>3, <3>4
    <3>6. OrderedByUse(cache.entries, last_use)
      BY <2>1 DEF Sound
    <3> QED
      BY <2>3, <3>1, <3>3, <3>5, <3>6 DEF OrderedByUse
  <2> QED
    BY <2>3, <2>4
<1>2. EvictsOnlyTheOldest <=> [][Evicts]_vars
  BY DEF EvictsOnlyTheOldest
<1> QED
  BY <1>1, <1>2, Inductive, PTL DEF Spec
=============================================================================
