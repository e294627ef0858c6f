--------------------------- MODULE CacheOpsProofs ---------------------------
(***************************************************************************)
(* What the operations of CacheOps preserve, for every cache: the order of *)
(* the recency list, the capacity, and the balance of the counters.        *)
(***************************************************************************)
EXTENDS CacheOps, SequenceLemmas

(* Sequences *)

\* RecencyList::mark_used moves one element to the front and nothing else.
LEMMA MarkUsedProperties ==
    ASSUME NEW S, NEW s \in Seq(S), NEW n \in 1..Len(s)
    PROVE  /\ mark_used(s, n) \in Seq(S)
           /\ Len(mark_used(s, n)) = Len(s)
           /\ mark_used(s, n)[1] = s[n]
           /\ \A j \in 2..Len(s) :
                 mark_used(s, n)[j] = IF j <= n THEN s[j - 1] ELSE s[j]
<1> DEFINE r == RemoveAt(s, n)
<1>1. /\ r \in Seq(S) /\ Len(r) = Len(s) - 1
      /\ \A j \in 1..Len(s) - 1 : r[j] = IF j < n THEN s[j] ELSE s[j + 1]
  BY RemoveAtProperties
<1>2. mark_used(s, n) = <<s[n]>> \o r
  BY DEF mark_used
<1>3. s[n] \in S /\ <<s[n]>> \in Seq(S) /\ Len(<<s[n]>>) = 1 /\ <<s[n]>>[1] = s[n]
  BY ElementOfSeq
<1> HIDE DEF r
<1>4. /\ <<s[n]>> \o r \in Seq(S)
      /\ Len(<<s[n]>> \o r) = Len(s)
      /\ (<<s[n]>> \o r)[1] = s[n]
      /\ \A j \in 2..Len(s) : (<<s[n]>> \o r)[j] = r[j - 1]
  BY <1>1, <1>3, ConcatProperties
<1>5. ASSUME NEW j \in 2..Len(s)
      PROVE  r[j - 1] = IF j <= n THEN s[j - 1] ELSE s[j]
  BY <1>1
<1> QED
  BY <1>2, <1>4, <1>5

\* RecencyList::insert_newest puts one element in front of the others.
LEMMA InsertNewestProperties ==
    ASSUME NEW s \in Seq(Entry), NEW e \in Entry
    PROVE  /\ insert_newest(s, e) \in Seq(Entry)
           /\ Len(insert_newest(s, e)) = Len(s) + 1
           /\ insert_newest(s, e)[1] = e
           /\ \A j \in 2..Len(s) + 1 : insert_newest(s, e)[j] = s[j - 1]
<1>1. <<e>> \in Seq(Entry) /\ Len(<<e>>) = 1 /\ <<e>>[1] = e
  OBVIOUS
<1> QED
  BY <1>1, ConcatProperties DEF insert_newest

-----------------------------------------------------------------------------
(* The order of last use.  A use stamps a key with a number above all the    *)
(* stamps so far.                                                            *)

\* The elements of a list of entries are entries.
LEMMA EntryOfList ==
    ASSUME NEW s \in Seq(Entry), NEW j \in 1..Len(s)
    PROVE  s[j] \in Entry /\ s[j].key \in Key
<1>1. s[j] \in Entry
  BY ElementOfSeq
<1> QED
  BY <1>1 DEF Entry

\* A strict order leaves no room for two entries with the same key.
LEMMA OrderedDistinct ==
    ASSUME NEW s \in Seq(Entry), NEW u \in Nat, NEW use \in [Key -> 0..u],
           OrderedByUse(s, use),
           NEW i \in 1..Len(s), NEW j \in 1..Len(s), s[i].key = s[j].key
    PROVE  i = j
<1>1. s[i].key \in Key /\ s[j].key \in Key
  BY EntryOfList
<1>2. use[s[i].key] \in Nat /\ use[s[j].key] \in Nat
  BY <1>1
<1> QED
  BY <1>2 DEF OrderedByUse

\* Removing an entry keeps the others in order.
LEMMA OrderedRemove ==
    ASSUME NEW s \in Seq(Entry), NEW use, OrderedByUse(s, use), NEW n \in 1..Len(s)
    PROVE  OrderedByUse(RemoveAt(s, n), use)
<1> DEFINE r == RemoveAt(s, n)
<1>1. /\ Len(r) = Len(s) - 1
      /\ \A j \in 1..Len(s) - 1 : r[j] = IF j < n THEN s[j] ELSE s[j + 1]
  BY RemoveAtProperties
<1> HIDE DEF r
<1>2. ASSUME NEW i \in 1..Len(r), NEW j \in 1..Len(r), i < j
      PROVE  use[r[j].key] < use[r[i].key]
  <2> DEFINE old(x) == IF x < n THEN x ELSE x + 1
  <2>1. old(i) \in 1..Len(s) /\ old(j) \in 1..Len(s) /\ old(i) < old(j)
    BY <1>1, <1>2
  <2>2. r[i] = s[old(i)] /\ r[j] = s[old(j)]
    BY <1>1
  <2> HIDE DEF old
  <2> QED
    BY <2>1, <2>2 DEF OrderedByUse
<1> QED
  BY <1>2 DEF OrderedByUse, r

\* So does keeping only the newest entries.
LEMMA OrderedPrefix ==
    ASSUME NEW s \in Seq(Entry), NEW use, OrderedByUse(s, use), NEW n \in 0..Len(s)
    PROVE  /\ SubSeq(s, 1, n) \in Seq(Entry)
           /\ Len(SubSeq(s, 1, n)) = n
           /\ OrderedByUse(SubSeq(s, 1, n), use)
<1>1. \A j \in 1..n : s[j] \in Entry
  BY ElementOfSeq
<1>2. /\ SubSeq(s, 1, n) \in Seq(Entry) /\ Len(SubSeq(s, 1, n)) = n
      /\ \A j \in 1..n : SubSeq(s, 1, n)[j] = s[j]
  BY <1>1, SubSeqProperties
<1> QED
  BY <1>2 DEF OrderedByUse

\* A used entry belongs at the front, where mark_used puts it.
LEMMA OrderedMarkUsed ==
    ASSUME NEW s \in Seq(Entry), NEW u \in Nat, NEW use \in [Key -> 0..u],
           OrderedByUse(s, use), NEW n \in 1..Len(s)
    PROVE  OrderedByUse(mark_used(s, n), [use EXCEPT ![s[n].key] = u + 1])
<1> DEFINE r == mark_used(s, n)
           new == [use EXCEPT ![s[n].key] = u + 1]
           old(x) == IF x <= n THEN x - 1 ELSE x
<1>1. /\ Len(r) = Len(s) /\ r[1] = s[n]
      /\ \A j \in 2..Len(s) : r[j] = IF j <= n THEN s[j - 1] ELSE s[j]
  BY MarkUsedProperties
<1>2. \A j \in 1..Len(s) : s[j].key \in Key /\ use[s[j].key] \in 0..u
  BY EntryOfList
<1>3. ASSUME NEW j \in 2..Len(s)
      PROVE  /\ old(j) \in 1..Len(s) /\ old(j) # n /\ r[j] = s[old(j)]
             /\ new[r[j].key] = use[s[old(j)].key]
  <2>1. old(j) \in 1..Len(s) /\ old(j) # n /\ r[j] = s[old(j)]
    BY <1>1
  <2>2. s[old(j)].key # s[n].key
    BY <2>1, OrderedDistinct
  <2> QED
    BY <1>2, <2>1, <2>2
<1>4. new[r[1].key] = u + 1
  BY <1>1, <1>2
<1>5. \A i, j \in 2..Len(s) : i < j => old(i) < old(j)
  <2> SUFFICES ASSUME NEW i \in 2..Len(s), NEW j \in 2..Len(s), i < j
               PROVE  old(i) < old(j)
    OBVIOUS
  <2>1. j <= n => i <= n
    OBVIOUS
  <2>2. old(j) # n
    BY <1>3
  <2> QED
    BY <2>1
<1> HIDE DEF r, new, old
<1>6. ASSUME NEW i \in 1..Len(r), NEW j \in 1..Len(r), i < j
      PROVE  new[r[j].key] < new[r[i].key]
  <2>1. j \in 2..Len(s)
    BY <1>1, <1>6
  <2>2. CASE i = 1
    <3>1. use[s[old(j)].key] \in 0..u /\ new[r[j].key] = use[s[old(j)].key]
      BY <1>2, <1>3, <2>1
    <3>2. new[r[i].key] = u + 1
      BY <1>4, <2>2
    <3> QED
      BY <3>1, <3>2
  <2>3. CASE i # 1
    <3>1. i \in 2..Len(s)
      BY <1>1, <2>3
    <3> QED
      BY <1>3, <1>5, <1>6, <2>1, <3>1 DEF OrderedByUse
  <2> QED
    BY <2>2, <2>3
<1> QED
  BY <1>6 DEF OrderedByUse, r, new

\* And so does a new entry, whose key no other entry has.
LEMMA OrderedInsert ==
    ASSUME NEW s \in Seq(Entry), NEW u \in Nat, NEW use \in [Key -> 0..u],
           OrderedByUse(s, use), NEW e \in Entry, \A i \in 1..Len(s) : s[i].key # e.key
    PROVE  OrderedByUse(insert_newest(s, e), [use EXCEPT ![e.key] = u + 1])
<1> DEFINE r == insert_newest(s, e)
           new == [use EXCEPT ![e.key] = u + 1]
<1>1. /\ Len(r) = Len(s) + 1 /\ r[1] = e
      /\ \A j \in 2..Len(s) + 1 : r[j] = s[j - 1]
  BY InsertNewestProperties
<1>2. e.key \in Key /\ \A j \in 1..Len(s) : s[j].key \in Key /\ use[s[j].key] \in 0..u
  BY EntryOfList DEF Entry
<1>3. new[r[1].key] = u + 1
  BY <1>1, <1>2
<1>4. \A j \in 2..Len(s) + 1 : j - 1 \in 1..Len(s) /\ new[r[j].key] = use[s[j - 1].key]
  BY <1>1, <1>2
<1> HIDE DEF r, new
<1>5. ASSUME NEW i \in 1..Len(r), NEW j \in 1..Len(r), i < j
      PROVE  new[r[j].key] < new[r[i].key]
  <2>1. j \in 2..Len(s) + 1
    BY <1>1, <1>5
  <2>2. CASE i = 1
    <3>1. use[s[j - 1].key] \in 0..u /\ new[r[j].key] = use[s[j - 1].key]
      BY <1>2, <1>4, <2>1
    <3>2. new[r[i].key] = u + 1
      BY <1>3, <2>2
    <3> QED
      BY <3>1, <3>2
  <2>3. CASE i # 1
    <3>1. i \in 2..Len(s) + 1 /\ i - 1 < j - 1
      BY <1>1, <1>5, <2>3
    <3> QED
      BY <1>4, <2>1, <3>1 DEF OrderedByUse
  <2> QED
    BY <2>2, <2>3
<1> QED
  BY <1>5 DEF OrderedByUse, r, new

-----------------------------------------------------------------------------
(* The operations of Cache.  Sound is what each of them preserves; Accounted *)
(* is the number of entries the cache holds or has counted out.              *)

Sound(c, use) ==
    /\ c \in CacheState
    /\ OrderedByUse(c.entries, use)
    /\ c.capacity # None => Len(c.entries) <= c.capacity

Accounted(c) == Len(c.entries) + c.evictions + c.expired_removals

\* index_.find yields an entry with the key looked for.
LEMMA SlotProperties ==
    ASSUME NEW c, NEW k, Holds(c, k)
    PROVE  Slot(c, k) \in 1..Len(c.entries) /\ c.entries[Slot(c, k)].key = k
  BY DEF Holds, Slot

\* Cache::remove takes one entry away and leaves the counters alone.
LEMMA RemoveSound ==
    ASSUME NEW c, NEW use, Sound(c, use), NEW n \in 1..Len(c.entries)
    PROVE  /\ Sound(remove(c, n), use)
           /\ remove(c, n).capacity = c.capacity
           /\ Accounted(remove(c, n)) = Accounted(c) - 1
<1>1. c \in CacheState /\ c.entries \in Seq(Entry) /\ Len(c.entries) \in Nat
  BY DEF Sound, CacheState
<1>2. RemoveAt(c.entries, n) \in Seq(Entry) /\ Len(RemoveAt(c.entries, n)) = Len(c.entries) - 1
  BY <1>1, RemoveAtProperties
<1>3. OrderedByUse(RemoveAt(c.entries, n), use)
  BY <1>1, OrderedRemove DEF Sound
<1>4. remove(c, n) \in CacheState /\ remove(c, n).entries = RemoveAt(c.entries, n)
      /\ remove(c, n).capacity = c.capacity /\ remove(c, n).evictions = c.evictions
      /\ remove(c, n).expired_removals = c.expired_removals
  BY <1>1, <1>2 DEF remove, CacheState
<1>5. c.capacity \in Nat \cup {None} /\ c.evictions \in Nat /\ c.expired_removals \in Nat
  BY <1>1 DEF CacheState
<1>6. Sound(remove(c, n), use)
  BY <1>1, <1>2, <1>3, <1>4, <1>5, NoneAssumption DEF Sound
<1>7. Accounted(remove(c, n)) = Accounted(c) - 1
  <2>1. Len(remove(c, n).entries) = Len(c.entries) - 1
    BY <1>2, <1>4
  <2> QED
    BY <1>1, <1>4, <1>5, <2>1 DEF Accounted
<1> QED
  BY <1>4, <1>6, <1>7

\* After an entry is removed its key is not found: it had no other entry.
LEMMA RemoveForgets ==
    ASSUME NEW c, NEW u \in Nat, NEW use \in [Key -> 0..u], Sound(c, use), NEW k, Holds(c, k)
    PROVE  ~Holds(remove(c, Slot(c, k)), k)
<1> DEFINE n == Slot(c, k)
<1>1. n \in 1..Len(c.entries) /\ c.entries[n].key = k /\ c.entries \in Seq(Entry)
  BY SlotProperties DEF Sound, CacheState
<1>2. remove(c, n).entries = RemoveAt(c.entries, n)
  BY DEF remove, Sound, CacheState
<1>3. OrderedByUse(c.entries, use)
  BY DEF Sound
<1> HIDE DEF n
<1>4. \A j \in 1..Len(c.entries) : c.entries[j].key = k => j = n
  BY <1>1, <1>3, OrderedDistinct
<1>5. /\ Len(RemoveAt(c.entries, n)) = Len(c.entries) - 1
      /\ \A j \in 1..Len(c.entries) - 1 :
            RemoveAt(c.entries, n)[j] = IF j < n THEN c.entries[j] ELSE c.entries[j + 1]
  BY <1>1, RemoveAtProperties
<1>6. \A j \in 1..Len(c.entries) - 1 : RemoveAt(c.entries, n)[j].key # k
  BY <1>1, <1>4, <1>5
<1> QED
  BY <1>2, <1>5, <1>6 DEF Holds, n

\* find_live, and so ttl: an expired entry leaves and is counted, a key is found
\* afterwards exactly when it was visible, and nothing else changes.
LEMMA FindLiveSound ==
    ASSUME NEW c, NEW u \in Nat, NEW use \in [Key -> 0..u], Sound(c, use), NEW k, NEW t \in Nat
    PROVE  /\ Sound(find_live(c, k, t), use)
           /\ find_live(c, k, t).capacity = c.capacity
           /\ Accounted(find_live(c, k, t)) = Accounted(c)
           /\ Holds(find_live(c, k, t), k) <=> Visible(c, k, t)
<1>1. CASE Holds(c, k) /\ is_expired(c.entries[Slot(c, k)], t)
  <2> DEFINE r == remove(c, Slot(c, k))
             f == find_live(c, k, t)
  <2>1. Slot(c, k) \in 1..Len(c.entries)
    BY <1>1, SlotProperties
  <2>2. Sound(r, use) /\ r.capacity = c.capacity /\ Accounted(r) = Accounted(c) - 1
    BY <2>1, RemoveSound
  <2>3. ~Holds(r, k)
    BY <1>1, RemoveForgets
  <2>4. f = [r EXCEPT !.expired_removals = @ + 1]
    BY <1>1 DEF find_live
  <2> HIDE DEF r, f
  <2>5. r \in CacheState /\ Len(r.entries) \in Nat /\ r.evictions \in Nat /\ r.expired_removals \in Nat
    BY <2>2 DEF Sound, CacheState
  <2>6. /\ f \in CacheState /\ f.entries = r.entries /\ f.capacity = r.capacity
        /\ f.evictions = r.evictions /\ f.expired_removals = r.expired_removals + 1
    BY <2>4, <2>5 DEF CacheState
  <2>7. Sound(f, use) /\ f.capacity = c.capacity
    BY <2>2, <2>6 DEF Sound
  <2>8. Accounted(f) = Accounted(r) + 1
    BY <2>5, <2>6 DEF Accounted
  <2>9. Accounted(c) \in Int
    BY DEF Sound, CacheState, Accounted
  <2>10. ~Holds(f, k) /\ ~Visible(c, k, t)
    BY <1>1, <2>3, <2>6 DEF Holds, Visible
  <2> QED
    BY <2>2, <2>7, <2>8, <2>9, <2>10 DEF f
<1>2. CASE ~(Holds(c, k) /\ is_expired(c.entries[Slot(c, k)], t))
  <2>1. find_live(c, k, t) = c
    BY <1>2 DEF find_live
  <2>2. Holds(c, k) <=> Visible(c, k, t)
    BY <1>2 DEF Visible
  <2> QED
    BY <2>1, <2>2
<1> QED
  BY <1>1, <1>2

\* What find_live finds is the entry that was there.
LEMMA FindLiveFinds ==
    ASSUME NEW c, NEW k, NEW t, Visible(c, k, t)
    PROVE  find_live(c, k, t) = c
  BY DEF find_live, Visible

\* The cache after the entry of k has been replaced by e and moved to the front.
Touched(c, k, e) ==
    [c EXCEPT !.entries = mark_used([c.entries EXCEPT ![Slot(c, k)] = e], Slot(c, k))]

\* A hit moves the entry to the front: replacing its contents but not its key
\* first, as store does, makes no difference to the order.
LEMMA TouchSound ==
    ASSUME NEW c, NEW u \in Nat, NEW use \in [Key -> 0..u], Sound(c, use), NEW k, Holds(c, k),
           NEW e \in Entry, e.key = k
    PROVE  /\ Sound(Touched(c, k, e), [use EXCEPT ![k] = u + 1])
           /\ Touched(c, k, e).capacity = c.capacity
           /\ Accounted(Touched(c, k, e)) = Accounted(c)
<1> DEFINE n == Slot(c, k)
           s == [c.entries EXCEPT ![n] = e]
           m == mark_used(s, n)
           r == Touched(c, k, e)
<1>1. n \in 1..Len(c.entries) /\ c.entries[n].key = k
  BY SlotProperties
<1>2. c \in CacheState /\ c.entries \in Seq(Entry) /\ OrderedByUse(c.entries, use)
  BY DEF Sound, CacheState
<1>3. s \in Seq(Entry) /\ Len(s) = Len(c.entries) /\ s[n] = e
      /\ \A j \in 1..Len(s) : s[j].key = c.entries[j].key
  BY <1>1, <1>2, ExceptSeq
<1>r. r = [c EXCEPT !.entries = m]
  BY DEF Touched
<1> HIDE DEF s, n, r
<1>4. OrderedByUse(s, use)
  BY <1>2, <1>3 DEF OrderedByUse
<1>5. n \in 1..Len(s) /\ s[n].key = k
  BY <1>1, <1>3
<1>6. m \in Seq(Entry) /\ Len(m) = Len(c.entries)
  BY <1>3, <1>5, MarkUsedProperties
<1>7. OrderedByUse(m, [use EXCEPT ![k] = u + 1])
  BY <1>3, <1>4, <1>5, OrderedMarkUsed
<1> HIDE DEF m
<1>8. /\ r \in CacheState /\ r.entries = m /\ r.capacity = c.capacity
      /\ r.evictions = c.evictions /\ r.expired_removals = c.expired_removals
  BY <1>2, <1>6, <1>r DEF CacheState
<1>9. Sound(r, [use EXCEPT ![k] = u + 1]) /\ Accounted(r) = Accounted(c)
  BY <1>6, <1>7, <1>8 DEF Sound, Accounted
<1> QED
  BY <1>8, <1>9 DEF r

\* get and get_into: a hit is a use of the key, a miss is not.
LEMMA GetSound ==
    ASSUME NEW c, NEW u \in Nat, NEW use \in [Key -> 0..u], Sound(c, use), NEW k, NEW t \in Nat
    PROVE  LET r == get(c, k, t).cache
           IN  /\ Sound(r, IF Visible(c, k, t) THEN [use EXCEPT ![k] = u + 1] ELSE use)
               /\ r.capacity = c.capacity
               /\ Accounted(r) = Accounted(c)
<1> DEFINE live == find_live(c, k, t)
<1>1. /\ Sound(live, use) /\ live.capacity = c.capacity /\ Accounted(live) = Accounted(c)
      /\ Holds(live, k) <=> Visible(c, k, t)
  BY FindLiveSound
<1>2. CASE Visible(c, k, t)
  <2> DEFINE n == Slot(c, k)
  <2>1. live = c /\ Holds(c, k)
    BY <1>2, FindLiveFinds DEF Visible
  <2>2. n \in 1..Len(c.entries) /\ c.entries[n].key = k /\ c.entries \in Seq(Entry)
    BY <2>1, SlotProperties DEF Sound, CacheState
  <2>3. get(c, k, t).cache = [c EXCEPT !.entries = mark_used(c.entries, n)]
    BY <2>1 DEF get
  <2>4. [c.entries EXCEPT ![n] = c.entries[n]] = c.entries
    BY <2>2
  <2>5. get(c, k, t).cache = Touched(c, k, c.entries[n])
    BY <2>3, <2>4 DEF Touched
  <2> HIDE DEF n
  <2>6. c.entries[n] \in Entry
    BY <2>2, EntryOfList
  <2>7. /\ Sound(Touched(c, k, c.entries[n]), [use EXCEPT ![k] = u + 1])
        /\ Touched(c, k, c.entries[n]).capacity = c.capacity
        /\ Accounted(Touched(c, k, c.entries[n])) = Accounted(c)
    BY <2>1, <2>2, <2>6, TouchSound, ZenonT(60)
  <2> QED
    BY <1>2, <2>5, <2>7
<1>3. CASE ~Visible(c, k, t)
  <2>1. get(c, k, t).cache = live
    BY <1>1, <1>3 DEF get
  <2> QED
    BY <1>1, <1>3, <2>1
<1> QED
  BY <1>2, <1>3

\* erase: an entry the caller could see leaves uncounted, an expired one is
\* counted as an expiry.
LEMMA EraseSound ==
    ASSUME NEW c, NEW u \in Nat, NEW use \in [Key -> 0..u], Sound(c, use), NEW k, NEW t \in Nat
    PROVE  LET r == erase(c, k, t).cache
           IN  /\ Sound(r, use)
               /\ r.capacity = c.capacity
               /\ Accounted(r) = IF Visible(c, k, t) THEN Accounted(c) - 1 ELSE Accounted(c)
<1>1. CASE ~Holds(c, k)
  <2>1. erase(c, k, t).cache = c /\ ~Visible(c, k, t)
    BY <1>1 DEF erase, Visible
  <2> QED
    BY <2>1
<1>2. CASE Visible(c, k, t)
  <2>1. Holds(c, k) /\ erase(c, k, t).cache = remove(c, Slot(c, k))
    BY <1>2 DEF erase, Visible
  <2> QED
    BY <1>2, <2>1, SlotProperties, RemoveSound
<1>3. CASE Holds(c, k) /\ ~Visible(c, k, t)
  <2>1. erase(c, k, t).cache = find_live(c, k, t)
    BY <1>3 DEF erase
  <2> QED
    BY <1>3, <2>1, FindLiveSound
<1> QED
  BY <1>1, <1>2, <1>3 DEF Visible

\* The trimming loop restores the capacity and counts every entry it takes.
LEMMA TrimmedSound ==
    ASSUME NEW c \in CacheState, NEW use, OrderedByUse(c.entries, use)
    PROVE  /\ Sound(Trimmed(c), use)
           /\ Trimmed(c).capacity = c.capacity
           /\ Accounted(Trimmed(c)) = Accounted(c)
<1> DEFINE size == Len(c.entries)
           kept == IF c.capacity # None /\ size > c.capacity THEN c.capacity ELSE size
           s == SubSeq(c.entries, 1, kept)
           r == Trimmed(c)
<1>1. /\ c.entries \in Seq(Entry) /\ size \in Nat /\ c.capacity \in Nat \cup {None}
      /\ c.evictions \in Nat /\ c.expired_removals \in Nat
  BY DEF CacheState
<1>2. kept \in 0..size /\ (c.capacity # None => kept <= c.capacity) /\ size - kept \in Nat
  BY <1>1, NoneAssumption
<1>3. r = [c EXCEPT !.entries = s, !.evictions = @ + (size - kept)]
  BY DEF Trimmed, Room, Newest
<1> HIDE DEF kept, r
<1>4. s \in Seq(Entry) /\ Len(s) = kept /\ OrderedByUse(s, use)
  BY <1>1, <1>2, OrderedPrefix
<1> HIDE DEF s, size
<1>5. /\ r \in CacheState /\ r.entries = s /\ r.capacity = c.capacity
      /\ r.evictions = c.evictions + (size - kept) /\ r.expired_removals = c.expired_removals
  <2> DEFINE d == [c EXCEPT !.entries = s]
  <2>1. /\ d \in CacheState /\ d.entries = s /\ d.capacity = c.capacity
        /\ d.evictions = c.evictions /\ d.expired_removals = c.expired_removals
    BY <1>4 DEF CacheState
  <2>2. r = [d EXCEPT !.evictions = d.evictions + (size - kept)]
    BY <1>3
  <2> HIDE DEF d
  <2>3. d.evictions + (size - kept) \in Nat
    BY <1>1, <1>2, <2>1
  <2> QED
    BY <2>1, <2>2, <2>3 DEF CacheState
<1>6. Sound(r, use)
  BY <1>2, <1>4, <1>5 DEF Sound
<1>7. Accounted(r) = kept + (c.evictions + (size - kept)) + c.expired_removals
  BY <1>4, <1>5 DEF Accounted
<1>8. Accounted(c) = size + c.evictions + c.expired_removals
  BY DEF Accounted, size
<1> QED
  BY <1>1, <1>2, <1>5, <1>6, <1>7, <1>8 DEF r

\* store: overwriting and inserting are uses of the key; inserting creates one
\* entry, and what has to go to make room for it is counted.
LEMMA StoreSound ==
    ASSUME NEW c, NEW u \in Nat, NEW use \in [Key -> 0..u], Sound(c, use),
           NEW k \in Key, NEW v \in Value, NEW x \in Nat \cup {None}
    PROVE  /\ Sound(store(c, k, v, x), [use EXCEPT ![k] = u + 1])
           /\ store(c, k, v, x).capacity = c.capacity
           /\ Accounted(store(c, k, v, x)) =
                 IF Holds(c, k) THEN Accounted(c) ELSE Accounted(c) + 1
<1> DEFINE e == [key |-> k, value |-> v, expires_at |-> x]
<1>1. e \in Entry /\ e.key = k
  BY DEF Entry
<1>2. CASE Holds(c, k)
  <2>1. store(c, k, v, x) = Touched(c, k, e)
    BY <1>2 DEF store, Touched
  <2> HIDE DEF e
  <2>2. /\ Sound(Touched(c, k, e), [use EXCEPT ![k] = u + 1])
        /\ Touched(c, k, e).capacity = c.capacity
        /\ Accounted(Touched(c, k, e)) = Accounted(c)
    BY <1>1, <1>2, TouchSound
  <2> QED
    BY <1>2, <2>1, <2>2
<1>3. CASE ~Holds(c, k)
  <2> DEFINE s == insert_newest(c.entries, e)
             d == [c EXCEPT !.entries = s]
  <2>1. store(c, k, v, x) = Trimmed(d)
    BY <1>3 DEF store
  <2> HIDE DEF e
  <2>2. /\ c \in CacheState /\ c.entries \in Seq(Entry) /\ Len(c.entries) \in Nat
        /\ c.evictions \in Nat /\ c.expired_removals \in Nat
        /\ OrderedByUse(c.entries, use)
    BY DEF Sound, CacheState
  <2>3. s \in Seq(Entry) /\ Len(s) = Len(c.entries) + 1
    BY <1>1, <2>2, InsertNewestProperties
  <2>4. \A i \in 1..Len(c.entries) : c.entries[i].key # e.key
    BY <1>1, <1>3 DEF Holds
  <2>5. OrderedByUse(s, [use EXCEPT ![k] = u + 1])
    BY <1>1, <2>2, <2>4, OrderedInsert
  <2> HIDE DEF s
  <2>6. /\ d \in CacheState /\ d.entries = s /\ d.capacity = c.capacity
        /\ d.evictions = c.evictions /\ d.expired_removals = c.expired_removals
    BY <2>2, <2>3 DEF CacheState
  <2> HIDE DEF d
  <2>7. OrderedByUse(d.entries, [use EXCEPT ![k] = u + 1])
    BY <2>5, <2>6
  <2>8. /\ Sound(Trimmed(d), [use EXCEPT ![k] = u + 1])
        /\ Trimmed(d).capacity = d.capacity
        /\ Accounted(Trimmed(d)) = Accounted(d)
    BY <2>6, <2>7, TrimmedSound
  <2>9. Accounted(d) = Accounted(c) + 1
    <3>1. Len(d.entries) = Len(c.entries) + 1
      BY <2>3, <2>6
    <3>2. Accounted(d) = (Len(c.entries) + 1) + c.evictions + c.expired_removals
      BY <2>6, <3>1 DEF Accounted
    <3>3. Accounted(c) = Len(c.entries) + c.evictions + c.expired_removals
      BY DEF Accounted
    <3> QED
      BY <2>2, <3>2, <3>3
  <2> QED
    BY <1>3, <2>1, <2>6, <2>8, <2>9
<1> QED
  BY <1>2, <1>3

\* A TTL argument is turned into a deadline that is a clock value.
LEMMA DeadlineIsNat ==
    ASSUME NEW t \in Nat, NEW ms \in Int, ms > 0
    PROVE  t + ms * TicksPerMs \in Nat
<1>1. TicksPerMs \in Nat /\ ms \in Nat
  BY TicksAssumption
<1>2. ms * TicksPerMs \in Nat
  BY <1>1
<1> QED
  BY <1>2

\* clear empties the cache and keeps its counters.
LEMMA ClearSound ==
    ASSUME NEW c, NEW use, Sound(c, use)
    PROVE  /\ Sound(clear(c), use)
           /\ clear(c).capacity = c.capacity
           /\ Accounted(clear(c)) = Accounted(c) - Len(c.entries)
<1>1. /\ c \in CacheState /\ Len(c.entries) \in Nat
      /\ c.evictions \in Nat /\ c.expired_removals \in Nat /\ c.capacity \in Nat \cup {None}
  BY DEF Sound, CacheState
<1> DEFINE empty == <<>>
<1>e. empty \in Seq(Entry) /\ Len(empty) = 0
  OBVIOUS
<1>c. clear(c) = [c EXCEPT !.entries = empty]
  BY DEF clear
<1> HIDE DEF empty
<1>2. /\ clear(c) \in CacheState /\ clear(c).entries = empty /\ clear(c).capacity = c.capacity
      /\ clear(c).evictions = c.evictions /\ clear(c).expired_removals = c.expired_removals
  BY <1>1, <1>e, <1>c DEF CacheState
<1>3. Len(clear(c).entries) = 0 /\ OrderedByUse(clear(c).entries, use)
  BY <1>e, <1>2 DEF OrderedByUse
<1> QED
  BY <1>1, <1>2, <1>3, NoneAssumption DEF Sound, Accounted
=============================================================================
