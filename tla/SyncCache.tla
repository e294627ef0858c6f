----------------------------- MODULE SyncCache -----------------------------
(***************************************************************************)
(* Threads calling one SyncCache, down to the steps its mutex hides: the   *)
(* list nodes RecencyList owns, the index of iterators into them, and the  *)
(* order in which each member function of Cache touches the two.           *)
(*                                                                         *)
(* heap maps a list node to the entry in it, or to None once it has been   *)
(* freed; entries is the std::list, as the sequence of its nodes; index is *)
(* index_, where a key that is not in the map has None.  An index iterator *)
(* is the key it was found under: reading it->second reads index again.    *)
(* get_into differs from get only in where the value is copied, so "get"   *)
(* stands for both.                                                        *)
(***************************************************************************)
EXTENDS CacheOps, FiniteSets

CONSTANTS Thread, Node,
          Capacities, \* the capacities a cache may be made with; None is unbounded
          Ttl,       \* the TTL arguments that callers pass, in milliseconds
          MaxTime,   \* bound on the clock
          MaxCalls   \* bound on the number of calls

VARIABLES heap, entries, index, evictions, expired_removals,
          mutex,     \* the thread that holds mutex_, or None
          pc,        \* where each thread is
          call,      \* the call each thread makes
          sampled,   \* the instant each thread last read from the clock
          node,      \* the node each thread has inserted
          ret,       \* what the call is going to return
          now,       \* the steady clock
          calls,     \* calls made so far
          capacity,  \* capacity_, which never changes
          before     \* history: the cache when the mutex was last acquired

shared == <<heap, entries, index, evictions, expired_removals>>
locals == <<call, sampled, node, ret>>
vars == <<shared, mutex, pc, locals, now, calls, before, capacity>>

Call == [op : {"set"}, key : Key, value : Value, ttl : Ttl \cup {None}]
        \cup [op : {"get", "ttl", "erase", "contains"}, key : Key]
        \cup [op : {"clear", "export_entries"}]

\* A set with a TTL of zero or less is an erase whose result is dropped.
Storing(c) == c.op = "set" /\ (c.ttl = None \/ c.ttl > 0)
Erasing(c) == c.op = "erase" \/ (c.op = "set" /\ ~Storing(c))

\* What the list holds, read through its nodes.
Contents ==
    [capacity |-> capacity, entries |-> [i \in 1..Len(entries) |-> heap[entries[i]]],
     evictions |-> evictions, expired_removals |-> expired_removals]

Init ==
    /\ heap = [n \in Node |-> None]
    /\ entries = <<>>
    /\ index = [k \in Key |-> None]
    /\ evictions = 0 /\ expired_removals = 0
    /\ mutex = None
    /\ pc = [t \in Thread |-> "idle"]
    /\ call = [t \in Thread |-> [op |-> "clear"]]
    /\ sampled = [t \in Thread |-> 0]
    /\ node = [t \in Thread |-> None]
    /\ ret = [t \in Thread |-> None]
    /\ now = 0 /\ calls = 0
    /\ capacity \in Capacities
    /\ before = New(capacity)

Goto(t, l) == pc' = [pc EXCEPT ![t] = l]

Return(t, r) == ret' = [ret EXCEPT ![t] = r]

\* The element of the list that it->second designates.
Position(n) == CHOOSE i \in 1..Len(entries) : entries[i] = n

-----------------------------------------------------------------------------
(* The lock_guard of every SyncCache member *)

Enter(t) ==
    /\ pc[t] = "idle" /\ calls < MaxCalls
    /\ calls' = calls + 1
    /\ call' \in {[call EXCEPT ![t] = c] : c \in Call}
    /\ Goto(t, "lock")
    /\ UNCHANGED <<shared, mutex, sampled, node, ret, now, before, capacity>>

\* The mutex lets the thread in.  Mutant: get shares it, as if it only read.
Bad_Admits(t) == mutex = None \/ call[t].op = "get"
Admits(t) == mutex = None

Lock(t) ==
    /\ pc[t] = "lock" /\ Admits(t)
    /\ mutex' = t
    /\ before' = Contents
    /\ Goto(t, CASE call[t].op = "clear" -> "clear_index"
                 [] call[t].op = "export_entries" -> "export"
                 [] OTHER -> "find")
    /\ UNCHANGED <<shared, locals, now, calls, capacity>>

Unlock(t) ==
    /\ pc[t] = "unlock"
    /\ mutex' = None
    /\ Goto(t, "idle")
    /\ ret' = [ret EXCEPT ![t] = None]
    /\ call' = [call EXCEPT ![t] = [op |-> "clear"]]
    /\ sampled' = [sampled EXCEPT ![t] = 0]
    /\ node' = [node EXCEPT ![t] = None]
    /\ UNCHANGED <<shared, now, calls, before, capacity>>

-----------------------------------------------------------------------------
(* Lookup: index_.find, then the expiry check on the entry found *)

\* set evaluates Clock::now() + ttl before store looks the key up.
Find(t) ==
    /\ pc[t] = "find"
    /\ LET c == call[t]
           found == index[c.key] # None IN
       /\ sampled' = IF Storing(c) THEN [sampled EXCEPT ![t] = now] ELSE sampled
       /\ Goto(t, IF Storing(c) THEN (IF found THEN "overwrite" ELSE "insert")
                  ELSE IF found THEN "check" ELSE "unlock")
       /\ Return(t, CASE c.op = "ttl" -> Missing
                      [] c.op \in {"erase", "contains"} -> FALSE
                      [] OTHER -> None)
    /\ UNCHANGED <<shared, mutex, call, node, now, calls, before, capacity>>

Check(t) ==
    /\ pc[t] = "check"
    /\ sampled' = [sampled EXCEPT ![t] = now]
    /\ LET c == call[t]
           e == heap[index[c.key]]
           dead == is_expired(e, now) IN
       /\ Return(t, CASE c.op \in {"erase", "contains"} -> ~dead
                      [] c.op = "ttl" /\ dead -> Missing
                      [] c.op = "ttl" /\ e.expires_at = None -> Persistent
                      [] c.op = "ttl" -> [state |-> "Expiring", remaining |-> Remaining(e, now)]
                      [] OTHER -> None)
       /\ Goto(t, CASE c.op = "contains" -> "unlock"
                    [] Erasing(c) \/ dead -> "remove_node"
                    [] c.op = "get" -> "mark_used"
                    [] OTHER -> "unlock")
       /\ expired_removals' = IF Erasing(c) /\ dead THEN expired_removals + 1
                                                    ELSE expired_removals
    /\ UNCHANGED <<heap, entries, index, evictions, mutex, call, node, now, calls, before, capacity>>

-----------------------------------------------------------------------------
(* The bodies of store and get, past the lookup *)

Overwrite(t) ==
    /\ pc[t] = "overwrite"
    /\ LET c == call[t] IN
       heap' = [heap EXCEPT ![index[c.key]].value = c.value,
                            ![index[c.key]].expires_at =
                                IF c.ttl = None THEN None
                                ELSE sampled[t] + c.ttl * TicksPerMs]
    /\ Goto(t, "mark_used")
    /\ UNCHANGED <<entries, index, evictions, expired_removals, mutex, locals, now, calls, before, capacity>>

MarkUsed(t) ==
    /\ pc[t] = "mark_used"
    /\ entries' = mark_used(entries, Position(index[call[t].key]))
    /\ Goto(t, IF call[t].op = "get" THEN "read" ELSE "unlock")
    /\ UNCHANGED <<heap, index, evictions, expired_removals, mutex, locals, now, calls, before, capacity>>

Read(t) ==
    /\ pc[t] = "read"
    /\ Return(t, heap[index[call[t].key]].value)
    /\ Goto(t, "unlock")
    /\ UNCHANGED <<shared, mutex, call, sampled, node, now, calls, before, capacity>>

\* The allocator may hand out any node that is not in use.
Insert(t) ==
    /\ pc[t] = "insert"
    /\ \E n \in {m \in Node : heap[m] = None} :
         LET c == call[t] IN
         /\ heap' = [heap EXCEPT ![n] =
                       [key |-> c.key, value |-> c.value,
                        expires_at |-> IF c.ttl = None THEN None
                                       ELSE sampled[t] + c.ttl * TicksPerMs]]
         /\ entries' = insert_newest(entries, n)
         /\ node' = [node EXCEPT ![t] = n]
    /\ Goto(t, "emplace")
    /\ UNCHANGED <<index, evictions, expired_removals, mutex, call, sampled, ret, now, calls, before, capacity>>

Emplace(t) ==
    /\ pc[t] = "emplace"
    /\ index' = [index EXCEPT ![call[t].key] = node[t]]
    /\ Goto(t, "trim")
    /\ UNCHANGED <<heap, entries, evictions, expired_removals, mutex, locals, now, calls, before, capacity>>

\* index_.size()
Size == Cardinality({k \in Key : index[k] # None})

\* Mutant: the loop does not end.
Bad_AfterTrim == IF capacity # None /\ Size > capacity THEN "evict_index" ELSE "trim"
AfterTrim == IF capacity # None /\ Size > capacity THEN "evict_index" ELSE "unlock"

Trim(t) ==
    /\ pc[t] = "trim"
    /\ Goto(t, AfterTrim)
    /\ UNCHANGED <<shared, mutex, locals, now, calls, before, capacity>>

\* evict_oldest erases the victim from the map, by the key in its node...
EvictIndex(t) ==
    /\ pc[t] = "evict_index"
    /\ index' = [index EXCEPT ![heap[Last(entries)].key] = None]
    /\ Goto(t, "evict_node")
    /\ UNCHANGED <<heap, entries, evictions, expired_removals, mutex, locals, now, calls, before, capacity>>

\* ...and only then destroys the node that holds the key.
EvictNode(t) ==
    /\ pc[t] = "evict_node"
    /\ heap' = [heap EXCEPT ![Last(entries)] = None]
    /\ entries' = Front(entries)
    /\ evictions' = evictions + 1
    /\ Goto(t, "trim")
    /\ UNCHANGED <<index, expired_removals, mutex, locals, now, calls, before, capacity>>

-----------------------------------------------------------------------------
(* remove, clear and export_entries *)

RemoveNode(t) ==
    /\ pc[t] = "remove_node"
    /\ LET n == index[call[t].key] IN
       /\ entries' = RemoveAt(entries, Position(n))
       /\ heap' = [heap EXCEPT ![n] = None]
    /\ Goto(t, "remove_index")
    /\ UNCHANGED <<index, evictions, expired_removals, mutex, locals, now, calls, before, capacity>>

\* Mutant: the key stays in the map.
Bad_Unindexed(k) == index
Unindexed(k) == [index EXCEPT ![k] = None]

\* find_live and ttl count the expiry after remove; erase has counted it already.
\* Mutant: it is counted again.
Bad_Counts(c) == TRUE
Counts(c) == ~Erasing(c)

RemoveIndex(t) ==
    /\ pc[t] = "remove_index"
    /\ index' = Unindexed(call[t].key)
    /\ expired_removals' = IF Counts(call[t]) THEN expired_removals + 1 ELSE expired_removals
    /\ Goto(t, "unlock")
    /\ UNCHANGED <<heap, entries, evictions, mutex, locals, now, calls, before, capacity>>

ClearIndex(t) ==
    /\ pc[t] = "clear_index"
    /\ index' = [k \in Key |-> None]
    /\ Goto(t, "clear_list")
    /\ UNCHANGED <<heap, entries, evictions, expired_removals, mutex, locals, now, calls, before, capacity>>

ClearList(t) ==
    /\ pc[t] = "clear_list"
    /\ heap' = [n \in Node |-> IF n \in ToSet(entries) THEN None ELSE heap[n]]
    /\ entries' = <<>>
    /\ Goto(t, "unlock")
    /\ UNCHANGED <<index, evictions, expired_removals, mutex, locals, now, calls, before, capacity>>

Export(t) ==
    /\ pc[t] = "export"
    /\ sampled' = [sampled EXCEPT ![t] = now]
    /\ Return(t, export_entries(Contents, now))
    /\ Goto(t, "unlock")
    /\ UNCHANGED <<shared, mutex, call, node, now, calls, before, capacity>>

-----------------------------------------------------------------------------
Tick ==
    /\ now < MaxTime
    /\ now' = now + 1
    /\ UNCHANGED <<shared, mutex, pc, locals, calls, before, capacity>>

\* Every call has been made and has returned.
Quiescent ==
    /\ calls = MaxCalls /\ now = MaxTime
    /\ \A t \in Thread : pc[t] = "idle"
    /\ UNCHANGED vars

Body(t) ==
    \/ Find(t) \/ Check(t) \/ Overwrite(t) \/ MarkUsed(t) \/ Read(t)
    \/ Insert(t) \/ Emplace(t) \/ Trim(t) \/ EvictIndex(t) \/ EvictNode(t)
    \/ RemoveNode(t) \/ RemoveIndex(t) \/ ClearIndex(t) \/ ClearList(t) \/ Export(t)

Next == \/ \E t \in Thread : Enter(t) \/ Lock(t) \/ Body(t) \/ Unlock(t)
        \/ Tick
        \/ Quiescent

Spec == Init /\ [][Next]_vars

\* A thread that can take a step of its call takes it: the operating system
\* runs every runnable thread, and hands a free mutex to some waiter.
FairSpec == Spec /\ \A t \in Thread : WF_vars(Lock(t) \/ Body(t) \/ Unlock(t))

-----------------------------------------------------------------------------
(* Properties *)

\* No step reads or writes through a dangling iterator: the index iterator a
\* call holds is still in the map when it->second is read, the list node that
\* designates is alive and linked, and the victim of an eviction exists.
NoDanglingAccess ==
    \A t \in Thread :
        /\ pc[t] \in {"check", "overwrite", "mark_used", "read", "remove_node", "remove_index"} =>
              index[call[t].key] # None
        /\ pc[t] \in {"check", "overwrite", "mark_used", "read", "remove_node"} =>
              /\ index[call[t].key] \in ToSet(entries)
              /\ heap[index[call[t].key]] # None
        /\ pc[t] \in {"evict_index", "evict_node"} =>
              entries # <<>> /\ heap[Last(entries)] # None

\* While no thread is inside the cache the two structures agree: the map finds
\* for each key the node that holds it, every node of the list is found by the
\* map, none is linked twice, and no node is allocated but unlinked (leaked).
StructuresAgree ==
    mutex = None =>
        /\ \A k \in Key : index[k] # None => /\ index[k] \in ToSet(entries)
                                             /\ heap[index[k]].key = k
        /\ \A i \in 1..Len(entries) : index[heap[entries[i]].key] = entries[i]
        /\ ToSet(entries) = {n \in Node : heap[n] # None}
        /\ Len(entries) = Cardinality(ToSet(entries))

\* What each call does to the cache, and returns, as one indivisible operation.
Apply(c, call_, t) ==
    CASE call_.op = "set" ->
            [cache |-> IF call_.ttl = None THEN set(c, call_.key, call_.value)
                       ELSE set_ttl(c, call_.key, call_.value, call_.ttl, t),
             ret   |-> None]
      [] call_.op = "get" -> get(c, call_.key, t)
      [] call_.op = "ttl" -> ttl(c, call_.key, t)
      [] call_.op = "erase" -> erase(c, call_.key, t)
      [] call_.op = "contains" -> [cache |-> c, ret |-> contains(c, call_.key, t)]
      [] call_.op = "clear" -> [cache |-> clear(c), ret |-> None]
      [] call_.op = "export_entries" -> [cache |-> c, ret |-> export_entries(c, t)]

\* The pointer manipulation of a critical section amounts to the operation of
\* CacheOps on the cache as it was when the mutex was taken, at the one instant
\* the call read the clock: same entries in the same order, same counters, same
\* result.
CriticalSectionIsTheOperation ==
    \A t \in Thread :
        pc[t] = "unlock" =>
            LET r == Apply(before, call[t], sampled[t])
                result == IF call[t].op = "set" THEN None ELSE ret[t]
            IN  Contents = r.cache /\ result = r.ret

\* Every call that has begun returns: no path leaves without unlocking, and the
\* trimming loop of store terminates.
CallsReturn == \A t \in Thread : pc[t] # "idle" ~> pc[t] = "idle"
=============================================================================
