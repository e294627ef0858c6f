---------------------------- MODULE Persistence ----------------------------
(***************************************************************************)
(* PersistenceManager: threads saving a ShardedCache to the snapshot file  *)
(* and loading it back, while clients use the cache, either clock moves,   *)
(* I/O fails and the process is killed and restarted.                      *)
(*                                                                         *)
(* Files are what the calls made on them depend on.  disk is the sequence  *)
(* of inodes ever created; snapshot and temp say which inode the snapshot  *)
(* path and each temporary path name.  A file holds its header, its        *)
(* records, and in broken the record from which on it cannot be read, 0    *)
(* for the header, None when all of it can.  The format has no checksum:   *)
(* damage that leaves well-formed records is not modelled.                 *)
(*                                                                         *)
(* The fields due and copied_at of a record, and image and stamped_at of a *)
(* file, are not in the file: they remember what it was made from.         *)
(***************************************************************************)
EXTENDS ShardedOps, SnapshotOps, FiniteSets

CONSTANTS Thread, Main,             \* Main loads the snapshot before anything else runs
          shard_count, total_capacity,
          Ttl,                      \* the TTL arguments that callers pass, in milliseconds
          Epoch,                    \* what the system clock shows when the steady one shows 0
          MaxTime, MaxStores, MaxSaves, MaxLoads, MaxCrashes, MaxJumps

ASSUME SavesAssumption == MaxSaves \in Nat

VARIABLES shards, now, wall,        \* steady_clock and system_clock, in ticks
          up,                       \* the server has started
          disk, snapshot, temp,
          counter,                  \* what unique_temp_path counts
          call,                     \* the save or load each thread is in
          restored,                 \* history: the last entry a load has stored
          damaged,                  \* history: inodes the medium has damaged
          count                     \* of stores, saves, loads, crashes and clock jumps so far

files == <<disk, snapshot, temp, counter>>
vars == <<shards, now, wall, up, files, call, restored, damaged, count>>

Count == ShardsMade(shard_count, total_capacity)
shard_for(k) == shard_index_for(k, Count)

wall_clock_ms == wall \div TicksPerMs

Idle == [pc |-> "idle"]

Init ==
    /\ shards = NewShards(shard_count, total_capacity)
    /\ now = 0 /\ wall = Epoch
    /\ up = FALSE
    /\ disk = <<>> /\ snapshot = None
    /\ temp = [n \in 0..MaxSaves - 1 |-> None] /\ counter = 0
    /\ call = [t \in Thread |-> Idle]
    /\ restored = None /\ damaged = {}
    /\ count = [stores |-> 0, saves |-> 0, loads |-> 0, crashes |-> 0, jumps |-> 0]

Spend(what, max) == count[what] < max /\ count' = [count EXCEPT ![what] = @ + 1]

Goto(t, c) == call' = [call EXCEPT ![t] = c]

-----------------------------------------------------------------------------
(* save *)

SaveBegin(t) ==
    /\ up /\ call[t] = Idle
    /\ Spend("saves", MaxSaves)
    /\ Goto(t, [pc |-> "export", records |-> <<>>, image |-> <<>>])
    /\ UNCHANGED <<shards, now, wall, up, files, restored, damaged>>

Record(e, c) ==
    LET r == Written(e) IN
    [key |-> r.key, value |-> r.value, ttl_ms |-> r.ttl_ms,
     due |-> c.entries[Slot(c, e.key)].expires_at, copied_at |-> now]

\* export_entries copies the next shard.
SaveExport(t) ==
    /\ call[t].pc = "export"
    /\ LET c == shards[Len(call[t].image)]
           copy == export_entries(c, now)
           image == Append(call[t].image, c) IN
       Goto(t, [pc |-> IF Len(image) = Count THEN "open" ELSE "export",
                records |-> call[t].records \o [i \in 1..Len(copy) |-> Record(copy[i], c)],
                image |-> image])
    /\ UNCHANGED <<shards, now, wall, up, files, restored, damaged, count>>

\* Mutant: one temporary file for everybody.
Bad_unique_temp_path == 0

unique_temp_path == counter

\* The header is stamped, and nothing is on disk yet.  No more saves begin than
\* there are paths, so that the bound on counter never binds.
SaveOpen(t) ==
    /\ call[t].pc = "open" /\ counter < MaxSaves
    /\ counter' = counter + 1
    /\ LET path == unique_temp_path
           fd == IF temp[path] # None THEN temp[path] ELSE Len(disk) + 1
           file == [saved_at |-> wall_clock_ms, records |-> call[t].records, broken |-> 0,
                    writer |-> t, image |-> call[t].image, stamped_at |-> now] IN
       /\ disk' = [n \in 1..Len(disk) \cup {fd} |-> IF n = fd THEN file ELSE disk[n]]
       /\ temp' = [temp EXCEPT ![path] = fd]
       /\ Goto(t, [pc |-> "write", path |-> path, fd |-> fd])
    /\ UNCHANGED <<shards, now, wall, up, snapshot, restored, damaged, count>>

SaveOpenFails(t) ==
    /\ call[t].pc = "open"
    /\ counter' = counter + 1
    /\ Goto(t, Idle)
    /\ UNCHANGED <<shards, now, wall, up, disk, snapshot, temp, restored, damaged, count>>

\* Two writers of one inode would leave a mixture of their files.
SaveWrite(t) ==
    /\ call[t].pc = "write"
    /\ disk' = [disk EXCEPT ![call[t].fd].broken = IF disk[call[t].fd].writer = t THEN None ELSE 0]
    /\ Goto(t, [call[t] EXCEPT !.pc = "rename"])
    /\ UNCHANGED <<shards, now, wall, up, snapshot, temp, counter, restored, damaged, count>>

SaveRename(t) ==
    /\ call[t].pc = "rename" /\ temp[call[t].path] # None
    /\ snapshot' = temp[call[t].path]
    /\ temp' = [temp EXCEPT ![call[t].path] = None]
    /\ Goto(t, Idle)
    /\ UNCHANGED <<shards, now, wall, up, disk, counter, restored, damaged, count>>

\* std::remove.  Mutant: it is forgotten.
Bad_Removed(path) == temp
Removed(path) == [temp EXCEPT ![path] = None]

\* The write or the rename fails, and the temporary file is removed.
SaveFails(t) ==
    /\ call[t].pc \in {"write", "rename"}
    /\ temp' = Removed(call[t].path)
    /\ Goto(t, Idle)
    /\ UNCHANGED <<shards, now, wall, up, disk, snapshot, counter, restored, damaged, count>>

-----------------------------------------------------------------------------
(* load *)

\* load returns, and if it was the one at startup the server comes up, whatever
\* the outcome.
Loaded(t) == Goto(t, Idle) /\ up' = TRUE

\* The file is opened and its header read.  A file that is missing, cannot be
\* opened, or whose header makes no sense, changes nothing.
LoadOpen(t) ==
    /\ call[t] = Idle
    /\ IF up THEN Spend("loads", MaxLoads) ELSE t = Main /\ UNCHANGED count
    /\ \/ Loaded(t)
       \/ /\ snapshot # None /\ disk[snapshot].broken # 0
          /\ Goto(t, [pc |-> "parse", fd |-> snapshot, file |-> disk[snapshot],
                      parsed |-> 0, left |-> 0, loaded |-> 0,
                      elapsed_ms |-> elapsed_ms(disk[snapshot].saved_at, wall_clock_ms),
                      read_at |-> now])
          /\ UNCHANGED up
    /\ UNCHANGED <<shards, now, wall, files, restored, damaged>>

\* One record is stored, in its shard, unless its time is up.
Apply(t, r) ==
    LET s == shard_for(r.key)
        elapsed == call[t].elapsed_ms IN
    /\ shards' = [shards EXCEPT ![s] = Restore(@, r, elapsed, now)]
    /\ restored' = IF ~Survives(r, elapsed) \/ shards'[s].entries = <<>> THEN restored
                   ELSE [record |-> r, at |-> now, read_at |-> call[t].read_at,
                         stamped_at |-> call[t].file.stamped_at,
                         expires_at |-> Head(shards'[s].entries).expires_at]

Kept(t, r) == IF Survives(r, call[t].elapsed_ms) THEN call[t].loaded + 1 ELSE call[t].loaded

\* The next record cannot be read: the file ends in it, or before it.
Unreadable(c) == disk[c.fd].broken # None /\ disk[c.fd].broken <= c.parsed + 1

\* Mutant: each record is stored as soon as it is read.
Bad_LoadParse(t) ==
    /\ call[t].pc = "parse" /\ call[t].parsed < Len(call[t].file.records)
    /\ IF Unreadable(call[t]) THEN Loaded(t) /\ UNCHANGED <<shards, restored>>
       ELSE LET r == call[t].file.records[call[t].parsed + 1] IN
            /\ Apply(t, r)
            /\ Goto(t, [call[t] EXCEPT !.parsed = @ + 1, !.loaded = Kept(t, r)])
            /\ UNCHANGED up
    /\ UNCHANGED <<now, wall, files, damaged, count>>

\* The loop that reads the records; the first that cannot be read ends the load.
LoadParse(t) ==
    /\ call[t].pc = "parse" /\ call[t].parsed < Len(call[t].file.records)
    /\ IF Unreadable(call[t]) THEN Loaded(t)
       ELSE Goto(t, [call[t] EXCEPT !.parsed = @ + 1]) /\ UNCHANGED up
    /\ UNCHANGED <<shards, now, wall, files, restored, damaged, count>>

\* All of them have been read.
LoadParsed(t) ==
    /\ call[t].pc = "parse" /\ call[t].parsed = Len(call[t].file.records)
    /\ Goto(t, [call[t] EXCEPT !.pc = "apply", !.left = call[t].parsed])
    /\ UNCHANGED <<shards, now, wall, up, files, restored, damaged, count>>

\* The records are stored from the last to the first.  Mutant: the first comes first.
Bad_NextRecord(c) == c.file.records[Len(c.file.records) + 1 - c.left]
NextRecord(c) == c.file.records[c.left]

LoadApply(t) ==
    /\ call[t].pc = "apply" /\ call[t].left > 0
    /\ Apply(t, NextRecord(call[t]))
    /\ Goto(t, [call[t] EXCEPT !.left = @ - 1, !.loaded = Kept(t, NextRecord(call[t]))])
    /\ UNCHANGED <<now, wall, up, files, damaged, count>>

LoadDone(t) ==
    /\ call[t].pc = "apply" /\ call[t].left = 0
    /\ Loaded(t)
    /\ UNCHANGED <<shards, now, wall, files, restored, damaged, count>>

-----------------------------------------------------------------------------
(* The clients, the clocks, the process and the medium *)

OnShard(k, c) ==
    /\ up
    /\ shards' = [shards EXCEPT ![shard_for(k)] = c]
    /\ UNCHANGED <<now, wall, up, files, call, restored, damaged>>

Set(k, v) ==
    OnShard(k, set(shards[shard_for(k)], k, v)) /\ Spend("stores", MaxStores)

SetTtl(k, v, ttl_ms) ==
    /\ OnShard(k, set_ttl(shards[shard_for(k)], k, v, ttl_ms, now))
    /\ Spend("stores", MaxStores)

Get(k) ==
    OnShard(k, get(shards[shard_for(k)], k, now).cache) /\ UNCHANGED count

Tick ==
    /\ now < MaxTime
    /\ now' = now + 1 /\ wall' = wall + 1
    /\ UNCHANGED <<shards, up, files, call, restored, damaged, count>>

\* The system clock is set back, or forward.
Jump ==
    /\ Spend("jumps", MaxJumps)
    /\ wall' \in {wall - Epoch, wall + Epoch} \ {wall}
    /\ UNCHANGED <<shards, now, up, files, call, restored, damaged>>

\* The process dies at any point, and is started again.  Temporary paths hold the
\* process id: the new process has names of its own, or, when the id is the same
\* (as in a container), starts over with the old ones.
Crash ==
    /\ up /\ Spend("crashes", MaxCrashes)
    /\ up' = FALSE
    /\ shards' = NewShards(shard_count, total_capacity)
    /\ call' = [t \in Thread |-> Idle]
    /\ restored' = None
    /\ counter' \in {counter, 0}
    /\ UNCHANGED <<now, wall, disk, snapshot, temp, damaged>>

\* The medium loses the end of the snapshot file.
Damage ==
    /\ snapshot # None /\ snapshot \notin damaged
    /\ \E n \in 0..Len(disk[snapshot].records) :
          disk' = [disk EXCEPT ![snapshot].broken = n]
    /\ damaged' = damaged \cup {snapshot}
    /\ UNCHANGED <<shards, now, wall, up, snapshot, temp, counter, call, restored, count>>

-----------------------------------------------------------------------------
save(t) == SaveBegin(t) \/ SaveExport(t) \/ SaveOpen(t) \/ SaveOpenFails(t)
           \/ SaveWrite(t) \/ SaveRename(t) \/ SaveFails(t)

load(t) == LoadOpen(t) \/ LoadParse(t) \/ LoadParsed(t) \/ LoadApply(t) \/ LoadDone(t)

Next ==
    \/ \E t \in Thread : save(t) \/ load(t)
    \/ \E k \in Key, v \in Value : Set(k, v)
    \/ \E k \in Key, v \in Value, ttl_ms \in Ttl : SetTtl(k, v, ttl_ms)
    \/ \E k \in Key : Get(k)
    \/ Tick \/ Jump \/ Crash \/ Damage

Spec == Init /\ [][Next]_vars

-----------------------------------------------------------------------------
(* Properties *)

\* Whatever is killed, fails or runs at the same time, the snapshot path names
\* nothing, or a file that one save has written completely.
SnapshotIsWhole ==
    snapshot # None /\ snapshot \notin damaged => disk[snapshot].broken = None

\* A save that is over, in whatever way, has left no temporary file behind,
\* unless the process was killed.
NoTemporaryLeft ==
    count.crashes = 0 /\ (\A t \in Thread : call[t].pc \notin {"write", "rename"}) =>
        \A n \in DOMAIN temp : temp[n] = None

\* A load that gives up, at whichever record and whatever happens to the file while
\* it is being read, has stored nothing: a file is applied whole or not at all.
FailedLoadChangesNothing ==
    [][\A t \in Thread : call[t].pc = "parse" /\ call'[t] = Idle /\ up' => call[t].loaded = 0]_vars

\* When the load at startup is through, each shard holds what it held when the
\* snapshot was taken, most recently used first, but for keys with a deadline,
\* of which those that ran out may be missing.
RestartRestores ==
    \A t \in Thread :
        ~up /\ call[t].pc = "apply" /\ call[t].left = 0 =>
            \A i \in 0..Count - 1 :
                LET then == call[t].file.image[i + 1]
                    back == ToSet(keys_by_recency(shards[i])) IN
                /\ keys_by_recency(shards[i]) =
                      SelectSeq(keys_by_recency(then), LAMBDA k : k \in back)
                /\ \A j \in 1..Len(then.entries) :
                      LET e == then.entries[j] IN
                      IF e.key \in back
                      THEN shards[i].entries[Slot(shards[i], e.key)].value = e.value
                      ELSE e.expires_at # None

\* By how much a restored key may outlive its deadline: the time save took from
\* copying it to stamping the header, the time load took from reading the header
\* to storing it, and what truncating to milliseconds hides.
Slack(r) == (r.stamped_at - r.record.copied_at) + (r.at - r.read_at) + (TicksPerMs - 1)

\* As long as the system clock is not set, a load neither makes a key with a
\* deadline permanent, or the reverse, nor moves the deadline by more than the
\* save and the load took.
DeadlinesSurvive ==
    restored # None =>
        /\ restored.expires_at = None <=> restored.record.due = None
        /\ restored.expires_at # None /\ count.jumps = 0 =>
              /\ restored.expires_at <= restored.record.due + Slack(restored)
              /\ restored.record.due <= restored.expires_at + 2 * (TicksPerMs - 1)

\* However the system clock is set, no key comes back with more time than it had
\* left when it was saved.
NeverMoreThanSaved ==
    restored # None /\ restored.expires_at # None =>
        restored.expires_at - restored.at <= restored.record.due - restored.record.copied_at

\* However the system clock is set, a load does not resurrect a key whose deadline
\* has passed, give or take the time that save and load took.
NeverResurrects ==
    restored # None /\ restored.record.due # None =>
        restored.at < restored.record.due + Slack(restored)
=============================================================================
