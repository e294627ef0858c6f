-------------------------- MODULE PersistenceProofs --------------------------
(***************************************************************************)
(* For any number of threads, keys, saves, loads and crashes, and wherever *)
(* a call on a file fails: the snapshot is always a whole file, no save    *)
(* leaves a temporary file, and a load that fails has changed nothing.     *)
(***************************************************************************)
EXTENDS Persistence, TLAPS

Live(t) == call[t].pc \in {"write", "rename"}

\* The variables the argument is about, as far as it needs their shape.
Shapes ==
    /\ \E S : disk \in Seq(S)
    /\ \A n \in 1..Len(disk) :
          DOMAIN disk[n] = {"saved_at", "records", "broken", "writer", "image", "stamped_at"}
    /\ snapshot \in 1..Len(disk) \cup {None}
    /\ temp \in [0..MaxSaves - 1 -> 1..Len(disk) \cup {None}]
    /\ counter \in Nat
    /\ call = [t \in Thread |-> call[t]]
    /\ \A t \in Thread : Live(t) =>
          DOMAIN call[t] = {"pc", "path", "fd"} /\ call[t].path \in 0..MaxSaves - 1
    /\ count \in [stores : Nat, saves : Nat, loads : Nat, crashes : Nat, jumps : Nat]

\* A file has one name.
NamesAreUnique ==
    \A n \in 0..MaxSaves - 1 : temp[n] # None =>
        /\ temp[n] # snapshot
        /\ \A m \in 0..MaxSaves - 1 : temp[m] = temp[n] => m = n

\* A save that is writing has a path and a file of its own.  The counter is above
\* every path in use, but not above those a killed process has left behind.
WritersAreApart ==
    \A t \in Thread : Live(t) =>
        /\ call[t].path < counter
        /\ call[t].fd = temp[call[t].path] /\ call[t].fd # None
        /\ disk[call[t].fd].writer = t
        /\ call[t].pc = "rename" => disk[call[t].fd].broken = None
        /\ \A u \in Thread : Live(u) /\ call[u].path = call[t].path => u = t

\* Unless the process was killed, every temporary file is being written.
TemporariesAreUsed ==
    count.crashes = 0 =>
        \A n \in 0..MaxSaves - 1 : temp[n] # None => \E t \in Thread : Live(t) /\ call[t].path = n

Reading(c) ==
    /\ c.pc \in {"parse", "apply"} => {"pc", "parsed", "left", "loaded"} \subseteq DOMAIN c
    /\ c.pc = "parse" => c.loaded = 0

\* A load that is still reading has stored nothing.
ReadersHaveNotStored ==
    \A t \in Thread : Reading(call[t])

IInv == Shapes /\ NamesAreUnique /\ WritersAreApart /\ TemporariesAreUsed /\ ReadersHaveNotStored
        /\ SnapshotIsWhole

-----------------------------------------------------------------------------
\* The invariant holds when the process first starts.
LEMMA InitIInv == Init => IInv
<1> SUFFICES ASSUME Init PROVE IInv
  OBVIOUS
<1>1. disk = <<>> /\ Len(disk) = 0 /\ disk \in Seq({})
  BY DEF Init
<1>2. \A t \in Thread : call[t].pc = "idle"
  BY DEF Init, Idle
<1>3. Shapes
  BY <1>1, <1>2 DEF Init, Shapes, Live
<1>4. NamesAreUnique /\ WritersAreApart /\ TemporariesAreUsed /\ ReadersHaveNotStored
  BY <1>2 DEF Init, NamesAreUnique, WritersAreApart, TemporariesAreUsed, ReadersHaveNotStored, Live, Reading
<1> QED
  BY <1>3, <1>4 DEF IInv, SnapshotIsWhole, Init

\* A step that touches neither the files nor a save that is writing one.
LEMMA AsideIInv ==
    ASSUME IInv, UNCHANGED <<disk, snapshot, temp, damaged>>, counter' \in {counter, counter + 1},
           call' = [t \in Thread |-> call'[t]],
           \A t \in Thread : IF call'[t] = call[t] THEN TRUE
                             ELSE /\ ~Live(t) /\ ~Live(t)'
                                  /\ Reading(call'[t]),
           count' \in [stores : Nat, saves : Nat, loads : Nat, crashes : Nat, jumps : Nat],
           count'.crashes = count.crashes
    PROVE  IInv'
<1> USE DEF IInv
<1>1. \A t \in Thread : /\ Live(t)' <=> Live(t)
                        /\ Live(t) => call'[t] = call[t]
  BY DEF Live
<1>2. Shapes'
  BY <1>1 DEF Shapes
<1>3. NamesAreUnique'
  BY DEF NamesAreUnique
<1>4. WritersAreApart'
  BY <1>1 DEF WritersAreApart, Shapes
<1>5. TemporariesAreUsed'
  BY <1>1 DEF TemporariesAreUsed
<1>6. ReadersHaveNotStored'
  BY DEF ReadersHaveNotStored
<1>7. SnapshotIsWhole'
  BY DEF SnapshotIsWhole
<1> QED
  BY <1>2, <1>3, <1>4, <1>5, <1>6, <1>7

\* One thread moves on to c, which is not a save that is writing.
LEMMA CallAside ==
    ASSUME IInv, NEW t \in Thread, NEW c, Goto(t, c), ~Live(t), c.pc \notin {"write", "rename"},
           Reading(c),
           UNCHANGED <<disk, snapshot, temp, damaged>>, counter' \in {counter, counter + 1},
           count' \in [stores : Nat, saves : Nat, loads : Nat, crashes : Nat, jumps : Nat],
           count'.crashes = count.crashes
    PROVE  IInv'
<1>1. call' = [call EXCEPT ![t] = c] /\ call = [u \in Thread |-> call[u]]
  BY DEF Goto, IInv, Shapes
<1>2. call' = [u \in Thread |-> call'[u]] /\ call'[t] = c
      /\ \A u \in Thread : u # t => call'[u] = call[u]
  BY <1>1
<1>3. \A u \in Thread : IF call'[u] = call[u] THEN TRUE
                        ELSE /\ ~Live(u) /\ ~Live(u)'
                             /\ Reading(call'[u])
  BY <1>2 DEF Live
<1> QED
  BY <1>2, <1>3, AsideIInv

\* The counts of what has happened; only Crash counts crashes.
LEMMA SpendCounts ==
    ASSUME Shapes, NEW what \in {"stores", "saves", "loads", "jumps"}, NEW max, Spend(what, max)
    PROVE  /\ count' \in [stores : Nat, saves : Nat, loads : Nat, crashes : Nat, jumps : Nat]
           /\ count'.crashes = count.crashes
<1>1. /\ count \in [stores : Nat, saves : Nat, loads : Nat, crashes : Nat, jumps : Nat]
      /\ count' = [count EXCEPT ![what] = @ + 1]
  BY DEF Shapes, Spend
<1>2. CASE what = "stores"
  BY <1>1, <1>2
<1>3. CASE what = "saves"
  BY <1>1, <1>3
<1>4. CASE what = "loads"
  BY <1>1, <1>4
<1>5. CASE what = "jumps"
  BY <1>1, <1>5
<1> QED
  BY <1>2, <1>3, <1>4, <1>5

\* A save that is not writing yet, and a load, whatever becomes of it.
LEMMA ReadingIInv ==
    ASSUME IInv, NEW t \in Thread,
           SaveBegin(t) \/ SaveExport(t) \/ SaveOpenFails(t) \/ load(t)
    PROVE  IInv'
<1> USE DEF IInv, files
<1>c. ASSUME UNCHANGED count
      PROVE  /\ count' \in [stores : Nat, saves : Nat, loads : Nat, crashes : Nat, jumps : Nat]
             /\ count'.crashes = count.crashes
  BY <1>c DEF Shapes
<1>1. CASE SaveBegin(t)
  <2>1. ~Live(t)
    BY <1>1 DEF SaveBegin, Live, Idle
  <2>2. /\ count' \in [stores : Nat, saves : Nat, loads : Nat, crashes : Nat, jumps : Nat]
        /\ count'.crashes = count.crashes
    BY <1>1, SpendCounts DEF SaveBegin
  <2>3. PICK c : Goto(t, c) /\ c.pc = "export" /\ Reading(c)
    BY <1>1 DEF SaveBegin, Reading
  <2> QED
    BY <1>1, <2>1, <2>2, <2>3, CallAside DEF SaveBegin
<1>2. CASE SaveExport(t)
  <2>1. ~Live(t)
    BY <1>2 DEF SaveExport, Live
  <2> DEFINE shard == shards[Len(call[t].image)]
             copy == export_entries(shard, now)
             image == Append(call[t].image, shard)
             c == [pc |-> IF Len(image) = Count THEN "open" ELSE "export",
                   records |-> call[t].records \o [i \in 1..Len(copy) |-> Record(copy[i], shard)],
                   image |-> image]
  <2>2. Goto(t, c)
    BY <1>2, Zenon DEF SaveExport
  <2>3. c.pc \in {"open", "export"} /\ Reading(c)
    BY DEF Reading
  <2> HIDE DEF c
  <2> QED
    BY <1>2, <1>c, <2>1, <2>2, <2>3, CallAside DEF SaveExport
<1>3. CASE SaveOpenFails(t)
  <2>1. ~Live(t) /\ Idle.pc = "idle" /\ Reading(Idle)
    BY <1>3 DEF SaveOpenFails, Live, Idle, Reading
  <2> QED
    BY <1>3, <1>c, <2>1, CallAside DEF SaveOpenFails
<1>4. CASE LoadOpen(t)
  <2>1. ~Live(t) /\ Idle.pc = "idle" /\ Reading(Idle)
    BY <1>4 DEF LoadOpen, Live, Idle, Reading
  <2>2. /\ count' \in [stores : Nat, saves : Nat, loads : Nat, crashes : Nat, jumps : Nat]
        /\ count'.crashes = count.crashes
    BY <1>4, <1>c, SpendCounts DEF LoadOpen
  <2>3. CASE Goto(t, Idle)
    BY <1>4, <2>1, <2>2, <2>3, CallAside DEF LoadOpen
  <2>4. CASE ~Goto(t, Idle)
    <3> DEFINE c == [pc |-> "parse", fd |-> snapshot, file |-> disk[snapshot],
                     parsed |-> 0, left |-> 0, loaded |-> 0,
                     elapsed_ms |-> elapsed_ms(disk[snapshot].saved_at, wall_clock_ms),
                     read_at |-> now]
    <3>1. Goto(t, c)
      BY <1>4, <2>4 DEF LoadOpen, Loaded
    <3>2. c.pc = "parse" /\ Reading(c)
      BY DEF Reading
    <3> HIDE DEF c
    <3> QED
      BY <1>4, <2>1, <2>2, <3>1, <3>2, CallAside DEF LoadOpen
  <2> QED
    BY <2>3, <2>4
<1>5. CASE LoadParse(t)
  <2>1. ~Live(t) /\ Idle.pc = "idle" /\ Reading(Idle)
    BY <1>5 DEF LoadParse, Live, Idle, Reading
  <2>2. CASE Goto(t, Idle)
    BY <1>5, <1>c, <2>1, <2>2, CallAside DEF LoadParse
  <2>3. CASE ~Goto(t, Idle)
    <3> DEFINE c == [call[t] EXCEPT !.parsed = @ + 1]
    <3>1. Goto(t, c)
      BY <1>5, <2>3 DEF LoadParse, Loaded
    <3>2. c.pc = "parse" /\ Reading(c)
      BY <1>5 DEF LoadParse, ReadersHaveNotStored, Reading
    <3> HIDE DEF c
    <3> QED
      BY <1>5, <1>c, <2>1, <3>1, <3>2, CallAside DEF LoadParse
  <2> QED
    BY <2>2, <2>3
<1>6. CASE LoadParsed(t)
  <2>1. ~Live(t)
    BY <1>6 DEF LoadParsed, Live
  <2> DEFINE c == [call[t] EXCEPT !.pc = "apply", !.left = call[t].parsed]
  <2>2. Goto(t, c)
    BY <1>6 DEF LoadParsed
  <2>3. c.pc = "apply" /\ Reading(c)
    BY <1>6 DEF LoadParsed, ReadersHaveNotStored, Reading
  <2> HIDE DEF c
  <2> QED
    BY <1>6, <1>c, <2>1, <2>2, <2>3, CallAside DEF LoadParsed
<1>7. CASE LoadApply(t)
  <2>1. ~Live(t)
    BY <1>7 DEF LoadApply, Live
  <2> DEFINE c == [call[t] EXCEPT !.left = @ - 1, !.loaded = Kept(t, NextRecord(call[t]))]
  <2>2. Goto(t, c)
    BY <1>7 DEF LoadApply
  <2>3. c.pc = "apply" /\ Reading(c)
    BY <1>7 DEF LoadApply, ReadersHaveNotStored, Reading
  <2> HIDE DEF c
  <2> QED
    BY <1>7, <1>c, <2>1, <2>2, <2>3, CallAside DEF LoadApply
<1>8. CASE LoadDone(t)
  <2>1. ~Live(t) /\ Idle.pc = "idle" /\ Reading(Idle)
    BY <1>8 DEF LoadDone, Live, Idle, Reading
  <2> QED
    BY <1>8, <1>c, <2>1, CallAside DEF LoadDone, Loaded
<1> QED
  BY <1>1, <1>2, <1>3, <1>4, <1>5, <1>6, <1>7, <1>8 DEF load

\* The clients and the clocks have nothing to do with it.
LEMMA CallersIInv ==
    ASSUME IInv, \/ \E k \in Key, v \in Value : Set(k, v)
                 \/ \E k \in Key, v \in Value, ttl_ms \in Ttl : SetTtl(k, v, ttl_ms)
                 \/ \E k \in Key : Get(k)
                 \/ Tick \/ Jump \/ UNCHANGED vars
    PROVE  IInv'
<1>1. UNCHANGED <<disk, snapshot, temp, damaged, counter, call>>
  BY DEF Set, SetTtl, Get, OnShard, Tick, Jump, vars, files
<1>2. /\ count' \in [stores : Nat, saves : Nat, loads : Nat, crashes : Nat, jumps : Nat]
      /\ count'.crashes = count.crashes
  <2>1. CASE UNCHANGED count
    BY <2>1 DEF IInv, Shapes
  <2>2. CASE Spend("stores", MaxStores) \/ Spend("jumps", MaxJumps)
    BY <2>2, SpendCounts DEF IInv
  <2> QED
    BY <2>1, <2>2 DEF Set, SetTtl, Get, Tick, Jump, vars
<1>3. call' = [t \in Thread |-> call'[t]]
  BY <1>1 DEF IInv, Shapes
<1> QED
  BY <1>1, <1>2, <1>3, AsideIInv

-----------------------------------------------------------------------------
\* Replacing the contents of a file.
LEMMA FileReplaced ==
    ASSUME Shapes, NEW fd \in 1..Len(disk), NEW b,
           disk' = [disk EXCEPT ![fd].broken = b]
    PROVE  /\ \E S : disk' \in Seq(S)
           /\ Len(disk') = Len(disk)
           /\ \A n \in 1..Len(disk) : DOMAIN disk'[n] = DOMAIN disk[n] /\ disk'[n].writer = disk[n].writer
           /\ \A n \in 1..Len(disk) : n # fd => disk'[n] = disk[n]
           /\ disk'[fd].broken = b
<1>1. PICK S : disk \in Seq(S)
  BY DEF Shapes
<1> DEFINE f == [disk[fd] EXCEPT !.broken = b]
<1>2. disk' = [disk EXCEPT ![fd] = f]
  OBVIOUS
<1>3. DOMAIN f = DOMAIN disk[fd] /\ f.writer = disk[fd].writer /\ f.broken = b
  BY DEF Shapes
<1> HIDE DEF f
<1>4. disk \in Seq(S \cup {f})
  BY <1>1
<1>5. /\ disk' \in Seq(S \cup {f}) /\ Len(disk') = Len(disk)
      /\ \A n \in 1..Len(disk) : disk'[n] = IF n = fd THEN f ELSE disk[n]
  BY <1>2, <1>4
<1> QED
  BY <1>3, <1>5

\* What the invariant says of a save that is writing.
LEMMA WriterFacts ==
    ASSUME IInv, NEW t \in Thread, Live(t)
    PROVE  /\ call[t].path \in 0..MaxSaves - 1 /\ call[t].path < counter
           /\ call[t].fd = temp[call[t].path] /\ call[t].fd # None
           /\ call[t].fd \in 1..Len(disk) /\ call[t].fd # snapshot
           /\ disk[call[t].fd].writer = t
           /\ call[t].pc = "rename" => disk[call[t].fd].broken = None
           /\ \A u \in Thread : Live(u) /\ call[u].path = call[t].path => u = t
<1>1. call[t].path \in 0..MaxSaves - 1
  BY DEF IInv, Shapes
<1>2. /\ call[t].path < counter
      /\ call[t].fd = temp[call[t].path] /\ call[t].fd # None
      /\ disk[call[t].fd].writer = t
      /\ call[t].pc = "rename" => disk[call[t].fd].broken = None
      /\ \A u \in Thread : Live(u) /\ call[u].path = call[t].path => u = t
  BY DEF IInv, WritersAreApart
<1>3. call[t].fd \in 1..Len(disk)
  BY <1>1, <1>2 DEF IInv, Shapes
<1>4. call[t].fd # snapshot
  BY <1>1, <1>2 DEF IInv, NamesAreUnique
<1> QED
  BY <1>1, <1>2, <1>3, <1>4

\* A save opens a temporary file: a new one, or one that a killed process left.
LEMMA OpenIInv ==
    ASSUME IInv, NEW t \in Thread, SaveOpen(t)
    PROVE  IInv'
<1> USE DEF IInv
<1> DEFINE path == counter
           fd == IF temp[path] # None THEN temp[path] ELSE Len(disk) + 1
           file == [saved_at |-> wall_clock_ms, records |-> call[t].records, broken |-> 0,
                    writer |-> t, image |-> call[t].image, stamped_at |-> now]
           c == [pc |-> "write", path |-> path, fd |-> fd]
<1>1. /\ call[t].pc = "open" /\ counter' = counter + 1
      /\ disk' = [n \in 1..Len(disk) \cup {fd} |-> IF n = fd THEN file ELSE disk[n]]
      /\ temp' = [temp EXCEPT ![path] = fd]
      /\ Goto(t, c)
      /\ UNCHANGED <<snapshot, damaged, count>>
  BY DEF SaveOpen, unique_temp_path
<1>2. path \in 0..MaxSaves - 1
  BY SavesAssumption DEF SaveOpen, Shapes
<1>3. PICK S : disk \in Seq(S)
  BY DEF Shapes
<1>4. Len(disk) \in Nat
  BY <1>3
<1>5. fd \in 1..Len(disk) + 1 /\ fd # None
  BY <1>2, <1>4, NoneAssumption DEF Shapes
<1>f. /\ DOMAIN file = {"saved_at", "records", "broken", "writer", "image", "stamped_at"}
      /\ file.writer = t
  OBVIOUS
<1>c. c.pc = "write" /\ c.path = path /\ c.fd = fd /\ DOMAIN c = {"pc", "path", "fd"}
  OBVIOUS
<1>d. temp[path] # None => fd = temp[path]
  OBVIOUS
<1>e. temp[path] = None => fd = Len(disk) + 1
  OBVIOUS
<1> HIDE DEF fd, file, c
<1> DEFINE len == IF temp[path] # None THEN Len(disk) ELSE Len(disk) + 1
<1>6. 1..Len(disk) \cup {fd} = 1..len /\ len \in Nat /\ len >= Len(disk) /\ fd \in 1..len
  BY <1>2, <1>4, <1>5, <1>d, <1>e DEF Shapes
<1> HIDE DEF len
<1>7. \A n \in 1..len : n # fd => n \in 1..Len(disk)
  BY <1>6
<1>8. disk' = [n \in 1..len |-> IF n = fd THEN file ELSE disk[n]]
  BY <1>1, <1>6
<1>9. disk' \in Seq(S \cup {file}) /\ Len(disk') = len
  <2>1. \A n \in 1..len : (IF n = fd THEN file ELSE disk[n]) \in S \cup {file}
    BY <1>3, <1>7
  <2> QED
    BY <1>6, <1>8, <2>1
<1>10. call = [u \in Thread |-> call[u]]
  BY DEF Shapes
<1>11. call' = [u \in Thread |-> call'[u]] /\ call'[t] = c /\ \A u \in Thread : u # t => call'[u] = call[u]
  BY <1>1, <1>10 DEF Goto
<1>12. ~Live(t) /\ Live(t)' /\ \A u \in Thread : u # t => (Live(u)' <=> Live(u))
  BY <1>1, <1>11, <1>c DEF Live
<1>13. fd # snapshot /\ \A m \in 0..MaxSaves - 1 : temp[m] = fd => m = path
  BY <1>2, <1>4, <1>d, <1>e, NoneAssumption DEF Shapes, NamesAreUnique
<1>14. temp' \in [0..MaxSaves - 1 -> 1..len \cup {None}] /\ temp'[path] = fd
       /\ \A m \in 0..MaxSaves - 1 : m # path => temp'[m] = temp[m]
  BY <1>1, <1>2, <1>4, <1>6 DEF Shapes
<1>15. Shapes'
  <2>1. \A n \in 1..Len(disk') :
          DOMAIN disk'[n] = {"saved_at", "records", "broken", "writer", "image", "stamped_at"}
    BY <1>7, <1>8, <1>9, <1>f DEF Shapes
  <2>2. snapshot' \in 1..Len(disk') \cup {None}
    BY <1>1, <1>4, <1>6, <1>9 DEF Shapes
  <2>3. \A u \in Thread : Live(u)' =>
          DOMAIN call'[u] = {"pc", "path", "fd"} /\ call'[u].path \in 0..MaxSaves - 1
    BY <1>2, <1>11, <1>12, <1>c DEF Shapes
  <2>4. counter' \in Nat /\ count' \in [stores : Nat, saves : Nat, loads : Nat, crashes : Nat, jumps : Nat]
    BY <1>1 DEF Shapes
  <2>5. \E T : disk' \in Seq(T)
    BY <1>9
  <2> QED
    BY <1>9, <1>11, <1>14, <2>1, <2>2, <2>3, <2>4, <2>5 DEF Shapes
<1>16. NamesAreUnique'
  BY <1>1, <1>2, <1>13, <1>14 DEF NamesAreUnique
<1>17. ASSUME NEW u \in Thread, u # t, Live(u)
       PROVE  /\ call[u].path \in 0..MaxSaves - 1 /\ call[u].path # path
              /\ call[u].fd # fd /\ call[u].fd \in 1..len
              /\ disk'[call[u].fd] = disk[call[u].fd]
  <2>1. call[u].path \in 0..MaxSaves - 1 /\ call[u].path # path
    BY <1>17 DEF Shapes, WritersAreApart
  <2>2. call[u].fd = temp[call[u].path] /\ call[u].fd \in 1..Len(disk)
    BY <1>17, <2>1 DEF Shapes, WritersAreApart
  <2>3. call[u].fd # fd
    BY <1>13, <2>1, <2>2
  <2> QED
    BY <1>4, <1>6, <1>8, <2>1, <2>2, <2>3
<1>18. WritersAreApart'
  <2>1. ASSUME NEW u \in Thread, Live(u)'
        PROVE  /\ call'[u].path < counter'
               /\ call'[u].fd = temp'[call'[u].path] /\ call'[u].fd # None
               /\ disk'[call'[u].fd].writer = u
               /\ call'[u].pc = "rename" => disk'[call'[u].fd].broken = None
    <3>1. CASE u = t
      BY <1>1, <1>5, <1>6, <1>8, <1>11, <1>14, <1>c, <1>f, <3>1 DEF Shapes
    <3>2. CASE u # t
      <4>1. Live(u) /\ call'[u] = call[u]
        BY <1>11, <1>12, <2>1, <3>2
      <4>2. /\ call[u].path \in 0..MaxSaves - 1 /\ call[u].path < counter
            /\ call[u].fd = temp[call[u].path] /\ call[u].fd # None
            /\ disk[call[u].fd].writer = u
            /\ call[u].pc = "rename" => disk[call[u].fd].broken = None
        BY <4>1, WriterFacts
      <4>3. call[u].path < counter'
        BY <1>1, <4>2 DEF Shapes
      <4>4. call[u].path # path /\ disk'[call[u].fd] = disk[call[u].fd]
        BY <1>17, <3>2, <4>1
      <4>5. temp'[call[u].path] = temp[call[u].path]
        BY <1>14, <4>2, <4>4
      <4> QED
        BY <4>1, <4>2, <4>3, <4>4, <4>5
    <3> QED
      BY <3>1, <3>2
  <2>2. ASSUME NEW u \in Thread, NEW w \in Thread, Live(u)', Live(w)', call'[w].path = call'[u].path
        PROVE  w = u
    BY <1>11, <1>12, <1>17, <1>c, <2>2 DEF WritersAreApart
  <2> QED
    BY <2>1, <2>2 DEF WritersAreApart
<1>19. TemporariesAreUsed'
  <2> SUFFICES ASSUME count'.crashes = 0, NEW n \in 0..MaxSaves - 1, temp'[n] # None
               PROVE  \E u \in Thread : Live(u)' /\ call'[u].path = n
    BY DEF TemporariesAreUsed
  <2>1. CASE n = path
    BY <1>11, <1>12, <1>c, <2>1
  <2>2. CASE n # path
    BY <1>1, <1>11, <1>12, <1>14, <2>2 DEF TemporariesAreUsed
  <2> QED
    BY <2>1, <2>2
<1>20. ReadersHaveNotStored'
  BY <1>11, <1>c DEF ReadersHaveNotStored, Reading
<1>21. SnapshotIsWhole'
  BY <1>1, <1>4, <1>6, <1>8, <1>13 DEF SnapshotIsWhole, Shapes
<1> QED
  BY <1>15, <1>16, <1>18, <1>19, <1>20, <1>21

\* A save finishes writing its file, which nobody else has opened.
LEMMA WriteIInv ==
    ASSUME IInv, NEW t \in Thread, SaveWrite(t)
    PROVE  IInv'
<1> USE DEF IInv
<1> DEFINE fd == call[t].fd
           c == [call[t] EXCEPT !.pc = "rename"]
<1>1. /\ call[t].pc = "write" /\ Live(t) /\ Goto(t, c)
      /\ UNCHANGED <<snapshot, temp, counter, damaged, count>>
  BY DEF SaveWrite, Live
<1>2. /\ call[t].path \in 0..MaxSaves - 1 /\ fd = temp[call[t].path] /\ fd # None
      /\ fd \in 1..Len(disk) /\ disk[fd].writer = t /\ fd # snapshot
  BY <1>1, WriterFacts
<1>c. c.pc = "rename" /\ c.path = call[t].path /\ c.fd = fd /\ DOMAIN c = {"pc", "path", "fd"}
  BY <1>1 DEF Shapes
<1>3. disk' = [disk EXCEPT ![fd].broken = None]
  BY <1>2 DEF SaveWrite
<1> HIDE DEF fd, c
<1>4. /\ \E S : disk' \in Seq(S)
      /\ Len(disk') = Len(disk)
      /\ \A n \in 1..Len(disk) : DOMAIN disk'[n] = DOMAIN disk[n] /\ disk'[n].writer = disk[n].writer
      /\ \A n \in 1..Len(disk) : n # fd => disk'[n] = disk[n]
      /\ disk'[fd].broken = None
  BY <1>2, <1>3, FileReplaced
<1>5. call = [u \in Thread |-> call[u]]
  BY DEF Shapes
<1>6. call' = [u \in Thread |-> call'[u]] /\ call'[t] = c /\ \A u \in Thread : u # t => call'[u] = call[u]
  BY <1>1, <1>5 DEF Goto
<1>7. \A u \in Thread : /\ Live(u)' <=> Live(u)
                        /\ Live(u) => call'[u].path = call[u].path /\ call'[u].fd = call[u].fd
  BY <1>1, <1>6, <1>c DEF Live, fd
<1>8. Shapes'
  <2>1. \A n \in 1..Len(disk') :
           DOMAIN disk'[n] = {"saved_at", "records", "broken", "writer", "image", "stamped_at"}
    BY <1>4 DEF Shapes
  <2>2. /\ snapshot' \in 1..Len(disk') \cup {None}
        /\ temp' \in [0..MaxSaves - 1 -> 1..Len(disk') \cup {None}]
        /\ counter' \in Nat
        /\ count' \in [stores : Nat, saves : Nat, loads : Nat, crashes : Nat, jumps : Nat]
    BY <1>1, <1>4 DEF Shapes
  <2>3. ASSUME NEW u \in Thread, Live(u)'
        PROVE  DOMAIN call'[u] = {"pc", "path", "fd"} /\ call'[u].path \in 0..MaxSaves - 1
    <3>1. CASE u = t
      BY <1>2, <1>6, <1>c, <3>1
    <3>2. CASE u # t
      BY <1>6, <1>7, <2>3, <3>2 DEF Shapes
    <3> QED
      BY <3>1, <3>2
  <2> QED
    BY <1>4, <1>6, <2>1, <2>2, <2>3 DEF Shapes
<1>9. NamesAreUnique'
  BY <1>1 DEF NamesAreUnique
<1>10. WritersAreApart'
  <2>1. ASSUME NEW u \in Thread, Live(u)'
        PROVE  /\ call'[u].path < counter'
               /\ call'[u].fd = temp'[call'[u].path] /\ call'[u].fd # None
               /\ disk'[call'[u].fd].writer = u
               /\ call'[u].pc = "rename" => disk'[call'[u].fd].broken = None
    <3>1. CASE u = t
      <4>1. call[t].path < counter
        BY <1>1, WriterFacts
      <4>2. disk'[fd].writer = t /\ disk'[fd].broken = None
        BY <1>2, <1>4
      <4> QED
        BY <1>1, <1>2, <1>6, <1>c, <3>1, <4>1, <4>2
    <3>2. CASE u # t
      <4>1. Live(u) /\ call'[u] = call[u]
        BY <1>6, <1>7, <2>1, <3>2
      <4>2. /\ call[u].path \in 0..MaxSaves - 1 /\ call[u].path < counter
            /\ call[u].fd = temp[call[u].path] /\ call[u].fd # None
            /\ call[u].fd \in 1..Len(disk) /\ disk[call[u].fd].writer = u
            /\ call[u].pc = "rename" => disk[call[u].fd].broken = None
        BY <4>1, WriterFacts
      <4>3. call[u].path # call[t].path
        BY <1>1, <3>2, <4>1, WriterFacts
      <4>4. call[u].fd # fd
        BY <1>2, <4>2, <4>3 DEF NamesAreUnique
      <4>5. disk'[call[u].fd] = disk[call[u].fd]
        BY <1>4, <4>2, <4>4
      <4> QED
        BY <1>1, <4>1, <4>2, <4>5
    <3> QED
      BY <3>1, <3>2
  <2>2. ASSUME NEW u \in Thread, NEW w \in Thread, Live(u)', Live(w)', call'[w].path = call'[u].path
        PROVE  w = u
    <3>1. Live(u) /\ Live(w) /\ call[w].path = call[u].path
      BY <1>7, <2>2
    <3> QED
      BY <3>1, WriterFacts
  <2> QED
    BY <2>1, <2>2 DEF WritersAreApart
<1>11. TemporariesAreUsed'
  BY <1>1, <1>7 DEF TemporariesAreUsed
<1>12. ReadersHaveNotStored'
  BY <1>6, <1>c DEF ReadersHaveNotStored, Reading
<1>13. SnapshotIsWhole'
  BY <1>1, <1>2, <1>4 DEF SnapshotIsWhole, Shapes
<1> QED
  BY <1>8, <1>9, <1>10, <1>11, <1>12, <1>13

\* A save ends: its file becomes the snapshot, or is removed.
LEMMA EndIInv ==
    ASSUME IInv, NEW t \in Thread, SaveRename(t) \/ SaveFails(t)
    PROVE  IInv'
<1> USE DEF IInv
<1> DEFINE path == call[t].path
<1>1. /\ Live(t) /\ Goto(t, Idle) /\ temp' = [temp EXCEPT ![path] = None]
      /\ UNCHANGED <<disk, counter, damaged, count>>
      /\ snapshot' = snapshot \/ (call[t].pc = "rename" /\ snapshot' = temp[path])
  BY DEF SaveRename, SaveFails, Removed, Live
<1>2. /\ path \in 0..MaxSaves - 1 /\ temp[path] = call[t].fd /\ temp[path] # None
      /\ temp[path] \in 1..Len(disk)
  BY <1>1 DEF WritersAreApart, Shapes
<1>3. call = [u \in Thread |-> call[u]]
  BY DEF Shapes
<1>4. call' = [u \in Thread |-> call'[u]] /\ call'[t] = Idle /\ \A u \in Thread : u # t => call'[u] = call[u]
  BY <1>1, <1>3 DEF Goto
<1>5. ~Live(t)' /\ \A u \in Thread : u # t => (Live(u)' <=> Live(u))
  BY <1>4 DEF Live, Idle
<1>6. \A u \in Thread : u # t /\ Live(u) => call[u].path # path
  BY <1>1 DEF WritersAreApart
<1> HIDE DEF path
<1>7. temp' \in [0..MaxSaves - 1 -> 1..Len(disk) \cup {None}] /\ temp'[path] = None
      /\ \A m \in 0..MaxSaves - 1 : m # path => temp'[m] = temp[m]
  BY <1>1, <1>2 DEF Shapes
<1>8. Shapes'
  BY <1>1, <1>2, <1>4, <1>5, <1>7 DEF Shapes
<1>9. NamesAreUnique'
  BY <1>1, <1>2, <1>7 DEF NamesAreUnique
<1>10. WritersAreApart'
  <2>1. \A u \in Thread : Live(u)' => u # t /\ Live(u) /\ call'[u] = call[u]
    BY <1>4, <1>5
  <2>2. \A u \in Thread : Live(u)' => temp'[call[u].path] = temp[call[u].path]
    BY <1>6, <1>7, <2>1 DEF Shapes
  <2>3. ASSUME NEW u \in Thread, Live(u)'
        PROVE  /\ call'[u].path < counter'
               /\ call'[u].fd = temp'[call'[u].path] /\ call'[u].fd # None
               /\ disk'[call'[u].fd].writer = u
               /\ call'[u].pc = "rename" => disk'[call'[u].fd].broken = None
    <3>1. Live(u) /\ call'[u] = call[u] /\ temp'[call[u].path] = temp[call[u].path]
      BY <2>1, <2>2, <2>3
    <3>2. /\ call[u].path < counter
          /\ call[u].fd = temp[call[u].path] /\ call[u].fd # None
          /\ disk[call[u].fd].writer = u
          /\ call[u].pc = "rename" => disk[call[u].fd].broken = None
      BY <3>1, WriterFacts
    <3> QED
      BY <1>1, <3>1, <3>2
  <2>4. ASSUME NEW u \in Thread, NEW w \in Thread, Live(u)', Live(w)', call'[w].path = call'[u].path
        PROVE  w = u
    <3>1. Live(u) /\ Live(w) /\ call[w].path = call[u].path
      BY <2>1, <2>4
    <3> QED
      BY <3>1, WriterFacts
  <2> QED
    BY <2>3, <2>4 DEF WritersAreApart
<1>11. TemporariesAreUsed'
  BY <1>1, <1>4, <1>5, <1>7 DEF TemporariesAreUsed, path
<1>12. ReadersHaveNotStored'
  BY <1>4 DEF ReadersHaveNotStored, Reading, Idle
<1>13. SnapshotIsWhole'
  BY <1>1, <1>2 DEF SnapshotIsWhole, WritersAreApart
<1> QED
  BY <1>8, <1>9, <1>10, <1>11, <1>12, <1>13

\* The process is killed, wherever its threads are.
LEMMA CrashIInv ==
    ASSUME IInv, Crash
    PROVE  IInv'
<1> USE DEF IInv
<1>1. /\ call' = [t \in Thread |-> Idle] /\ counter' \in {counter, 0}
      /\ count' = [count EXCEPT !.crashes = @ + 1]
      /\ UNCHANGED <<disk, snapshot, temp, damaged>>
  BY DEF Crash, Spend
<1>2. \A t \in Thread : call'[t].pc = "idle" /\ ~Live(t)'
  BY <1>1 DEF Live, Idle
<1>3. count' \in [stores : Nat, saves : Nat, loads : Nat, crashes : Nat, jumps : Nat]
      /\ count'.crashes # 0
  BY <1>1 DEF Shapes
<1>4. Shapes'
  BY <1>1, <1>2, <1>3 DEF Shapes
<1>5. NamesAreUnique' /\ SnapshotIsWhole'
  BY <1>1 DEF NamesAreUnique, SnapshotIsWhole
<1>6. WritersAreApart' /\ TemporariesAreUsed' /\ ReadersHaveNotStored'
  BY <1>2, <1>3 DEF WritersAreApart, TemporariesAreUsed, ReadersHaveNotStored, Reading
<1> QED
  BY <1>4, <1>5, <1>6

\* The medium damages the snapshot, which is nobody's temporary file.
LEMMA DamageIInv ==
    ASSUME IInv, Damage
    PROVE  IInv'
<1> USE DEF IInv
<1>1. PICK b : disk' = [disk EXCEPT ![snapshot].broken = b]
  BY DEF Damage
<1>2. /\ snapshot \in 1..Len(disk) /\ damaged' = damaged \cup {snapshot}
      /\ UNCHANGED <<snapshot, temp, counter, call, count>>
  BY DEF Damage, Shapes
<1>3. /\ \E S : disk' \in Seq(S)
      /\ Len(disk') = Len(disk)
      /\ \A n \in 1..Len(disk) : DOMAIN disk'[n] = DOMAIN disk[n]
      /\ \A n \in 1..Len(disk) : n # snapshot => disk'[n] = disk[n]
  BY <1>1, <1>2, FileReplaced
<1>4. \A t \in Thread : Live(t)' <=> Live(t)
  BY <1>2 DEF Live
<1>5. Shapes'
  BY <1>2, <1>3, <1>4 DEF Shapes
<1>6. NamesAreUnique' /\ TemporariesAreUsed' /\ ReadersHaveNotStored'
  BY <1>2, <1>4 DEF NamesAreUnique, TemporariesAreUsed, ReadersHaveNotStored, Reading
<1>7. \A t \in Thread : Live(t) => call[t].fd \in 1..Len(disk) /\ call[t].fd # snapshot
  BY DEF WritersAreApart, Shapes, NamesAreUnique
<1>8. WritersAreApart'
  BY <1>2, <1>3, <1>4, <1>7 DEF WritersAreApart
<1>9. SnapshotIsWhole'
  BY <1>2 DEF SnapshotIsWhole
<1> QED
  BY <1>5, <1>6, <1>8, <1>9

\* The invariant is inductive.
LEMMA NextIInv == IInv /\ [Next]_vars => IInv'
  BY ReadingIInv, CallersIInv, OpenIInv, WriteIInv, EndIInv, CrashIInv, DamageIInv DEF Next, save

LEMMA Inductive == Spec => []IInv
  BY InitIInv, NextIInv, PTL DEF Spec

-----------------------------------------------------------------------------
\* However saves, loads, failures and crashes are mixed, the snapshot path names a
\* file that one save has written completely.
THEOREM AlwaysWhole == Spec => []SnapshotIsWhole
  BY Inductive, PTL DEF IInv

\* A save that is over has left no temporary file, unless the process was killed.
THEOREM NothingLeft == Spec => []NoTemporaryLeft
<1>1. IInv => NoTemporaryLeft
  BY DEF IInv, Shapes, TemporariesAreUsed, Live, NoTemporaryLeft
<1> QED
  BY <1>1, Inductive, PTL

\* A load that gives up while it reads the file has stored nothing.
THEOREM AllOrNothing == Spec => FailedLoadChangesNothing
<1> DEFINE Step == \A t \in Thread : call[t].pc = "parse" /\ call'[t] = Idle /\ up' => call[t].loaded = 0
<1>1. IInv => Step
  BY DEF IInv, ReadersHaveNotStored, Reading
<1>2. FailedLoadChangesNothing <=> [][Step]_vars
  BY DEF FailedLoadChangesNothing
<1> QED
  BY <1>1, <1>2, Inductive, PTL
=============================================================================
