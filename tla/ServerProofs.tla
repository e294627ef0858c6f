---------------------------- MODULE ServerProofs ----------------------------
(***************************************************************************)
(* For any number of clients and any limit, and wherever poll, accept and  *)
(* std::thread fail: the count of connections is right, each thread has    *)
(* one owner until it is joined, and none is left when run() returns.      *)
(***************************************************************************)
EXTENDS Server, SequenceLemmas, FiniteSetTheorems

\* The elements of a sequence.
Elements(s) == {s[j] : j \in 1..Len(s)}

Distinct(s) == \A j, k \in 1..Len(s) : s[j] = s[k] => j = k

\* A client that waits to be given a thread has none yet, and waits in one place.
ClientsAreNew ==
    /\ \A c \in away : thread[c] = "none"
    /\ Distinct(queue)
    /\ \A c \in Elements(queue) : c \notin away /\ thread[c] = "none"
    /\ pc \in {"limit", "spawn", "create"} =>
          /\ client \in Client /\ client \notin away \cup Elements(queue)
          /\ thread[client] = "none"

\* Only the loop raises the count, between its check of the limit and the start of
\* the thread; everybody else can only lower it in the meantime.
CountIsExact ==
    /\ active_connections = Cardinality(Serving) + (IF pc = "create" THEN 1 ELSE 0)
    /\ active_connections <= max_connections
    /\ pc = "spawn" => active_connections < max_connections

\* A started thread is in one of the vectors, or about to be pushed.
OwnersAreUnique ==
    /\ IF pc = "join" THEN workers = <<>> ELSE remaining = <<>>
    /\ pc = "returned" => workers = <<>>
    /\ Distinct(workers) /\ Distinct(remaining)
    /\ pc = "push" => client \in Client /\ client \notin Elements(workers)
    /\ \A c \in Client :
          thread[c] \notin {"none", "joined"} <=>
             c \in Elements(workers) \/ c \in Elements(remaining) \/ (pc = "push" /\ c = client)

IInv == TypeOK /\ ClientsAreNew /\ CountIsExact /\ OwnersAreUnique

-----------------------------------------------------------------------------
\* The clients being served are finitely many.
LEMMA ServingIsFinite == IsFiniteSet(Serving) /\ Cardinality(Serving) \in Nat
<1>1. Serving \in SUBSET Client
  BY DEF Serving
<1> QED
  BY <1>1, ClientAssumption, FS_Subset, FS_CardinalityType

\* Appending and removing, in terms of the elements.
LEMMA AppendElements ==
    ASSUME NEW S, NEW s \in Seq(S), NEW x \in S
    PROVE  /\ Append(s, x) \in Seq(S)
           /\ Elements(Append(s, x)) = Elements(s) \cup {x}
           /\ Distinct(s) /\ x \notin Elements(s) => Distinct(Append(s, x))
<1>1. /\ Append(s, x) \in Seq(S) /\ Len(Append(s, x)) = Len(s) + 1 /\ Len(s) \in Nat
      /\ \A j \in 1..Len(s) : Append(s, x)[j] = s[j]
      /\ Append(s, x)[Len(s) + 1] = x
  OBVIOUS
<1>2. \A j \in 1..Len(s) + 1 : j \in 1..Len(s) \/ j = Len(s) + 1
  BY <1>1
<1> QED
  BY <1>1, <1>2 DEF Elements, Distinct

LEMMA RemoveElements ==
    ASSUME NEW S, NEW s \in Seq(S), Distinct(s), NEW n \in 1..Len(s)
    PROVE  /\ RemoveAt(s, n) \in Seq(S)
           /\ Elements(RemoveAt(s, n)) = Elements(s) \ {s[n]}
           /\ Distinct(RemoveAt(s, n))
<1> DEFINE r == RemoveAt(s, n)
<1>1. /\ r \in Seq(S) /\ Len(r) = Len(s) - 1 /\ Len(s) \in Nat
      /\ \A j \in 1..Len(s) - 1 : r[j] = IF j < n THEN s[j] ELSE s[j + 1]
  BY RemoveAtProperties
<1> HIDE DEF r
<1>2. ASSUME NEW j \in 1..Len(s), j # n
      PROVE  s[j] \in Elements(r)
  <2>1. CASE j < n
    BY <1>1, <2>1 DEF Elements
  <2>2. CASE j > n
    <3>1. j - 1 \in 1..Len(s) - 1 /\ ~(j - 1 < n) /\ (j - 1) + 1 = j
      BY <1>1, <2>2
    <3> QED
      BY <1>1, <3>1 DEF Elements
  <2> QED
    BY <1>2, <2>1, <2>2
<1>3. ASSUME NEW j \in 1..Len(r)
      PROVE  r[j] \in Elements(s) \ {s[n]}
  BY <1>1 DEF Elements, Distinct
<1>4. Elements(r) = Elements(s) \ {s[n]}
  BY <1>2, <1>3 DEF Elements
<1>5. Distinct(r)
  BY <1>1 DEF Distinct
<1> QED
  BY <1>1, <1>4, <1>5 DEF r

LEMMA TailElements ==
    ASSUME NEW S, NEW s \in Seq(S), Distinct(s), s # <<>>
    PROVE  /\ Tail(s) \in Seq(S) /\ Head(s) \in Elements(s) /\ Head(s) \in S
           /\ Elements(Tail(s)) = Elements(s) \ {Head(s)}
           /\ Distinct(Tail(s))
<1>1. /\ Tail(s) \in Seq(S) /\ Len(Tail(s)) = Len(s) - 1 /\ Len(s) \in Nat \ {0}
      /\ \A j \in 1..Len(s) - 1 : Tail(s)[j] = s[j + 1]
      /\ Head(s) = s[1] /\ Head(s) \in S
  BY HeadTailProperties, EmptySeq
<1>2. ASSUME NEW j \in 1..Len(s), j # 1
      PROVE  s[j] \in Elements(Tail(s))
  <2>1. j - 1 \in 1..Len(s) - 1 /\ (j - 1) + 1 = j
    BY <1>1, <1>2
  <2> QED
    BY <1>1, <2>1 DEF Elements
<1>3. ASSUME NEW j \in 1..Len(Tail(s))
      PROVE  Tail(s)[j] \in Elements(s) \ {s[1]}
  BY <1>1 DEF Elements, Distinct
<1>4. Elements(Tail(s)) = Elements(s) \ {s[1]} /\ s[1] \in Elements(s)
  BY <1>1, <1>2, <1>3 DEF Elements
<1>5. Distinct(Tail(s))
  BY <1>1 DEF Distinct
<1> QED
  BY <1>1, <1>4, <1>5

\* A vector without elements.
LEMMA EmptyElements == Elements(<<>>) = {} /\ Distinct(<<>>)
  BY DEF Elements, Distinct

-----------------------------------------------------------------------------
\* The invariant holds when the server is constructed.
LEMMA InitIInv == Init => IInv
<1> SUFFICES ASSUME Init PROVE IInv
  OBVIOUS
<1>1. TypeOK
  BY LimitAssumption DEF Init, TypeOK
<1>2. ClientsAreNew
  BY EmptyElements DEF Init, ClientsAreNew
<1>3. Serving = {}
  BY DEF Init, Serving
<1>4. CountIsExact
  BY <1>3, FS_EmptySet, LimitAssumption DEF Init, CountIsExact
<1>5. OwnersAreUnique
  BY EmptyElements DEF Init, OwnersAreUnique
<1> QED
  BY <1>1, <1>2, <1>4, <1>5 DEF IInv

\* The clients, the operator and the steps of the loop that touch neither the count
\* nor a thread preserve the invariant.
LEMMA OutsideIInv ==
    ASSUME IInv, \/ start \/ stop \/ CheckStop \/ PollInterrupted \/ PollFails \/ Poll \/ ReapDone
                 \/ AcceptFails \/ Accept \/ CheckLimit
                 \/ \E c \in Client : Connect(c) \/ HangUp(c)
    PROVE  IInv'
<1> USE DEF IInv, local, counters, fleet, outside, Goto
<1>s. ASSUME UNCHANGED thread
      PROVE  Serving' = Serving
  BY <1>s DEF Serving
<1>1. CASE start \/ stop \/ CheckStop \/ PollInterrupted \/ PollFails \/ Poll \/ ReapDone
  <2>1. /\ UNCHANGED <<client, counters, fleet, queue, away, max_connections>>
        /\ i' \in {i, 1}
        /\ pc' = pc \/ (pc \notin {"create", "join", "push"} /\ pc' \notin {"limit", "spawn", "create", "push", "join", "returned"})
    BY <1>1 DEF start, stop, CheckStop, PollInterrupted, PollFails, Poll, ReapDone, AfterPoll
  <2>2. TypeOK'
    BY <2>1 DEF TypeOK
  <2>3. ClientsAreNew'
    BY <2>1 DEF ClientsAreNew, Elements, Distinct
  <2>4. CountIsExact'
    BY <1>s, <2>1 DEF CountIsExact
  <2>5. OwnersAreUnique'
    BY <2>1 DEF OwnersAreUnique, Elements, Distinct
  <2> QED
    BY <2>2, <2>3, <2>4, <2>5
<1>2. CASE Accept \/ AcceptFails
  <2>1. /\ pc = "accept" /\ pc' \in {"check", "limit"} /\ queue # <<>>
        /\ UNCHANGED <<i, counters, fleet, away, max_connections>>
        /\ queue' \in {queue, Tail(queue)}
        /\ IF pc' = "limit" THEN client' = Head(queue) /\ queue' = Tail(queue) ELSE client' = client
    BY <1>2 DEF Accept, AcceptFails
  <2>2. /\ Tail(queue) \in Seq(Client) /\ Head(queue) \in Elements(queue) /\ Head(queue) \in Client
        /\ Elements(Tail(queue)) = Elements(queue) \ {Head(queue)}
        /\ Distinct(Tail(queue))
    BY <2>1, TailElements DEF TypeOK, ClientsAreNew
  <2>3. TypeOK'
    BY <2>1, <2>2 DEF TypeOK
  <2>4. ClientsAreNew'
    BY <2>1, <2>2 DEF ClientsAreNew
  <2>5. CountIsExact'
    BY <1>s, <2>1 DEF CountIsExact
  <2>6. OwnersAreUnique'
    BY <2>1 DEF OwnersAreUnique, Elements, Distinct
  <2> QED
    BY <2>3, <2>4, <2>5, <2>6
<1>3. CASE CheckLimit
  <2>1. /\ pc = "limit" /\ pc' \in {"check", "spawn"}
        /\ UNCHANGED <<i, counters, fleet, queue, away, max_connections>>
        /\ IF pc' = "spawn" THEN client' = client /\ ~(active_connections >= max_connections)
           ELSE client' = None
    BY <1>3 DEF CheckLimit
  <2>2. TypeOK'
    BY <2>1 DEF TypeOK
  <2>3. ClientsAreNew'
    BY <2>1 DEF ClientsAreNew, Elements, Distinct
  <2>4. CountIsExact'
    BY <1>s, <2>1, ServingIsFinite DEF CountIsExact, TypeOK
  <2>5. OwnersAreUnique'
    BY <2>1 DEF OwnersAreUnique, Elements, Distinct
  <2> QED
    BY <2>2, <2>3, <2>4, <2>5
<1>4. ASSUME NEW c \in Client, Connect(c)
      PROVE  IInv'
  <2>1. /\ c \in away /\ away' = away \ {c} /\ queue' = Append(queue, c)
        /\ UNCHANGED <<pc, client, i, counters, fleet, max_connections>>
    BY <1>4 DEF Connect
  <2>2. /\ queue' \in Seq(Client) /\ Elements(queue') = Elements(queue) \cup {c}
        /\ Distinct(queue')
    BY <2>1, AppendElements DEF TypeOK, ClientsAreNew
  <2>3. TypeOK'
    BY <2>1, <2>2 DEF TypeOK
  <2>4. ClientsAreNew'
    BY <2>1, <2>2 DEF ClientsAreNew
  <2>5. CountIsExact'
    BY <1>s, <2>1 DEF CountIsExact
  <2>6. OwnersAreUnique'
    BY <2>1 DEF OwnersAreUnique, Elements, Distinct
  <2> QED
    BY <2>3, <2>4, <2>5, <2>6
<1>5. ASSUME NEW c \in Client, HangUp(c)
      PROVE  IInv'
  <2>1. UNCHANGED <<pc, client, i, counters, fleet, queue, away, max_connections>>
    BY <1>5 DEF HangUp
  <2>2. TypeOK'
    BY <2>1 DEF TypeOK
  <2>3. ClientsAreNew'
    BY <2>1 DEF ClientsAreNew, Elements, Distinct
  <2>4. CountIsExact'
    BY <1>s, <2>1 DEF CountIsExact
  <2>5. OwnersAreUnique'
    BY <2>1 DEF OwnersAreUnique, Elements, Distinct
  <2> QED
    BY <2>2, <2>3, <2>4, <2>5
<1> QED
  BY <1>1, <1>2, <1>3, <1>4, <1>5

\* So do the steps of the loop that count a connection and start its thread.
LEMMA SpawnIInv ==
    ASSUME IInv, Count \/ Create \/ CreateFails \/ Push
    PROVE  IInv'
<1> USE DEF IInv, local, counters, fleet, outside, Goto
<1>f. IsFiniteSet(Serving) /\ Cardinality(Serving) \in Nat
  BY ServingIsFinite
<1>1. CASE Count
  <2>1. /\ pc = "spawn" /\ pc' = "create" /\ active_connections' = active_connections + 1
        /\ UNCHANGED <<client, i, fleet, queue, away, max_connections>>
    BY <1>1 DEF Count
  <2>2. TypeOK'
    BY <2>1 DEF TypeOK
  <2>3. ClientsAreNew'
    BY <2>1 DEF ClientsAreNew, Elements, Distinct
  <2>4. Serving' = Serving
    BY <2>1 DEF Serving
  <2>5. CountIsExact'
    BY <1>f, <2>1, <2>4 DEF CountIsExact, TypeOK
  <2>6. OwnersAreUnique'
    BY <2>1 DEF OwnersAreUnique, Elements, Distinct
  <2> QED
    BY <2>2, <2>3, <2>5, <2>6
<1>2. CASE Create
  <2>1. /\ pc = "create" /\ pc' = "push" /\ thread' = [thread EXCEPT ![client] = "serving"]
        /\ UNCHANGED <<client, i, active_connections, workers, remaining, queue, away, max_connections>>
    BY <1>2 DEF Create
  <2>2. client \in Client /\ client \notin away \cup Elements(queue) /\ thread[client] = "none"
    BY <2>1 DEF ClientsAreNew
  <2>3. TypeOK'
    BY <2>1, <2>2 DEF TypeOK
  <2>4. ClientsAreNew'
    BY <2>1, <2>2 DEF ClientsAreNew, Elements, Distinct, TypeOK
  <2>5. Serving' = Serving \cup {client} /\ client \notin Serving
    BY <2>1, <2>2 DEF Serving, TypeOK
  <2>6. Cardinality(Serving') = Cardinality(Serving) + 1
    BY <1>f, <2>5, FS_AddElement
  <2>7. CountIsExact'
    BY <1>f, <2>1, <2>6 DEF CountIsExact, TypeOK
  <2>8. client \notin Elements(workers)
    BY <2>2 DEF OwnersAreUnique
  <2>9. OwnersAreUnique'
    BY <2>1, <2>2, <2>8 DEF OwnersAreUnique, Elements, Distinct, TypeOK
  <2> QED
    BY <2>3, <2>4, <2>7, <2>9
<1>3. CASE CreateFails
  <2>1. /\ pc = "create" /\ pc' = "check" /\ active_connections' = active_connections - 1
        /\ client' = None
        /\ UNCHANGED <<i, fleet, queue, away, max_connections>>
    BY <1>3 DEF CreateFails, GivenBack
  <2>2. TypeOK'
    BY <2>1 DEF TypeOK
  <2>3. ClientsAreNew'
    BY <2>1 DEF ClientsAreNew, Elements, Distinct
  <2>4. Serving' = Serving
    BY <2>1 DEF Serving
  <2>5. CountIsExact'
    BY <1>f, <2>1, <2>4 DEF CountIsExact, TypeOK
  <2>6. OwnersAreUnique'
    BY <2>1 DEF OwnersAreUnique, Elements, Distinct
  <2> QED
    BY <2>2, <2>3, <2>5, <2>6
<1>4. CASE Push
  <2>1. /\ pc = "push" /\ pc' = "check" /\ workers' = Append(workers, client) /\ client' = None
        /\ UNCHANGED <<i, active_connections, remaining, thread, queue, away, max_connections>>
    BY <1>4 DEF Push
  <2>2. client \in Client /\ client \notin Elements(workers)
    BY <2>1 DEF OwnersAreUnique
  <2>3. /\ workers' \in Seq(Client) /\ Elements(workers') = Elements(workers) \cup {client}
        /\ Distinct(workers')
    BY <2>1, <2>2, AppendElements DEF TypeOK, OwnersAreUnique
  <2>4. TypeOK'
    BY <2>1, <2>3 DEF TypeOK
  <2>5. ClientsAreNew'
    BY <2>1 DEF ClientsAreNew, Elements, Distinct
  <2>6. Serving' = Serving
    BY <2>1 DEF Serving
  <2>7. CountIsExact'
    BY <2>1, <2>6 DEF CountIsExact
  <2>8. Elements(remaining') = Elements(remaining) /\ (Distinct(remaining) => Distinct(remaining'))
    BY <2>1 DEF Elements, Distinct
  <2>9. OwnersAreUnique'
    BY <2>1, <2>2, <2>3, <2>8 DEF OwnersAreUnique
  <2> QED
    BY <2>4, <2>5, <2>7, <2>9
<1> QED
  BY <1>1, <1>2, <1>3, <1>4

\* Joining an exited thread takes it from nobody who is waiting or being served.
LEMMA JoinPreserves ==
    ASSUME IInv, NEW c \in Client, Join(c),
           pc' = pc, UNCHANGED <<client, counters, queue, away, max_connections>>
    PROVE  ClientsAreNew' /\ CountIsExact' /\ thread' \in [Client -> {"none", "serving", "served",
                                    "uncounted", "finished", "exited", "joined"}]
<1> USE DEF IInv, counters
<1>1. thread[c] = "exited" /\ thread' = [thread EXCEPT ![c] = "joined"]
  BY DEF Join
<1>2. ClientsAreNew'
  BY <1>1 DEF ClientsAreNew, Elements, Distinct, TypeOK
<1>3. Serving' = Serving
  BY <1>1 DEF Serving, TypeOK
<1>4. CountIsExact'
  BY <1>3 DEF CountIsExact
<1> QED
  BY <1>1, <1>2, <1>4 DEF TypeOK

\* So do the steps that join threads.
LEMMA JoinIInv ==
    ASSUME IInv, ReapOne \/ Swap \/ JoinOne \/ JoinDone
    PROVE  IInv'
<1> USE DEF IInv, local, counters, fleet, outside, Goto
<1>1. CASE ReapOne /\ finished[workers[i]]
  <2>1. /\ pc = "reap" /\ pc' = pc /\ i \in 1..Len(workers) /\ i' = i
        /\ Join(workers[i]) /\ workers' = RemoveAt(workers, i)
        /\ UNCHANGED <<client, counters, remaining, queue, away, max_connections>>
    BY <1>1 DEF ReapOne, TypeOK
  <2>2. workers[i] \in Client /\ workers[i] \in Elements(workers)
    BY <2>1 DEF TypeOK, Elements
  <2>3. /\ workers' \in Seq(Client) /\ Elements(workers') = Elements(workers) \ {workers[i]}
        /\ Distinct(workers')
    BY <2>1, RemoveElements DEF TypeOK, OwnersAreUnique
  <2>4. ClientsAreNew' /\ CountIsExact' /\ thread' \in [Client -> {"none", "serving", "served",
                                    "uncounted", "finished", "exited", "joined"}]
    BY <2>1, <2>2, JoinPreserves
  <2>5. TypeOK'
    BY <2>1, <2>3, <2>4 DEF TypeOK
  <2>6. remaining = <<>> /\ remaining' = <<>>
    BY <2>1 DEF OwnersAreUnique
  <2>7. \A c \in Client : thread'[c] \notin {"none", "joined"} <=> c \in Elements(workers')
    BY <2>1, <2>2, <2>3, <2>6, EmptyElements DEF OwnersAreUnique, Join, TypeOK
  <2>8. OwnersAreUnique'
    BY <2>1, <2>3, <2>6, <2>7, EmptyElements DEF OwnersAreUnique
  <2> QED
    BY <2>4, <2>5, <2>8
<1>2. CASE (ReapOne /\ ~finished[workers[i]]) \/ JoinDone
  <2>1. /\ UNCHANGED <<client, counters, workers, remaining, thread, queue, away, max_connections>>
        /\ i' \in {i, i + 1}
        /\ \/ pc = "reap" /\ pc' = "reap"
           \/ pc = "join" /\ pc' = "returned" /\ remaining = <<>>
    BY <1>2 DEF ReapOne, JoinDone
  <2>2. TypeOK'
    BY <2>1 DEF TypeOK
  <2>3. ClientsAreNew'
    BY <2>1 DEF ClientsAreNew, Elements, Distinct
  <2>4. Serving' = Serving
    BY <2>1 DEF Serving
  <2>5. CountIsExact'
    BY <2>1, <2>4 DEF CountIsExact
  <2>6. OwnersAreUnique'
    BY <2>1 DEF OwnersAreUnique, Elements, Distinct
  <2> QED
    BY <2>2, <2>3, <2>5, <2>6
<1>3. CASE Swap
  <2>1. /\ pc = "swap" /\ pc' = "join" /\ remaining' = workers /\ workers' = <<>>
        /\ UNCHANGED <<client, i, counters, thread, queue, away, max_connections>>
    BY <1>3 DEF Swap
  <2>2. TypeOK'
    BY <2>1 DEF TypeOK
  <2>3. ClientsAreNew'
    BY <2>1 DEF ClientsAreNew, Elements, Distinct
  <2>4. Serving' = Serving
    BY <2>1 DEF Serving
  <2>5. CountIsExact'
    BY <2>1, <2>4 DEF CountIsExact
  <2>6. remaining = <<>>
    BY <2>1 DEF OwnersAreUnique
  <2>7. OwnersAreUnique'
    BY <2>1, <2>6, EmptyElements DEF OwnersAreUnique
  <2> QED
    BY <2>2, <2>3, <2>5, <2>7
<1>4. CASE JoinOne
  <2>1. /\ pc = "join" /\ pc' = pc /\ remaining # <<>> /\ remaining' = Tail(remaining)
        /\ Join(Head(remaining))
        /\ UNCHANGED <<client, i, counters, workers, queue, away, max_connections>>
    BY <1>4 DEF JoinOne
  <2>2. /\ remaining' \in Seq(Client) /\ Head(remaining) \in Client
        /\ Elements(remaining') = Elements(remaining) \ {Head(remaining)}
        /\ Distinct(remaining')
    BY <2>1, TailElements DEF TypeOK, OwnersAreUnique
  <2>3. ClientsAreNew' /\ CountIsExact' /\ thread' \in [Client -> {"none", "serving", "served",
                                    "uncounted", "finished", "exited", "joined"}]
    BY <2>1, <2>2, JoinPreserves
  <2>4. TypeOK'
    BY <2>1, <2>2, <2>3 DEF TypeOK
  <2>5. workers = <<>> /\ workers' = <<>>
    BY <2>1 DEF OwnersAreUnique
  <2>6. \A c \in Client : thread'[c] \notin {"none", "joined"} <=> c \in Elements(remaining')
    BY <2>1, <2>2, <2>5, EmptyElements DEF OwnersAreUnique, Join, TypeOK
  <2>7. OwnersAreUnique'
    BY <2>1, <2>2, <2>5, <2>6, EmptyElements DEF OwnersAreUnique
  <2> QED
    BY <2>3, <2>4, <2>7
<1> QED
  BY <1>1, <1>2, <1>3, <1>4

\* So does every step of a worker: it only gives back what the loop has counted.
LEMMA WorkerIInv ==
    ASSUME IInv, NEW c \in Client, Worker(c)
    PROVE  IInv'
<1> USE DEF IInv, local, counters, fleet, outside
<1>f. IsFiniteSet(Serving) /\ Cardinality(Serving) \in Nat
  BY ServingIsFinite
<1> DEFINE from == thread[c]
           to == thread'[c]
<1>1. /\ thread' = [thread EXCEPT ![c] = to]
      /\ \/ from = "serving" /\ to = "served" /\ UNCHANGED active_connections
         \/ from = "served" /\ to = "uncounted" /\ active_connections' = active_connections - 1
         \/ from = "uncounted" /\ to = "finished" /\ UNCHANGED active_connections
         \/ from = "finished" /\ to = "exited" /\ UNCHANGED active_connections
      /\ UNCHANGED <<pc, client, i, workers, remaining, queue, away, max_connections>>
  BY DEF Worker, Served, Uncount, Finish, Exit, Advance, TypeOK
<1>2. TypeOK'
  BY <1>1 DEF TypeOK
<1>3. ClientsAreNew'
  BY <1>1 DEF ClientsAreNew, Elements, Distinct, TypeOK
<1>4. CountIsExact'
  <2>1. CASE from = "served"
    <3>1. Serving' = Serving \ {c} /\ c \in Serving
      BY <1>1, <2>1 DEF Serving, TypeOK
    <3>2. Cardinality(Serving') = Cardinality(Serving) - 1
      BY <1>f, <3>1, FS_RemoveElement
    <3> QED
      BY <1>f, <1>1, <2>1, <3>2 DEF CountIsExact, TypeOK
  <2>2. CASE from # "served"
    <3>1. Serving' = Serving
      BY <1>1, <2>2 DEF Serving, TypeOK
    <3> QED
      BY <1>1, <2>2, <3>1 DEF CountIsExact
  <2> QED
    BY <2>1, <2>2
<1>5. OwnersAreUnique'
  BY <1>1 DEF OwnersAreUnique, Elements, Distinct, TypeOK
<1> QED
  BY <1>2, <1>3, <1>4, <1>5

\* The invariant is inductive.
LEMMA NextIInv == IInv /\ [Next]_vars => IInv'
<1> SUFFICES ASSUME IInv, [Next]_vars PROVE IInv'
  OBVIOUS
<1>1. CASE UNCHANGED vars
  <2>1. UNCHANGED <<pc, client, i, active_connections, workers, remaining, thread, queue, away, max_connections>>
    BY <1>1 DEF vars, local, counters, fleet, outside
  <2>2. TypeOK' /\ ClientsAreNew'
    BY <2>1 DEF IInv, TypeOK, ClientsAreNew, Elements, Distinct
  <2>3. CountIsExact'
    BY <2>1 DEF IInv, CountIsExact, Serving
  <2>4. OwnersAreUnique'
    BY <2>1 DEF IInv, OwnersAreUnique, Elements, Distinct
  <2> QED
    BY <2>2, <2>3, <2>4 DEF IInv
<1> QED
  BY <1>1, OutsideIInv, SpawnIInv, JoinIInv, WorkerIInv DEF Next, run, Over

LEMMA Inductive == Spec => []IInv
  BY InitIInv, NextIInv, PTL DEF Spec

-----------------------------------------------------------------------------
\* The counter that max_connections is compared with covers the clients being
\* served, stays within the limit, and is back at zero when run() returns.
THEOREM CountIsSound == Spec => []ActiveIsSound
<1>1. IInv => ActiveIsSound
  <2> SUFFICES ASSUME IInv PROVE ActiveIsSound
    OBVIOUS
  <2>1. Cardinality(Serving) \in Nat
    BY ServingIsFinite
  <2>2. ASSUME pc = "returned" PROVE Serving = {}
    BY <2>2, EmptyElements DEF IInv, OwnersAreUnique, Serving
  <2>3. Cardinality(Serving) <= active_connections /\ active_connections <= max_connections
    BY <2>1 DEF IInv, CountIsExact
  <2>4. ASSUME pc = "returned" PROVE active_connections = 0
    BY <2>2, <2>4, FS_EmptySet DEF IInv, CountIsExact
  <2> QED
    BY <2>1, <2>3, <2>4 DEF ActiveIsSound
<1> QED
  BY <1>1, Inductive, PTL

\* Every started thread that is not joined yet is in one place, from where it will
\* be joined, and no place holds any other.
THEOREM OneOwner == Spec => []ThreadsAreOwned
<1>1. IInv => ThreadsAreOwned
  <2> SUFFICES ASSUME IInv PROVE ThreadsAreOwned
    OBVIOUS
  <2> USE DEF IInv
  <2>1. PICK s \in {workers, remaining} : workers \o remaining = s /\ Elements(s) = Elements(workers) \cup Elements(remaining)
    <3>1. workers \o <<>> = workers /\ <<>> \o remaining = remaining
      BY DEF TypeOK
    <3> QED
      BY <3>1, EmptyElements DEF OwnersAreUnique
  <2>2. s \in Seq(Client) /\ Distinct(s)
    BY DEF TypeOK, OwnersAreUnique
  <2>3. Elements(s) \subseteq Client
    BY <2>2 DEF Elements
  <2>4. CASE pc = "push"
    <3>1. client \in Client /\ client \notin Elements(s)
      BY <2>1, <2>4, EmptyElements DEF OwnersAreUnique
    <3>2. Threads = Append(s, client)
      BY <2>1, <2>2, <2>4, <3>1 DEF Threads
    <3>3. Elements(Threads) = Elements(s) \cup {client} /\ Distinct(Threads)
      BY <2>2, <3>1, <3>2, AppendElements
    <3>4. Elements(Threads) = {c \in Client : thread[c] \notin {"none", "joined"}}
      BY <2>1, <2>4, <2>3, <3>1, <3>3 DEF OwnersAreUnique
    <3> QED
      BY <3>3, <3>4 DEF ThreadsAreOwned, Elements, Distinct, ToSet
  <2>5. CASE pc # "push"
    <3>1. Threads = s
      BY <2>1, <2>2, <2>5 DEF Threads
    <3>2. Elements(s) = {c \in Client : thread[c] \notin {"none", "joined"}}
      BY <2>1, <2>5, <2>3 DEF OwnersAreUnique
    <3> QED
      BY <2>2, <3>1, <3>2 DEF ThreadsAreOwned, Elements, Distinct, ToSet
  <2> QED
    BY <2>4, <2>5
<1> QED
  BY <1>1, Inductive, PTL

\* However the loop ended, no worker is left when run() returns.
THEOREM WorkersAreGone == Spec => []NoWorkerOutlivesRun
<1>1. IInv => NoWorkerOutlivesRun
  BY EmptyElements DEF IInv, OwnersAreUnique, NoWorkerOutlivesRun
<1> QED
  BY <1>1, Inductive, PTL
=============================================================================
