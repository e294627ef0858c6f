------------------------------- MODULE Server -------------------------------
(***************************************************************************)
(* Server: the accept loop, one worker thread for each admitted client,    *)
(* and shutdown.  What a worker says to its client is Connection's         *)
(* business; here it serves until its client is through.                   *)
(*                                                                         *)
(* workers_mutex_ is only ever taken by the accept loop's own thread, so   *)
(* it is held exactly while pc is "reap", and needs no variable.           *)
(***************************************************************************)
EXTENDS Integers, Sequences, FiniteSets, SequencesExt

CONSTANTS Client, None,
          Limits,          \* the max_connections an operator may configure
          MaxInterrupts    \* bound on the signals that interrupt poll()

ASSUME LimitAssumption == Limits \subseteq Nat
ASSUME ClientAssumption == IsFiniteSet(Client) /\ None \notin Client

VARIABLES pc,                  \* where run() is
          ready, i, client,    \* its locals: what poll() said, reap's index, the socket
          stop_requested,
          connections_served, active_connections,
          workers,             \* workers_, each Worker named by its client
          remaining,           \* what join_all_workers has swapped out of it
          thread,              \* the life of each client's thread
          finished,            \* the flag each worker shares with the loop
          queue,               \* connections the kernel has completed
          away,                \* clients that have not connected yet
          through,             \* clients that will send nothing more
          max_connections,     \* config_.max_connections, which never changes
          interrupts           \* signals that have interrupted poll()

local == <<ready, i, client>>
counters == <<connections_served, active_connections>>
fleet == <<workers, remaining, thread, finished>>
outside == <<stop_requested, queue, away, through, interrupts, max_connections>>
vars == <<pc, local, counters, fleet, outside>>

Init ==
    /\ pc = "start" /\ ready = FALSE /\ i = 1 /\ client = None
    /\ stop_requested = FALSE
    /\ connections_served = 0 /\ active_connections = 0
    /\ workers = <<>> /\ remaining = <<>>
    /\ thread = [c \in Client |-> "none"]
    /\ finished = [c \in Client |-> FALSE]
    /\ queue = <<>> /\ away = Client /\ through = {}
    /\ interrupts = 0 /\ max_connections \in Limits

-----------------------------------------------------------------------------
(* The clients and the operator *)

Connect(c) ==
    /\ c \in away /\ pc \notin {"start", "failed"}
    /\ away' = away \ {c} /\ queue' = Append(queue, c)
    /\ UNCHANGED <<pc, local, counters, fleet, stop_requested, through, interrupts, max_connections>>

\* The client disconnects, quits or breaks the framing.
HangUp(c) ==
    /\ c \notin away \cup through
    /\ through' = through \cup {c}
    /\ UNCHANGED <<pc, local, counters, fleet, stop_requested, queue, away, interrupts, max_connections>>

stop ==
    /\ ~stop_requested /\ stop_requested' = TRUE
    /\ UNCHANGED <<pc, local, counters, fleet, queue, away, through, interrupts, max_connections>>

-----------------------------------------------------------------------------
(* start() and the accept loop *)

Goto(l) == pc' = l

\* socket, inet_pton, bind and listen: the first that fails ends it.
start ==
    /\ pc = "start"
    /\ \E ok \in BOOLEAN : Goto(IF ok THEN "check" ELSE "failed")
    /\ UNCHANGED <<local, counters, fleet, outside>>

\* Mutant: the flag is not looked at.
Bad_Stopping == FALSE
Stopping == stop_requested

CheckStop ==
    /\ pc = "check"
    /\ Goto(IF Stopping THEN "swap" ELSE "poll")
    /\ UNCHANGED <<local, counters, fleet, outside>>

PollInterrupted ==
    /\ pc = "poll" /\ interrupts < MaxInterrupts
    /\ interrupts' = interrupts + 1
    /\ Goto("check")
    /\ UNCHANGED <<local, counters, fleet, stop_requested, queue, away, through, max_connections>>

PollFails ==
    /\ pc = "poll"
    /\ Goto("swap")
    /\ UNCHANGED <<local, counters, fleet, outside>>

\* Workers are reaped in every round.  Mutant: only when there is a new connection.
Bad_AfterPoll == IF queue # <<>> THEN "reap" ELSE "check"
AfterPoll == "reap"

\* poll() reports a connection, or times out because there is none.
Poll ==
    /\ pc = "poll"
    /\ ready' = (queue # <<>>)
    /\ i' = 1
    /\ Goto(AfterPoll)
    /\ UNCHANGED <<client, counters, fleet, outside>>

\* thread::join waits for the thread to exit.  Mutant: the thread is let go.
Bad_Join(c) == UNCHANGED thread
Join(c) == thread[c] = "exited" /\ thread' = [thread EXCEPT ![c] = "joined"]

\* One iteration of reap_finished_workers.
ReapOne ==
    /\ pc = "reap" /\ i <= Len(workers)
    /\ IF finished[workers[i]]
       THEN Join(workers[i]) /\ workers' = RemoveAt(workers, i) /\ i' = i
       ELSE i' = i + 1 /\ UNCHANGED <<thread, workers>>
    /\ UNCHANGED <<pc, ready, client, counters, remaining, finished, outside>>

ReapDone ==
    /\ pc = "reap" /\ i > Len(workers)
    /\ Goto(IF ready THEN "accept" ELSE "check")
    /\ UNCHANGED <<local, counters, fleet, outside>>

Accept ==
    /\ pc = "accept" /\ queue # <<>>
    /\ client' = Head(queue) /\ queue' = Tail(queue)
    /\ Goto("limit")
    /\ UNCHANGED <<ready, i, counters, fleet, stop_requested, away, through, interrupts, max_connections>>

\* accept() fails: the connection is gone, or there is no descriptor for it and
\* it stays where it is.
AcceptFails ==
    /\ pc = "accept" /\ queue # <<>>
    /\ queue' \in {queue, Tail(queue)}
    /\ Goto("check")
    /\ UNCHANGED <<local, counters, fleet, stop_requested, away, through, interrupts, max_connections>>

\* Past the limit the client is told so, and its socket closed.
CheckLimit ==
    /\ pc = "limit"
    /\ IF active_connections >= max_connections
       THEN Goto("check") /\ client' = None
       ELSE Goto("spawn") /\ UNCHANGED client
    /\ UNCHANGED <<ready, i, counters, fleet, outside>>

-----------------------------------------------------------------------------
(* spawn_worker *)

Count ==
    /\ pc = "spawn"
    /\ connections_served' = connections_served + 1
    /\ active_connections' = active_connections + 1
    /\ Goto("create")
    /\ UNCHANGED <<local, fleet, outside>>

Create ==
    /\ pc = "create"
    /\ thread' = [thread EXCEPT ![client] = "serving"]
    /\ Goto("push")
    /\ UNCHANGED <<local, counters, workers, remaining, finished, outside>>

\* Mutant: the place is not given back.
Bad_GivenBack == active_connections
GivenBack == active_connections - 1

\* std::thread throws; the socket dies with the lambda.
CreateFails ==
    /\ pc = "create"
    /\ active_connections' = GivenBack
    /\ client' = None
    /\ Goto("check")
    /\ UNCHANGED <<ready, i, connections_served, fleet, outside>>

Push ==
    /\ pc = "push"
    /\ workers' = Append(workers, client)
    /\ client' = None
    /\ Goto("check")
    /\ UNCHANGED <<ready, i, counters, remaining, thread, finished, outside>>

-----------------------------------------------------------------------------
(* join_all_workers *)

Swap ==
    /\ pc = "swap"
    /\ remaining' = workers /\ workers' = <<>>
    /\ Goto("join")
    /\ UNCHANGED <<local, counters, thread, finished, outside>>

JoinOne ==
    /\ pc = "join" /\ remaining # <<>>
    /\ Join(Head(remaining))
    /\ remaining' = Tail(remaining)
    /\ UNCHANGED <<pc, local, counters, workers, finished, outside>>

JoinDone ==
    /\ pc = "join" /\ remaining = <<>>
    /\ Goto("returned")
    /\ UNCHANGED <<local, counters, fleet, outside>>

-----------------------------------------------------------------------------
(* A worker thread *)

Advance(c, from, to) ==
    /\ thread[c] = from
    /\ thread' = [thread EXCEPT ![c] = to]

\* serve() returns once its client is through.
Served(c) ==
    /\ c \in through
    /\ Advance(c, "serving", "served")
    /\ UNCHANGED <<pc, local, counters, workers, remaining, finished, outside>>

Uncount(c) ==
    /\ Advance(c, "served", "uncounted")
    /\ active_connections' = active_connections - 1
    /\ UNCHANGED <<pc, local, connections_served, workers, remaining, finished, outside>>

Finish(c) ==
    /\ Advance(c, "uncounted", "finished")
    /\ finished' = [finished EXCEPT ![c] = TRUE]
    /\ UNCHANGED <<pc, local, counters, workers, remaining, outside>>

\* ~Connection closes the socket, and the thread is done.
Exit(c) ==
    /\ Advance(c, "finished", "exited")
    /\ UNCHANGED <<pc, local, counters, workers, remaining, finished, outside>>

-----------------------------------------------------------------------------
run ==
    \/ CheckStop \/ PollInterrupted \/ PollFails \/ Poll \/ ReapOne \/ ReapDone
    \/ Accept \/ AcceptFails \/ CheckLimit \/ Count \/ Create \/ CreateFails \/ Push
    \/ Swap \/ JoinOne \/ JoinDone

Worker(c) == Served(c) \/ Uncount(c) \/ Finish(c) \/ Exit(c)

\* run() has returned, or start() has failed.
Over == pc \in {"returned", "failed"} /\ UNCHANGED vars

Next == start \/ run \/ stop \/ Over \/ \E c \in Client : Connect(c) \/ HangUp(c) \/ Worker(c)

Spec == Init /\ [][Next]_vars

\* The threads of the process keep running.  Nothing is assumed of the clients
\* or of the operator.
FairSpec == Spec /\ WF_vars(run) /\ \A c \in Client : WF_vars(Worker(c))

-----------------------------------------------------------------------------
(* Properties *)

\* The variables hold values of their types.
TypeOK ==
    /\ client \in Client \cup {None} /\ i \in Nat \ {0}
    /\ workers \in Seq(Client) /\ remaining \in Seq(Client) /\ queue \in Seq(Client)
    /\ away \subseteq Client
    /\ thread \in [Client -> {"none", "serving", "served", "uncounted", "finished",
                              "exited", "joined"}]
    /\ max_connections \in Nat

Serving == {c \in Client : thread[c] \in {"serving", "served"}}

\* Whatever the workers and the failures of std::thread are up to, the counter
\* the limit is checked against covers every client being served and never
\* passes the limit, and nothing is left in it when run() returns.
ActiveIsSound ==
    /\ Cardinality(Serving) <= active_connections
    /\ active_connections <= max_connections
    /\ pc = "returned" => active_connections = 0

\* The std::threads there are: in the vector, in the swapped out vector, and in the
\* local variable of spawn_worker before it is pushed.
Threads == workers \o remaining \o (IF pc = "push" THEN <<client>> ELSE <<>>)

\* A thread that has been started has exactly one owner until it is joined, and
\* none after that: no joinable std::thread is destroyed, none is joined twice.
ThreadsAreOwned ==
    /\ \A m, n \in 1..Len(Threads) : Threads[m] = Threads[n] => m = n
    /\ ToSet(Threads) = {c \in Client : thread[c] \notin {"none", "joined"}}

\* No thread that could touch the cache is left when run() returns, however the
\* loop ended.
NoWorkerOutlivesRun ==
    pc = "returned" => \A c \in Client : thread[c] \in {"none", "joined"}

\* As long as the loop runs it gets round to joining every finished worker.
WorkersAreReaped ==
    \A c \in Client : finished[c] ~> thread[c] = "joined" \/ pc = "join"

\* stop() makes run() return, provided that every client being served is through
\* at some time: an idle client holds it up.
ShutdownCompletes ==
    (\A c \in Client : thread[c] = "serving" ~> c \in through)
        => (stop_requested /\ pc # "failed" ~> pc \in {"start", "returned"})
=============================================================================
