----------------------------- MODULE ServerMain -----------------------------
(***************************************************************************)
(* The life of the server process: main, the PeriodicSaver it owns, and    *)
(* the workers that Server::run() joins before it returns (the subject of  *)
(* Server).  The cache is abstracted to the number of the last write it    *)
(* took and the snapshot file to that of the last write in it; a save is   *)
(* the two steps that matter to the others, copying the cache and          *)
(* replacing the file (the subject of Persistence).                        *)
(***************************************************************************)
EXTENDS Integers

CONSTANTS Worker, None,
          MaxWrites  \* bound on the writes of the clients

ASSUME WritesAssumption == MaxWrites \in Nat

Main == "main"
Saver == "saver"

ASSUME NamesAssumption == Main \notin Worker /\ Saver \notin Worker /\ None \notin Nat

VARIABLES persistence, interval,  \* whether there is a snapshot path, and an interval
          cache, file,            \* the last write each of them holds, 0 for none
          copy,                   \* what each save under way has copied, None when there is none
          stop_requested,
          pc, exit_code,          \* where main is
          worker,                 \* the life of each worker
          mutex, stopping,        \* PeriodicSaver's mutex_ and stopping_
          saver                   \* where the saver's thread is

data == <<cache, file, copy>>
config == <<persistence, interval>>
vars == <<config, data, stop_requested, pc, exit_code, worker, mutex, stopping, saver>>

Thread == Worker \cup {Main, Saver}

Init ==
    /\ persistence \in BOOLEAN /\ interval \in BOOLEAN
    /\ cache = 0 /\ file \in {0, 1}
    /\ copy = [t \in Thread |-> None]
    /\ stop_requested = FALSE
    /\ pc = "load" /\ exit_code = None
    /\ worker = [w \in Worker |-> "none"]
    /\ mutex = None /\ stopping = FALSE
    /\ saver = "none"

-----------------------------------------------------------------------------
(* save, by whichever thread *)

Export(t) == copy[t] = None /\ copy' = [copy EXCEPT ![t] = cache] /\ UNCHANGED <<cache, file>>

\* The file is replaced, or the save fails and it is not.
Replace(t, ok) ==
    /\ copy[t] # None
    /\ file' = IF ok THEN copy[t] ELSE file
    /\ copy' = [copy EXCEPT ![t] = None]
    /\ UNCHANGED cache

-----------------------------------------------------------------------------
(* The clients' workers *)

Serve(w) ==
    /\ pc = "run" /\ worker[w] = "none"
    /\ worker' = [worker EXCEPT ![w] = "serving"]
    /\ UNCHANGED <<config, data, stop_requested, pc, exit_code, mutex, stopping, saver>>

Write(w) ==
    /\ worker[w] = "serving" /\ copy[w] = None /\ cache < MaxWrites
    /\ cache' = cache + 1
    /\ UNCHANGED <<config, file, copy, stop_requested, pc, exit_code, worker, mutex, stopping, saver>>

\* The SAVE command.
Save(w) ==
    /\ worker[w] = "serving" /\ persistence
    /\ Export(w) \/ \E ok \in BOOLEAN : Replace(w, ok)
    /\ UNCHANGED <<config, stop_requested, pc, exit_code, worker, mutex, stopping, saver>>

Leave(w) ==
    /\ worker[w] = "serving" /\ copy[w] = None
    /\ worker' = [worker EXCEPT ![w] = "joined"]
    /\ UNCHANGED <<config, data, stop_requested, pc, exit_code, mutex, stopping, saver>>

-----------------------------------------------------------------------------
(* PeriodicSaver::run *)

\* The saver's thread goes from one place to another, with the mutex passing
\* from and to the given holders.
SaverGoes(from, to, held, holds) ==
    /\ saver = from /\ saver' = to
    /\ mutex = held /\ mutex' = holds
    /\ UNCHANGED <<config, stop_requested, pc, exit_code, worker, stopping>>

SaverLocks == SaverGoes("lock", "test", None, Saver) /\ UNCHANGED data

\* wait_for tests stopping_ before it waits.
SaverTests == SaverGoes("test", IF stopping THEN "return" ELSE "wait", Saver, Saver) /\ UNCHANGED data

SaverWaits == SaverGoes("wait", "blocked", Saver, None) /\ UNCHANGED data

\* The interval is over: the lock is taken again, and the wait ends either way.
SaverTimesOut ==
    /\ SaverGoes("blocked", IF stopping THEN "return" ELSE "save", None, Saver)
    /\ UNCHANGED data

\* Awake: the lock is taken again, and the test made.
SaverWakes == SaverGoes("notified", "test", None, Saver) /\ UNCHANGED data

SaverUnlocks == SaverGoes("save", "export", Saver, None) /\ UNCHANGED data

SaverExports ==
    SaverGoes("export", "replace", mutex, mutex) /\ Export(Saver)

SaverReplaces ==
    SaverGoes("replace", "lock", mutex, mutex) /\ \E ok \in BOOLEAN : Replace(Saver, ok)

SaverReturns == SaverGoes("return", "done", Saver, None) /\ UNCHANGED data

\* A spurious wakeup.
SaverStirs == SaverGoes("blocked", "notified", mutex, mutex) /\ UNCHANGED data

-----------------------------------------------------------------------------
(* main *)

\* The handlers are installed once the server has started; nothing is learnt from a
\* signal that kills the process before that.
Signal ==
    /\ pc \notin {"load", "start"}
    /\ ~stop_requested /\ stop_requested' = TRUE
    /\ UNCHANGED <<config, data, pc, exit_code, worker, mutex, stopping, saver>>

MainGoes(from, to) == pc = from /\ pc' = to /\ UNCHANGED <<config, stop_requested, worker>>

\* A snapshot that cannot be read is ignored.
Load ==
    /\ MainGoes("load", "start")
    /\ cache' \in IF persistence THEN {file, 0} ELSE {0}
    /\ UNCHANGED <<file, copy, exit_code, mutex, stopping, saver>>

Start ==
    /\ MainGoes("start", "run")
    /\ saver' = IF persistence /\ interval THEN "lock" ELSE "none"
    /\ UNCHANGED <<data, exit_code, mutex, stopping>>

StartFails ==
    /\ MainGoes("start", "exited")
    /\ exit_code' = 1
    /\ UNCHANGED <<data, mutex, stopping, saver>>

\* run() stops accepting, and returns when the workers are joined.
RunStops ==
    /\ stop_requested
    /\ MainGoes("run", "join_workers")
    /\ UNCHANGED <<data, exit_code, mutex, stopping, saver>>

\* Mutant: the workers are not joined.
Bad_WorkersJoined == TRUE
WorkersJoined == \A w \in Worker : worker[w] # "serving"

RunReturns ==
    /\ WorkersJoined
    /\ MainGoes("join_workers", IF saver = "none" THEN "save" ELSE "stop")
    /\ UNCHANGED <<data, exit_code, mutex, stopping, saver>>

\* PeriodicSaver::stop: under the lock, then the notification, then the join.
StopLocks ==
    /\ MainGoes("stop", "stop_set")
    /\ mutex = None /\ mutex' = Main
    /\ UNCHANGED <<data, exit_code, stopping, saver>>

StopSets ==
    /\ MainGoes("stop_set", "notify")
    /\ stopping' = TRUE /\ mutex' = None
    /\ UNCHANGED <<data, exit_code, saver>>

\* notify_all.  Mutant: it is left out.
Bad_Notified == saver
Notified == IF saver = "blocked" THEN "notified" ELSE saver

StopNotifies ==
    /\ MainGoes("notify", "join_saver")
    /\ saver' = Notified
    /\ UNCHANGED <<data, exit_code, mutex, stopping>>

\* Mutant: the saver is not joined.
Bad_SaverJoined == TRUE
SaverJoined == saver = "done"

StopJoins ==
    /\ SaverJoined
    /\ MainGoes("join_saver", "save")
    /\ UNCHANGED <<data, exit_code, mutex, stopping, saver>>

FinalExport ==
    /\ persistence
    /\ MainGoes("save", "replace") /\ Export(Main)
    /\ UNCHANGED <<exit_code, mutex, stopping, saver>>

NoFinalSave ==
    /\ ~persistence
    /\ MainGoes("save", "destroy") /\ exit_code' = 0
    /\ UNCHANGED <<data, mutex, stopping, saver>>

FinalReplace ==
    /\ MainGoes("replace", "destroy")
    /\ \E ok \in BOOLEAN : Replace(Main, ok) /\ exit_code' = IF ok THEN 0 ELSE 1
    /\ UNCHANGED <<mutex, stopping, saver>>

\* ~PeriodicSaver stops once more, and finds it stopped.
Destroy ==
    /\ saver # "none" => mutex = None /\ stopping
    /\ MainGoes("destroy", "exited")
    /\ UNCHANGED <<data, exit_code, mutex, stopping, saver>>

-----------------------------------------------------------------------------
SaverRuns == SaverLocks \/ SaverTests \/ SaverWaits \/ SaverWakes \/ SaverUnlocks
             \/ SaverExports \/ SaverReplaces \/ SaverReturns

main == Load \/ Start \/ StartFails \/ RunStops \/ RunReturns \/ StopLocks \/ StopSets
        \/ StopNotifies \/ StopJoins \/ FinalExport \/ NoFinalSave \/ FinalReplace \/ Destroy

Exited == pc = "exited" /\ UNCHANGED vars

Next ==
    \/ main \/ Signal \/ Exited
    \/ SaverRuns \/ SaverTimesOut \/ SaverStirs
    \/ \E w \in Worker : Serve(w) \/ Write(w) \/ Save(w) \/ Leave(w)

Spec == Init /\ [][Next]_vars

\* The threads keep running, and main acquires a mutex that keeps coming free (the
\* saver holds it for an instant in every interval).  The interval may be as long
\* as it likes, and nobody need send a signal.
FairSpec == Spec /\ SF_vars(main) /\ WF_vars(SaverRuns)

-----------------------------------------------------------------------------
(* Properties *)

\* When the server exits with success its snapshot holds every write any client
\* was told had been made: no worker wrote after the final save copied the cache,
\* and no earlier save replaces the file after it.
FinalSnapshotIsCurrent ==
    pc = "exited" /\ exit_code = 0 /\ persistence => file = cache

\* When main leaves, and the cache is destroyed, no thread is left to use it.
NoThreadOutlivesMain ==
    pc = "exited" => saver \in {"none", "done"} /\ \A w \in Worker : worker[w] # "serving"

\* Once the workers are gone a server told to stop exits, even if the saver's
\* interval is never over: the notification of stop() is not lost.
StopsWithoutTimeout == pc = "stop" ~> pc = "exited"
=============================================================================
