-------------------------- MODULE ServerMainProofs --------------------------
(***************************************************************************)
(* However many workers write and save, and whatever the saver is in the   *)
(* middle of when the server is told to stop: the final snapshot is        *)
(* current, and no thread is left when main leaves.                        *)
(***************************************************************************)
EXTENDS ServerMain, TLAPS

\* The variables hold values of their types, as far as the argument needs them.
Types ==
    /\ cache \in Nat /\ file \in Nat
    /\ copy \in [Thread -> Nat \cup {None}]
    /\ worker \in [Worker -> {"none", "serving", "joined"}]

\* Workers serve only while run() is under way, and a worker that does not serve
\* is in no save.
WorkersAreContained ==
    /\ pc \notin {"run", "join_workers"} => \A w \in Worker : worker[w] # "serving"
    /\ \A w \in Worker : worker[w] # "serving" => copy[w] = None

\* The saver exists from the start of run() until stop() has joined it, and holds a
\* copy only on its way from export to replace.
SaverIsContained ==
    /\ pc \in {"load", "start", "save", "replace", "destroy", "exited"} => saver \in {"none", "done"}
    /\ saver # "replace" => copy[Saver] = None

\* From the final copy on nobody else changes the cache or the file.
FinalSaveIsLast ==
    /\ IF pc = "replace" THEN copy[Main] = cache ELSE copy[Main] = None
    /\ pc \in {"destroy", "exited"} /\ exit_code = 0 /\ persistence => file = cache

IInv == Types /\ WorkersAreContained /\ SaverIsContained /\ FinalSaveIsLast

\* The invariant holds when main begins.
LEMMA InitIInv == Init => IInv
  BY NamesAssumption
  DEF Init, IInv, Types, WorkersAreContained, SaverIsContained, FinalSaveIsLast, Thread, Main, Saver

\* The steps of a client's worker preserve the invariant: once the final save has
\* begun none is left to take one.
LEMMA WorkerIInv ==
    ASSUME IInv, NEW w \in Worker, Serve(w) \/ Write(w) \/ Save(w) \/ Leave(w)
    PROVE  IInv'
<1> USE NamesAssumption DEF IInv, Types, WorkersAreContained, SaverIsContained, FinalSaveIsLast, Thread
<1>1. CASE Serve(w)
  BY <1>1 DEF Serve, data, config
<1>2. CASE Write(w)
  BY <1>2 DEF Write, config
<1>3. CASE Save(w)
  <2>1. worker[w] = "serving" /\ pc \in {"run", "join_workers"} /\ w # Main /\ w # Saver
    BY <1>3 DEF Save
  <2>2. UNCHANGED <<persistence, pc, exit_code, worker, saver, cache>>
    BY <1>3 DEF Save, config, Export, Replace
  <2>3. file' \in Nat /\ copy' \in [Thread -> Nat \cup {None}]
        /\ \A t \in Thread \ {w} : copy'[t] = copy[t]
    BY <1>3 DEF Save, Export, Replace
  <2> QED
    BY <2>1, <2>2, <2>3
<1>4. CASE Leave(w)
  BY <1>4 DEF Leave, data, config
<1> QED
  BY <1>1, <1>2, <1>3, <1>4

\* The steps of the saver preserve the invariant: it has returned before the final
\* save begins.
LEMMA SaverIInv ==
    ASSUME IInv, SaverRuns \/ SaverTimesOut \/ SaverStirs
    PROVE  IInv'
<1> USE NamesAssumption DEF IInv, Types, WorkersAreContained, SaverIsContained, FinalSaveIsLast, Thread
<1>0. /\ saver \notin {"none", "done"}
      /\ UNCHANGED <<persistence, pc, exit_code, worker, cache>>
      /\ pc \notin {"load", "start", "save", "replace", "destroy", "exited"}
  BY DEF SaverRuns, SaverLocks, SaverTests, SaverWaits, SaverWakes, SaverUnlocks, SaverExports,
         SaverReplaces, SaverReturns, SaverTimesOut, SaverStirs, SaverGoes, config, data, Export, Replace
<1>1. CASE SaverExports \/ SaverReplaces
  <2>1. /\ file' \in Nat /\ copy' \in [Thread -> Nat \cup {None}]
        /\ \A t \in Thread \ {Saver} : copy'[t] = copy[t]
        /\ saver' # "replace" => copy'[Saver] = None
    BY <1>1 DEF SaverExports, SaverReplaces, SaverGoes, Export, Replace
  <2> QED
    BY <1>0, <2>1 DEF Main, Saver
<1>2. CASE SaverLocks \/ SaverTests \/ SaverWaits \/ SaverWakes \/ SaverUnlocks \/ SaverReturns
           \/ SaverTimesOut \/ SaverStirs
  <2>1. UNCHANGED <<file, copy>> /\ saver # "replace" /\ saver' # "replace"
    BY <1>2 DEF SaverLocks, SaverTests, SaverWaits, SaverWakes, SaverUnlocks, SaverReturns,
                SaverTimesOut, SaverStirs, SaverGoes, data
  <2> QED
    BY <1>0, <2>1
<1> QED
  BY <1>1, <1>2 DEF SaverRuns

\* The steps of main preserve the invariant: it waits for the workers and for the
\* saver before the final save.
LEMMA MainIInv ==
    ASSUME IInv, main
    PROVE  IInv'
<1> USE NamesAssumption DEF IInv, Types, WorkersAreContained, SaverIsContained, FinalSaveIsLast, Thread,
                             MainGoes, config, data
<1>1. CASE Load
  BY <1>1 DEF Load
<1>2. CASE Start
  BY <1>2 DEF Start
<1>3. CASE StartFails
  BY <1>3 DEF StartFails
<1>4. CASE RunStops
  BY <1>4 DEF RunStops
<1>5. CASE RunReturns
  BY <1>5 DEF RunReturns, WorkersJoined
<1>6. CASE StopLocks \/ StopSets
  BY <1>6 DEF StopLocks, StopSets
<1>7. CASE StopNotifies
  BY <1>7 DEF StopNotifies, Notified
<1>8. CASE StopJoins
  BY <1>8 DEF StopJoins, SaverJoined
<1>9. CASE FinalExport
  <2>1. /\ copy' \in [Thread -> Nat \cup {None}] /\ copy'[Main] = cache
        /\ \A t \in Thread \ {Main} : copy'[t] = copy[t]
    BY <1>9 DEF FinalExport, Export
  <2> QED
    BY <1>9, <2>1 DEF FinalExport, Export, Main, Saver
<1>10. CASE NoFinalSave
  BY <1>10 DEF NoFinalSave
<1>11. CASE FinalReplace
  <2>1. /\ copy' \in [Thread -> Nat \cup {None}] /\ copy'[Main] = None
        /\ \A t \in Thread \ {Main} : copy'[t] = copy[t]
    BY <1>11 DEF FinalReplace, Replace
  <2> QED
    BY <1>11, <2>1 DEF FinalReplace, Replace, Main, Saver
<1>12. CASE Destroy
  BY <1>12 DEF Destroy
<1> QED
  BY <1>1, <1>2, <1>3, <1>4, <1>5, <1>6, <1>7, <1>8, <1>9, <1>10, <1>11, <1>12 DEF main

\* Every step preserves the invariant.
LEMMA NextIInv == IInv /\ [Next]_vars => IInv'
<1> SUFFICES ASSUME IInv, [Next]_vars PROVE IInv'
  OBVIOUS
<1>1. CASE Signal
  BY <1>1 DEF Signal, IInv, Types, WorkersAreContained, SaverIsContained, FinalSaveIsLast, data, config
<1>2. CASE UNCHANGED vars
  BY <1>2 DEF vars, IInv, Types, WorkersAreContained, SaverIsContained, FinalSaveIsLast, data, config
<1> QED
  BY <1>1, <1>2, WorkerIInv, SaverIInv, MainIInv DEF Next, Exited

\* A server that exits with success leaves a snapshot with every write made: the
\* final save of main is the last, whatever saves were under way.
THEOREM FinalSnapshot == Spec => []FinalSnapshotIsCurrent
<1>1. IInv => FinalSnapshotIsCurrent
  BY DEF IInv, FinalSaveIsLast, FinalSnapshotIsCurrent
<1> QED
  BY <1>1, InitIInv, NextIInv, PTL DEF Spec

\* When main leaves, neither the saver nor a worker is left to use the cache.
THEOREM ThreadsAreGone == Spec => []NoThreadOutlivesMain
<1>1. IInv => NoThreadOutlivesMain
  BY DEF IInv, WorkersAreContained, SaverIsContained, NoThreadOutlivesMain
<1> QED
  BY <1>1, InitIInv, NextIInv, PTL DEF Spec
=============================================================================
