--------------------------- MODULE MapReduceProofs ---------------------------
(***************************************************************************)
(* Theorems about MapReduce, for any number of input files, reducers and   *)
(* workers and any number of crashes.                                      *)
(***************************************************************************)
EXTENDS MapReduce, FiniteSetTheorems, TLAPS

-----------------------------------------------------------------------------
\* What the proofs use of the assumptions on the constants.
LEMMA Sizes ==
    /\ NMap \in Nat \ {0} /\ NReduce \in Nat \ {0}
    /\ MaxCrashes \in Nat
    /\ NoOutput \notin [MapTasks -> FilesOrNone]
  BY CoordAssumption, WorkerAssumption DEF CoordAssumption, WorkerAssumption

LEMMA ZeroIsATask == 0 \in MapTasks /\ 0 \in ReduceTasks
  BY Sizes DEF MapTasks, ReduceTasks

LEMMA NothingReadType == NothingRead \in [MapTasks -> FilesOrNone]
  BY DEF NothingRead, FilesOrNone

-----------------------------------------------------------------------------
(* Counting completed tasks.                                                *)

\* Completing a task of n adds one to the count, which stays within n.
LEMMA CountOneMore ==
    ASSUME NEW n \in Nat, NEW s \in [0 .. n - 1 -> Statuses],
           NEW i \in 0 .. n - 1, s[i] # "COMPLETE"
    PROVE  /\ Cardinality(Completed([s EXCEPT ![i] = "COMPLETE"]))
                = Cardinality(Completed(s)) + 1
           /\ Cardinality(Completed(s)) + 1 \in 0 .. n
<1> DEFINE D == Completed(s)
           E == Completed([s EXCEPT ![i] = "COMPLETE"])
<1>1. E = D \union {i} /\ i \notin D /\ E \subseteq 0 .. n - 1 /\ D \subseteq 0 .. n - 1
  BY DEF Completed
<1>2. IsFiniteSet(0 .. n - 1) /\ Cardinality(0 .. n - 1) = n
  BY FS_Interval
<1>3. IsFiniteSet(D) /\ IsFiniteSet(E) /\ Cardinality(E) <= n
  <2>1. IsFiniteSet(D)
    BY <1>1, <1>2, FS_Subset
  <2>2. IsFiniteSet(E) /\ Cardinality(E) <= Cardinality(0 .. n - 1)
    <3> HIDE DEF E
    <3> QED
      BY <1>1, <1>2, FS_Subset
  <2> QED
    BY <1>2, <2>1, <2>2
<1>4. Cardinality(E) = Cardinality(D) + 1
  BY <1>1, <1>3, FS_AddElement
<1>5. Cardinality(D) \in Nat
  BY <1>3, FS_CardinalityType
<1> QED
  BY <1>3, <1>4, <1>5

\* The count reaches n exactly when every task is complete.
LEMMA CountAll ==
    ASSUME NEW n \in Nat, NEW s \in [0 .. n - 1 -> Statuses],
           Cardinality(Completed(s)) = n
    PROVE  \A i \in 0 .. n - 1 : s[i] = "COMPLETE"
<1>1. IsFiniteSet(0 .. n - 1) /\ Cardinality(0 .. n - 1) = n
  BY FS_Interval
<1>2. Completed(s) \subseteq 0 .. n - 1
  BY DEF Completed
<1>3. Completed(s) = 0 .. n - 1
  BY <1>1, <1>2, FS_Subset
<1> QED
  BY <1>3 DEF Completed

\* At the start no task is complete.
LEMMA CountNone ==
    ASSUME NEW n \in Nat
    PROVE  Cardinality(Completed([i \in 0 .. n - 1 |-> "IDLE"])) = 0
<1>1. Completed([i \in 0 .. n - 1 |-> "IDLE"]) = {}
  BY DEF Completed
<1> QED
  BY <1>1, FS_EmptySet

-----------------------------------------------------------------------------
(* The types and the counters.                                              *)

\* The invariant that makes TypeOK and CountersExact inductive: what a busy
\* worker holds agrees with the phase, only tasks in progress are late, and
\* no reduce task is touched before the map phase is over.
LateInProgress ==
    /\ \A i \in mapLate : mapStatuses[i] = "INPROGRESS"
    /\ \A i \in reduceLate : reduceStatuses[i] = "INPROGRESS"

BusyMatchesPhase ==
    \A w \in Workers :
        /\ pc[w] = "map" => reply[w].TaskType = "map"
        /\ pc[w] = "reduce" => reply[w].TaskType = "reduce"
        /\ pc[w] = "report" => reply[w].TaskType \in {"map", "reduce"}
        /\ pc[w] \in {"reduce", "report"} /\ reply[w].TaskType = "reduce" => phase # "PhaseMap"

ReduceUntouched ==
    phase = "PhaseMap" => \A i \in ReduceTasks : reduceStatuses[i] = "IDLE"

CountInv == TypeOK /\ CountersExact /\ LateInProgress /\ BusyMatchesPhase /\ ReduceUntouched

LEMMA InitCountInv == Init => CountInv
<1> SUFFICES ASSUME Init PROVE CountInv
  OBVIOUS
<1> USE DEF Init, CoordInit
<1>1. TypeOK
  <2>1. ZeroReply \in Replies
    BY ZeroIsATask DEF ZeroReply, Replies, FilesOrNone
  <2>3. CoordTypeOK
    BY Sizes DEF CoordTypeOK, Phases, Statuses
  <2> QED
    BY <2>1, <2>3, Sizes, NothingReadType DEF TypeOK, FilesOrNone
<1>2. CountersExact
  BY Sizes, CountNone DEF CountersExact, MapTasks, ReduceTasks
<1>3. LateInProgress /\ BusyMatchesPhase /\ ReduceUntouched
  BY DEF LateInProgress, BusyMatchesPhase, ReduceUntouched, ZeroReply
<1> QED
  BY <1>1, <1>2, <1>3 DEF CountInv

\* A reply decoded into an old one is a reply.
LEMMA RepliesType ==
    /\ ZeroReply \in Replies /\ WaitReply \in Replies
    /\ \A i \in MapTasks : MapReply(i) \in Replies
    /\ \A i \in ReduceTasks : ReduceReply(i) \in Replies
  BY ZeroIsATask DEF ZeroReply, WaitReply, MapReply, ReduceReply, Replies, FilesOrNone

LEMMA DecodedType ==
    ASSUME NEW old \in Replies, NEW new \in Replies
    PROVE  Decoded(old, new) \in Replies /\ Decoded(old, new).TaskType = new.TaskType
  BY DEF Decoded, Replies

LEMMA NextCountInv == CountInv /\ [Next]_vars => CountInv'
<1> SUFFICES ASSUME CountInv, [Next]_vars PROVE CountInv'
  OBVIOUS
<1> USE DEF CountInv
<1>s. /\ NMap \in Nat \ {0} /\ NReduce \in Nat \ {0} /\ MaxCrashes \in Nat
      /\ MapTasks = 0 .. NMap - 1 /\ ReduceTasks = 0 .. NReduce - 1
  BY Sizes DEF MapTasks, ReduceTasks
<1>1. ASSUME NEW w \in Workers, GetMapTask(w) PROVE CountInv'
  <2> PICK i \in MapTasks : RequestMapTask(i) /\ Receives(w, MapReply(i), "map")
    BY <1>1 DEF GetMapTask
  <2>1. reply'[w] \in Replies /\ reply'[w].TaskType = "map"
    <3>1. reply[w] \in Replies /\ MapReply(i) \in Replies /\ reply'[w] = Decoded(reply[w], MapReply(i))
      BY RepliesType DEF Receives, TypeOK
    <3>2. MapReply(i).TaskType = "map"
      BY DEF MapReply, ZeroReply
    <3> QED
      BY <3>1, <3>2, DecodedType
  <2>2. mapStatuses' \in [MapTasks -> Statuses] /\ Completed(mapStatuses') = Completed(mapStatuses)
    <3>1. /\ mapStatuses \in [0 .. NMap - 1 -> Statuses] /\ mapLate \in SUBSET (0 .. NMap - 1)
          /\ \A j \in mapLate : mapStatuses[j] = "INPROGRESS"
          /\ i \in 0 .. NMap /\ i < NMap /\ mapStatuses[i] = "IDLE"
          /\ mapStatuses' = HandOut(mapStatuses, mapLate, i)
      BY <1>s DEF RequestMapTask, FirstIdle, TypeOK, CoordTypeOK, LateInProgress
    <3> QED
      BY <1>s, <3>1 DEF HandOut, ScannedTo, Completed, Statuses
  <2>3. TypeOK'
    BY <2>1, <2>2 DEF TypeOK, CoordTypeOK, Receives, RequestMapTask, reduceVars, fileVars
  <2>4. CountersExact'
    BY <2>2 DEF CountersExact, RequestMapTask, reduceVars
  <2>5. LateInProgress'
    BY <1>s DEF LateInProgress, RequestMapTask, HandOut, ScannedTo, TypeOK, CoordTypeOK, reduceVars
  <2>6. BusyMatchesPhase'
    BY <2>1 DEF BusyMatchesPhase, Receives, RequestMapTask, TypeOK
  <2>7. ReduceUntouched'
    BY DEF ReduceUntouched, RequestMapTask, reduceVars
  <2> QED
    BY <2>3, <2>4, <2>5, <2>6, <2>7
<1>2. ASSUME NEW w \in Workers, GetReduceTask(w) PROVE CountInv'
  <2> PICK i \in ReduceTasks : RequestReduceTask(i) /\ Receives(w, ReduceReply(i), "reduce")
    BY <1>2 DEF GetReduceTask
  <2>1. reply'[w] \in Replies /\ reply'[w].TaskType = "reduce"
    <3>1. reply[w] \in Replies /\ ReduceReply(i) \in Replies /\ reply'[w] = Decoded(reply[w], ReduceReply(i))
      BY RepliesType DEF Receives, TypeOK
    <3>2. ReduceReply(i).TaskType = "reduce"
      BY DEF ReduceReply, ZeroReply
    <3> QED
      BY <3>1, <3>2, DecodedType
  <2>2. /\ reduceStatuses' \in [ReduceTasks -> Statuses]
        /\ Completed(reduceStatuses') = Completed(reduceStatuses)
    <3>1. /\ reduceStatuses \in [0 .. NReduce - 1 -> Statuses]
          /\ reduceLate \in SUBSET (0 .. NReduce - 1)
          /\ \A j \in reduceLate : reduceStatuses[j] = "INPROGRESS"
          /\ i \in 0 .. NReduce /\ i < NReduce /\ reduceStatuses[i] = "IDLE"
          /\ reduceStatuses' = HandOut(reduceStatuses, reduceLate, i)
      BY <1>s DEF RequestReduceTask, FirstIdle, TypeOK, CoordTypeOK, LateInProgress
    <3> QED
      BY <1>s, <3>1 DEF HandOut, ScannedTo, Completed, Statuses
  <2>3. TypeOK'
    BY <2>1, <2>2 DEF TypeOK, CoordTypeOK, Receives, RequestReduceTask, mapVars, fileVars
  <2>4. CountersExact'
    BY <2>2 DEF CountersExact, RequestReduceTask, mapVars
  <2>5. LateInProgress'
    BY <1>s DEF LateInProgress, RequestReduceTask, HandOut, ScannedTo, TypeOK, CoordTypeOK, mapVars
  <2>6. BusyMatchesPhase'
    BY <2>1 DEF BusyMatchesPhase, Receives, RequestReduceTask, TypeOK
  <2>7. ReduceUntouched'
    BY DEF ReduceUntouched, RequestReduceTask
  <2> QED
    BY <2>3, <2>4, <2>5, <2>6, <2>7
<1>3. ASSUME NEW w \in Workers, Wait(w) PROVE CountInv'
  <2>0. RequestNoTask /\ Receives(w, WaitReply, "request")
    BY <1>3 DEF Wait
  <2>1. reply'[w] \in Replies /\ reply'[w].TaskType = "wait"
    <3>1. reply[w] \in Replies /\ WaitReply \in Replies /\ reply'[w] = Decoded(reply[w], WaitReply)
      BY <2>0, RepliesType DEF Receives, TypeOK
    <3>2. WaitReply.TaskType = "wait"
      BY DEF WaitReply, ZeroReply
    <3> QED
      BY <3>1, <3>2, DecodedType
  <2>2. /\ mapStatuses' \in [MapTasks -> Statuses]
        /\ Completed(mapStatuses') = Completed(mapStatuses)
        /\ reduceStatuses' \in [ReduceTasks -> Statuses]
        /\ Completed(reduceStatuses') = Completed(reduceStatuses)
    <3>1. /\ mapStatuses \in [0 .. NMap - 1 -> Statuses] /\ mapLate \in SUBSET (0 .. NMap - 1)
          /\ \A j \in mapLate : mapStatuses[j] = "INPROGRESS"
          /\ reduceStatuses \in [0 .. NReduce - 1 -> Statuses]
          /\ reduceLate \in SUBSET (0 .. NReduce - 1)
          /\ \A j \in reduceLate : reduceStatuses[j] = "INPROGRESS"
      BY <1>s DEF TypeOK, CoordTypeOK, LateInProgress
    <3>2. /\ mapStatuses' \in {mapStatuses, ScannedTo(mapStatuses, mapLate, NMap)}
          /\ reduceStatuses' \in {reduceStatuses, ScannedTo(reduceStatuses, reduceLate, NReduce)}
      BY <2>0 DEF RequestNoTask, mapVars, reduceVars
    <3>3. /\ ScannedTo(mapStatuses, mapLate, NMap) \in [0 .. NMap - 1 -> Statuses]
          /\ Completed(ScannedTo(mapStatuses, mapLate, NMap)) = Completed(mapStatuses)
      BY <1>s, <3>1 DEF HandOut, ScannedTo, Completed, Statuses
    <3>4. /\ ScannedTo(reduceStatuses, reduceLate, NReduce) \in [0 .. NReduce - 1 -> Statuses]
          /\ Completed(ScannedTo(reduceStatuses, reduceLate, NReduce)) = Completed(reduceStatuses)
      BY <1>s, <3>1 DEF HandOut, ScannedTo, Completed, Statuses
    <3> QED
      BY <1>s, <3>1, <3>2, <3>3, <3>4
  <2>3. TypeOK'
    BY <2>0, <2>1, <2>2 DEF TypeOK, CoordTypeOK, Receives, RequestNoTask, mapVars, reduceVars, fileVars
  <2>4. CountersExact'
    BY <2>0, <2>2 DEF CountersExact, RequestNoTask
  <2>5. LateInProgress'
    BY <2>0 DEF LateInProgress, RequestNoTask, mapVars, reduceVars
  <2>6. BusyMatchesPhase'
    BY <2>0, <2>1 DEF BusyMatchesPhase, Receives, RequestNoTask, TypeOK
  <2>7. ReduceUntouched'
    BY <2>0 DEF ReduceUntouched, RequestNoTask, reduceVars
  <2> QED
    BY <2>3, <2>4, <2>5, <2>6, <2>7
<1>4. ASSUME NEW w \in Workers, ReportTask(w), reply[w].TaskType = "map",
             ReportMap(reply[w].MapTaskId)
      PROVE  CountInv'
  <2> DEFINE i == reply[w].MapTaskId
  <2>0. i \in MapTasks
    BY DEF TypeOK, Replies
  <2>1. CASE mapStatuses[i] = "COMPLETE"
    BY <1>4, <2>1
    DEF ReportTask, ReportMap, mapVars, reduceVars, fileVars, TypeOK, CoordTypeOK, CountersExact,
        LateInProgress, BusyMatchesPhase, ReduceUntouched
  <2>2. CASE mapStatuses[i] # "COMPLETE"
    <3>1. /\ mapStatuses' = [mapStatuses EXCEPT ![i] = "COMPLETE"]
          /\ mapLate' = mapLate \ {i} /\ mapsDone' = mapsDone + 1
          /\ phase' = IF mapsDone' = NMap THEN "PhaseReduce" ELSE phase
          /\ UNCHANGED <<reduceStatuses, reduceLate, reduceDone, mainLoop>>
          /\ pc' = [pc EXCEPT ![w] = "request"]
          /\ UNCHANGED <<reply, step, gathered, inter, out, crashes>>
      BY <1>4, <2>2 DEF ReportTask, ReportMap, reduceVars, fileVars
    <3>2. Cardinality(Completed(mapStatuses')) = mapsDone' /\ mapsDone' \in 0 .. NMap
      BY <1>s, <2>0, <2>2, <3>1, CountOneMore DEF TypeOK, CoordTypeOK, CountersExact
    <3>3. phase = "PhaseMap" /\ mapsDone < NMap
      BY <1>s, <3>1, <3>2 DEF CountersExact, TypeOK, CoordTypeOK
    <3>4. TypeOK'
      BY <3>1, <3>2 DEF TypeOK, CoordTypeOK, Phases, Statuses
    <3>5. CountersExact'
      BY <1>s, <3>1, <3>2, <3>3 DEF CountersExact, TypeOK, CoordTypeOK
    <3>6. LateInProgress'
      BY <3>1 DEF LateInProgress, TypeOK, CoordTypeOK
    <3>7. BusyMatchesPhase' /\ ReduceUntouched'
      BY <3>1, <3>3 DEF BusyMatchesPhase, ReduceUntouched, TypeOK
    <3> QED
      BY <3>4, <3>5, <3>6, <3>7
  <2> QED
    BY <2>1, <2>2
<1>5. ASSUME NEW w \in Workers, ReportTask(w), reply[w].TaskType = "reduce",
             ReportReduce(reply[w].ReduceTaskId)
      PROVE  CountInv'
  <2> DEFINE i == reply[w].ReduceTaskId
  <2>0. i \in ReduceTasks
    BY DEF TypeOK, Replies
  <2>1. CASE reduceStatuses[i] = "COMPLETE"
    BY <1>5, <2>1
    DEF ReportTask, ReportReduce, mapVars, reduceVars, fileVars, TypeOK, CoordTypeOK, CountersExact,
        LateInProgress, BusyMatchesPhase, ReduceUntouched
  <2>2. CASE reduceStatuses[i] # "COMPLETE"
    <3>1. /\ reduceStatuses' = [reduceStatuses EXCEPT ![i] = "COMPLETE"]
          /\ reduceLate' = reduceLate \ {i} /\ reduceDone' = reduceDone + 1
          /\ phase' = IF reduceDone' = NReduce THEN "PhaseDone" ELSE phase
          /\ UNCHANGED <<mapStatuses, mapLate, mapsDone, mainLoop>>
          /\ pc' = [pc EXCEPT ![w] = "request"]
          /\ UNCHANGED <<reply, step, gathered, inter, out, crashes>>
      BY <1>5, <2>2 DEF ReportTask, ReportReduce, mapVars, fileVars
    <3>2. Cardinality(Completed(reduceStatuses')) = reduceDone' /\ reduceDone' \in 0 .. NReduce
      BY <1>s, <2>0, <2>2, <3>1, CountOneMore DEF TypeOK, CoordTypeOK, CountersExact
    <3>3. phase = "PhaseReduce" /\ mapsDone = NMap
      <4>1. pc[w] = "report"
        BY <1>5 DEF ReportTask
      <4>2. phase # "PhaseMap"
        BY <1>5, <4>1 DEF BusyMatchesPhase
      <4>3. reduceDone # NReduce
        BY <1>s, <3>1, <3>2 DEF TypeOK, CoordTypeOK
      <4> QED
        BY <1>s, <4>2, <4>3 DEF CountersExact, TypeOK, CoordTypeOK, Phases
    <3>4. TypeOK'
      BY <3>1, <3>2 DEF TypeOK, CoordTypeOK, Phases, Statuses
    <3>5. CountersExact'
      BY <1>s, <3>1, <3>2, <3>3 DEF CountersExact, TypeOK, CoordTypeOK
    <3>6. LateInProgress'
      BY <3>1 DEF LateInProgress, TypeOK, CoordTypeOK
    <3>7. BusyMatchesPhase' /\ ReduceUntouched'
      BY <3>1, <3>3 DEF BusyMatchesPhase, ReduceUntouched, TypeOK
    <3> QED
      BY <3>4, <3>5, <3>6, <3>7
  <2> QED
    BY <2>1, <2>2
<1>6. ASSUME NEW w \in Workers, RenameIntermediate(w) PROVE CountInv'
  <2> USE <1>6 DEF RenameIntermediate, coordVars, mapVars, reduceVars
  <2>1. TypeOK'
    <3> DEFINE k == reply[w].MapTaskId
    <3>0. step[w] \in Nat /\ step[w] < NReduce
      BY <1>6 DEF TypeOK
    <3>1. k \in MapTasks /\ step[w] \in ReduceTasks /\ reply[w].Filename \in FilesOrNone
      <4>1. step[w] \in ReduceTasks
        BY <1>s, <3>0
      <4> QED
        BY <4>1 DEF TypeOK, Replies
    <3>2. Renamed(inter[k][step[w]], reply[w].Filename) \in FilesOrNone
      BY <3>1 DEF Renamed, TypeOK
    <3>3. inter' \in [MapTasks -> [ReduceTasks -> FilesOrNone]]
      BY <3>1, <3>2 DEF TypeOK
    <3>4. step' \in [Workers -> Nat]
      BY DEF TypeOK
    <3> QED
      BY <3>3, <3>4 DEF TypeOK, CoordTypeOK
  <2> QED
    BY <2>1 DEF CountersExact, LateInProgress, BusyMatchesPhase, ReduceUntouched
<1>7. ASSUME NEW w \in Workers, MapFinished(w) PROVE CountInv'
  BY <1>7 DEF MapFinished, coordVars, mapVars, reduceVars, fileVars, TypeOK, CoordTypeOK,
              CountersExact, LateInProgress, BusyMatchesPhase, ReduceUntouched
<1>8. ASSUME NEW w \in Workers, ReadIntermediate(w) PROVE CountInv'
  <2> USE <1>8 DEF ReadIntermediate, coordVars, mapVars, reduceVars, fileVars
  <2>1. TypeOK'
    <3> DEFINE r == reply[w].ReduceTaskId
    <3>0. step[w] \in Nat /\ step[w] < NMap
      BY <1>8 DEF TypeOK
    <3>1. r \in ReduceTasks /\ step[w] \in MapTasks
      <4>1. step[w] \in MapTasks
        BY <1>s, <3>0
      <4> QED
        BY <4>1 DEF TypeOK, Replies
    <3>2. inter[step[w]][r] \in FilesOrNone
      BY <3>1 DEF TypeOK
    <3>3. gathered' \in [Workers -> [MapTasks -> FilesOrNone]]
      BY <3>1, <3>2 DEF TypeOK
    <3>4. step' \in [Workers -> Nat]
      BY DEF TypeOK
    <3> QED
      BY <3>3, <3>4 DEF TypeOK, CoordTypeOK
  <2> QED
    BY <2>1 DEF CountersExact, LateInProgress, BusyMatchesPhase, ReduceUntouched
<1>9. ASSUME NEW w \in Workers, RenameOutput(w) PROVE CountInv'
  <2> USE <1>9 DEF RenameOutput, coordVars, mapVars, reduceVars
  <2>1. TypeOK'
    <3>1. reply[w].ReduceTaskId \in ReduceTasks
      BY DEF TypeOK, Replies
    <3>2. Renamed(out[reply[w].ReduceTaskId], gathered[w]) \in [MapTasks -> FilesOrNone] \union {NoOutput}
      BY <3>1 DEF TypeOK, Renamed
    <3>3. out' \in [ReduceTasks -> [MapTasks -> FilesOrNone] \union {NoOutput}]
      BY <3>1, <3>2 DEF TypeOK
    <3>4. gathered' \in [Workers -> [MapTasks -> FilesOrNone]]
      BY NothingReadType DEF TypeOK
    <3> QED
      BY <3>3, <3>4 DEF TypeOK, CoordTypeOK
  <2> QED
    BY <2>1 DEF CountersExact, LateInProgress, BusyMatchesPhase, ReduceUntouched, TypeOK
<1>10. ASSUME NEW w \in Workers, WorkerExits(w) PROVE CountInv'
  BY <1>10 DEF WorkerExits, coordVars, mapVars, reduceVars, fileVars, TypeOK, CoordTypeOK,
               CountersExact, LateInProgress, BusyMatchesPhase, ReduceUntouched
<1>11. ASSUME NEW w \in Workers, WorkerCrashes(w) PROVE CountInv'
  <2> USE <1>11 DEF WorkerCrashes, coordVars, mapVars, reduceVars, fileVars
  <2>1. TypeOK'
    BY <1>s, NothingReadType DEF TypeOK, CoordTypeOK
  <2> QED
    BY <2>1 DEF CountersExact, LateInProgress, BusyMatchesPhase, ReduceUntouched, TypeOK
<1>12. ASSUME NEW w \in Workers, StartWorker(w) PROVE CountInv'
  <2> USE <1>12 DEF StartWorker, coordVars, mapVars, reduceVars, fileVars
  <2>1. TypeOK'
    BY RepliesType DEF TypeOK, CoordTypeOK
  <2> QED
    BY <2>1 DEF CountersExact, LateInProgress, BusyMatchesPhase, ReduceUntouched, TypeOK
<1>13. ASSUME NEW i \in MapTasks, MapTimeout(i) PROVE CountInv'
  BY <1>13 DEF MapTimeout, MapLeaseExpires, workerVars, mapVars, reduceVars, fileVars, TypeOK,
               CoordTypeOK, CountersExact, LateInProgress, BusyMatchesPhase, ReduceUntouched
<1>14. ASSUME NEW i \in ReduceTasks, ReduceTimeout(i) PROVE CountInv'
  BY <1>14 DEF ReduceTimeout, ReduceLeaseExpires, workerVars, mapVars, reduceVars, fileVars, TypeOK,
               CoordTypeOK, CountersExact, LateInProgress, BusyMatchesPhase, ReduceUntouched
<1>15. CASE MainStep
  BY <1>15 DEF MainStep, DonePolled, CoordinatorExits, workerVars, mapVars, reduceVars, fileVars,
               TypeOK, CoordTypeOK, CountersExact, LateInProgress, BusyMatchesPhase, ReduceUntouched
<1>16. CASE UNCHANGED vars
  BY <1>16 DEF vars, coordVars, workerVars, mapVars, reduceVars, fileVars,
               TypeOK, CoordTypeOK, CountersExact, LateInProgress, BusyMatchesPhase, ReduceUntouched
<1>17. ASSUME NEW w \in Workers, ReportTask(w) PROVE CountInv'
  BY <1>4, <1>5, <1>17 DEF ReportTask
<1> QED
  BY <1>1, <1>2, <1>3, <1>6, <1>7, <1>8, <1>9, <1>10, <1>11, <1>12, <1>13, <1>14, <1>15, <1>16, <1>17
  DEF Next, WorkerStep, Terminated

\* The types of all variables, and the exactness of the coordinator's
\* counters and phase, hold in every behaviour.
THEOREM TypesAndCounters == Safe => [](TypeOK /\ CountersExact)
<1>1. Safe => []CountInv
  BY InitCountInv, NextCountInv, PTL DEF Safe
<1>2. CountInv => TypeOK /\ CountersExact
  BY DEF CountInv
<1> QED
  BY <1>1, <1>2, PTL

-----------------------------------------------------------------------------
(* Correct outputs.  They need two things of the environment: map task 0 is *)
(* never retried (or a worker's stale MapTaskId could be taken for it), and *)
(* os.Rename can move a temporary file into the work directory.             *)

CleanRetries == <<"map", 0>> \notin Straggling /\ SameDevice

Identity == [k \in MapTasks |-> k]

\* Map task 0 is handed out once, before any other: as long as it is IDLE no
\* worker has a MapTaskId but 0.
ZeroFirst ==
    /\ 0 \notin mapLate
    /\ mapStatuses[0] = "IDLE" => \A w \in Workers : reply[w].MapTaskId = 0

\* No process ends before the job is done.
NobodyEndsEarly ==
    /\ mainLoop # "polling" => phase = "PhaseDone"
    /\ \A w \in Workers : pc[w] = "exited" => mainLoop = "exited"

\* A map worker works on its own input and has published what it passed.
MapWorkersPublish ==
    \A w \in Workers :
        /\ pc[w] = "map" =>
             /\ reply[w].Filename = reply[w].MapTaskId
             /\ \A r \in ReduceTasks : r < step[w] =>
                    inter[reply[w].MapTaskId][r] = reply[w].MapTaskId
        /\ pc[w] = "report" /\ reply[w].TaskType = "map" =>
             \A r \in ReduceTasks : inter[reply[w].MapTaskId][r] = reply[w].MapTaskId

\* A reduce worker has read every map task's pairs so far.
ReduceWorkersRead ==
    \A w \in Workers :
        /\ pc[w] = "reduce" =>
             \A k \in MapTasks : k < step[w] => gathered[w][k] = k
        /\ pc[w] = "report" /\ reply[w].TaskType = "reduce" =>
             out[reply[w].ReduceTaskId] = Identity

\* Both loops start at index 0.
LoopsStartAtZero ==
    \A w \in Workers : pc[w] \notin {"map", "reduce"} => step[w] = 0

OutputsWhole ==
    \A r \in ReduceTasks :
        /\ out[r] \in {NoOutput, Identity}
        /\ reduceStatuses[r] = "COMPLETE" => out[r] = Identity

CorrectInv ==
    /\ ZeroFirst /\ NobodyEndsEarly /\ MapWorkersPublish
    /\ CompleteMapsPublished /\ ReduceWorkersRead /\ OutputsWhole /\ LoopsStartAtZero

\* After the map phase every map task is complete.
LEMMA MapsComplete ==
    ASSUME CountInv, phase # "PhaseMap"
    PROVE  \A k \in MapTasks : mapStatuses[k] = "COMPLETE"
<1>1. /\ NMap \in Nat /\ mapsDone \in 0 .. NMap /\ ~(mapsDone < NMap)
      /\ mapsDone = Cardinality(Completed(mapStatuses))
      /\ mapStatuses \in [0 .. NMap - 1 -> Statuses]
  BY Sizes DEF CountInv, CountersExact, TypeOK, CoordTypeOK, MapTasks
<1>2. Cardinality(Completed(mapStatuses)) = NMap
  BY <1>1
<1> QED
  BY <1>1, <1>2, CountAll DEF MapTasks

LEMMA ReducesComplete ==
    CountInv /\ phase = "PhaseDone" => \A r \in ReduceTasks : reduceStatuses[r] = "COMPLETE"
<1> SUFFICES ASSUME CountInv, phase = "PhaseDone"
             PROVE  \A r \in ReduceTasks : reduceStatuses[r] = "COMPLETE"
  OBVIOUS
<1>1. /\ NReduce \in Nat /\ Cardinality(Completed(reduceStatuses)) = NReduce
      /\ reduceStatuses \in [0 .. NReduce - 1 -> Statuses]
  BY Sizes DEF CountInv, CountersExact, TypeOK, CoordTypeOK, ReduceTasks
<1> QED
  BY <1>1, CountAll DEF ReduceTasks

LEMMA InitCorrectInv == Init => CorrectInv
<1> SUFFICES ASSUME Init PROVE CorrectInv
  OBVIOUS
<1> USE DEF Init, CoordInit
<1>1. ZeroFirst /\ NobodyEndsEarly
  BY ZeroIsATask DEF ZeroFirst, NobodyEndsEarly, ZeroReply
<1>2. MapWorkersPublish /\ CompleteMapsPublished /\ ReduceWorkersRead /\ LoopsStartAtZero
  BY DEF MapWorkersPublish, CompleteMapsPublished, ReduceWorkersRead, LoopsStartAtZero
<1>3. OutputsWhole
  BY DEF OutputsWhole
<1> QED
  BY <1>1, <1>2, <1>3 DEF CorrectInv

\* What the worker's reply is after each answer of the coordinator.
LEMMA DecodedFields ==
    ASSUME NEW old \in Replies
    PROVE  /\ \A i \in MapTasks :
                /\ Decoded(old, MapReply(i)).Filename = i
                /\ i # 0 => Decoded(old, MapReply(i)).MapTaskId = i
                /\ i = 0 => Decoded(old, MapReply(i)).MapTaskId = old.MapTaskId
           /\ \A i \in ReduceTasks : Decoded(old, ReduceReply(i)).MapTaskId = old.MapTaskId
           /\ Decoded(old, WaitReply).MapTaskId = old.MapTaskId
  BY Sizes DEF Decoded, MapReply, ReduceReply, WaitReply, ZeroReply, NoFile, MapTasks

LEMMA NextCorrectInv ==
    ASSUME CleanRetries, CountInv, CountInv', CorrectInv, [Next]_vars
    PROVE  CorrectInv'
<1> USE DEF CorrectInv
<1>s. /\ NMap \in Nat \ {0} /\ NReduce \in Nat \ {0}
      /\ MapTasks = 0 .. NMap - 1 /\ ReduceTasks = 0 .. NReduce - 1
      /\ 0 \in MapTasks /\ 0 \in ReduceTasks /\ TypeOK /\ TypeOK'
  BY Sizes, ZeroIsATask DEF MapTasks, ReduceTasks, CountInv
<1>t. /\ \A w \in Workers : reply[w] \in Replies /\ step[w] \in Nat
      /\ \A w \in Workers : reply[w].MapTaskId \in MapTasks /\ reply[w].ReduceTaskId \in ReduceTasks
  BY <1>s DEF TypeOK, Replies
<1>1. ASSUME NEW w \in Workers, GetMapTask(w) PROVE CorrectInv'
  <2> PICK i \in MapTasks : RequestMapTask(i) /\ Receives(w, MapReply(i), "map")
    BY <1>1 DEF GetMapTask
  <2>1. /\ reply' = [reply EXCEPT ![w] = Decoded(reply[w], MapReply(i))]
        /\ pc' = [pc EXCEPT ![w] = "map"]
        /\ UNCHANGED <<step, gathered, inter, out, phase, reduceStatuses, mainLoop>>
        /\ pc[w] = "request"
    BY DEF Receives, RequestMapTask, reduceVars, fileVars
  <2>2. /\ reply'[w].Filename = i
        /\ i # 0 => reply'[w].MapTaskId = i
        /\ i = 0 => reply'[w].MapTaskId = reply[w].MapTaskId
    <3>1. reply'[w] = Decoded(reply[w], MapReply(i))
      BY <1>s, <2>1 DEF TypeOK
    <3> QED
      BY <1>t, <3>1, DecodedFields
  <2>3. /\ mapStatuses[i] = "IDLE" /\ (i # 0 => mapStatuses[0] # "IDLE")
        /\ mapStatuses' = HandOut(mapStatuses, mapLate, i) /\ mapLate' \subseteq mapLate
    BY <1>s DEF RequestMapTask, FirstIdle, TypeOK, CoordTypeOK
  <2>4. reply'[w].MapTaskId = i
    BY <2>2, <2>3 DEF ZeroFirst
  <2>5. ZeroFirst'
    <3>1. 0 \notin mapLate'
      BY <2>3 DEF ZeroFirst
    <3>2. mapStatuses'[0] # "IDLE"
      BY <1>s, <2>3 DEF HandOut, ScannedTo, ZeroFirst, TypeOK, CoordTypeOK
    <3> QED
      BY <3>1, <3>2 DEF ZeroFirst
  <2>6. NobodyEndsEarly' /\ ReduceWorkersRead' /\ OutputsWhole' /\ LoopsStartAtZero'
    BY <1>s, <2>1, <2>2 DEF NobodyEndsEarly, ReduceWorkersRead, OutputsWhole, LoopsStartAtZero, TypeOK
  <2>7. CompleteMapsPublished'
    <3>1. \A k \in MapTasks : mapStatuses'[k] = "COMPLETE" => mapStatuses[k] = "COMPLETE"
      BY <1>s, <2>3 DEF HandOut, ScannedTo, TypeOK, CoordTypeOK
    <3> QED
      BY <2>1, <3>1 DEF CompleteMapsPublished
  <2>8. MapWorkersPublish'
    <3>1. step[w] = 0
      BY <2>1 DEF LoopsStartAtZero
    <3> QED
      BY <1>s, <2>1, <2>2, <2>4, <3>1 DEF MapWorkersPublish, TypeOK
  <2> QED
    BY <2>5, <2>6, <2>7, <2>8
<1>2. ASSUME NEW w \in Workers, GetReduceTask(w) PROVE CorrectInv'
  <2> PICK i \in ReduceTasks : RequestReduceTask(i) /\ Receives(w, ReduceReply(i), "reduce")
    BY <1>2 DEF GetReduceTask
  <2>1. /\ reply' = [reply EXCEPT ![w] = Decoded(reply[w], ReduceReply(i))]
        /\ pc' = [pc EXCEPT ![w] = "reduce"]
        /\ UNCHANGED <<step, gathered, inter, out, phase, mapStatuses, mapLate, mainLoop>>
        /\ pc[w] = "request"
    BY DEF Receives, RequestReduceTask, mapVars, fileVars
  <2>2. reply'[w].MapTaskId = reply[w].MapTaskId
    BY <1>s, <1>t, <2>1, DecodedFields DEF TypeOK
  <2>3. \A r \in ReduceTasks : reduceStatuses'[r] = "COMPLETE" => reduceStatuses[r] = "COMPLETE"
    BY <1>s DEF RequestReduceTask, HandOut, ScannedTo, TypeOK, CoordTypeOK
  <2>4. ZeroFirst'
    BY <1>s, <2>1, <2>2 DEF ZeroFirst, TypeOK
  <2>5. NobodyEndsEarly' /\ LoopsStartAtZero' /\ CompleteMapsPublished' /\ MapWorkersPublish'
    BY <1>s, <2>1
    DEF NobodyEndsEarly, LoopsStartAtZero, CompleteMapsPublished, MapWorkersPublish, TypeOK
  <2>6. ReduceWorkersRead'
    <3>1. step[w] = 0
      BY <2>1 DEF LoopsStartAtZero
    <3> QED
      BY <1>s, <2>1, <3>1 DEF ReduceWorkersRead, TypeOK
  <2>7. OutputsWhole'
    BY <2>1, <2>3 DEF OutputsWhole
  <2> QED
    BY <2>4, <2>5, <2>6, <2>7
<1>3. ASSUME NEW w \in Workers, Wait(w) PROVE CorrectInv'
  <2>0. RequestNoTask /\ Receives(w, WaitReply, "request")
    BY <1>3 DEF Wait
  <2>1. /\ reply' = [reply EXCEPT ![w] = Decoded(reply[w], WaitReply)]
        /\ pc' = pc /\ pc[w] = "request"
        /\ UNCHANGED <<step, gathered, inter, out, phase, mainLoop>>
    BY <1>s, <2>0 DEF Receives, RequestNoTask, fileVars, TypeOK
  <2>2. reply'[w].MapTaskId = reply[w].MapTaskId
    BY <1>s, <1>t, <2>1, DecodedFields DEF TypeOK
  <2>3. /\ \A r \in ReduceTasks : reduceStatuses'[r] = "COMPLETE" => reduceStatuses[r] = "COMPLETE"
        /\ \A k \in MapTasks : mapStatuses'[k] = "COMPLETE" => mapStatuses[k] = "COMPLETE"
        /\ mapLate' \subseteq mapLate
        /\ mapStatuses'[0] = "IDLE" => mapStatuses[0] = "IDLE"
    BY <1>s, <2>0
    DEF RequestNoTask, ScannedTo, ZeroFirst, TypeOK, CoordTypeOK, mapVars, reduceVars
  <2>4. ZeroFirst'
    BY <1>s, <2>1, <2>2, <2>3 DEF ZeroFirst, TypeOK
  <2>5. NobodyEndsEarly' /\ LoopsStartAtZero' /\ CompleteMapsPublished' /\ OutputsWhole'
    BY <2>1, <2>3 DEF NobodyEndsEarly, LoopsStartAtZero, CompleteMapsPublished, OutputsWhole
  <2>6. MapWorkersPublish' /\ ReduceWorkersRead'
    BY <1>s, <2>1 DEF MapWorkersPublish, ReduceWorkersRead, TypeOK
  <2> QED
    BY <2>4, <2>5, <2>6
<1>4. ASSUME NEW w \in Workers, RenameIntermediate(w) PROVE CorrectInv'
  <2> DEFINE k == reply[w].MapTaskId
  <2>1. /\ pc[w] = "map" /\ step[w] \in ReduceTasks /\ k \in MapTasks
        /\ inter' = [inter EXCEPT ![k][step[w]] = k]
        /\ step' = [step EXCEPT ![w] = step[w] + 1]
        /\ UNCHANGED <<phase, mapStatuses, mapLate, reduceStatuses, mainLoop, pc, reply, gathered, out>>
    <3>1. step[w] \in Nat /\ step[w] < NReduce /\ pc[w] = "map" /\ k \in MapTasks
      BY <1>4, <1>t DEF RenameIntermediate
    <3>2. step[w] \in ReduceTasks
      BY <1>s, <3>1
    <3>3. reply[w].Filename = k
      BY <3>1 DEF MapWorkersPublish
    <3> QED
      BY <1>4, <3>1, <3>2, <3>3
      DEF RenameIntermediate, Renamed, CleanRetries, coordVars, mapVars, reduceVars
  <2>2. \A j \in MapTasks, r \in ReduceTasks :
            inter'[j][r] = IF j = k /\ r = step[w] THEN k ELSE inter[j][r]
    BY <1>s, <2>1 DEF TypeOK
  <2>3. ZeroFirst' /\ NobodyEndsEarly' /\ OutputsWhole'
    BY <2>1 DEF ZeroFirst, NobodyEndsEarly, OutputsWhole
  <2>4. CompleteMapsPublished'
    BY <2>1, <2>2 DEF CompleteMapsPublished
  <2>5. LoopsStartAtZero' /\ ReduceWorkersRead'
    BY <1>s, <2>1 DEF LoopsStartAtZero, ReduceWorkersRead, TypeOK
  <2>6. MapWorkersPublish'
    <3> SUFFICES ASSUME NEW v \in Workers,
                        pc[v] = "map" \/ (pc[v] = "report" /\ reply[v].TaskType = "map"),
                        NEW r \in ReduceTasks, pc[v] = "map" => r < step'[v]
                 PROVE  inter'[reply[v].MapTaskId][r] = reply[v].MapTaskId
      BY <2>1 DEF MapWorkersPublish
    <3>1. CASE v = w
      <4>1. r = step[w] \/ r < step[w]
        BY <1>s, <1>t, <2>1, <3>1 DEF TypeOK
      <4> QED
        BY <1>t, <2>1, <2>2, <3>1, <4>1 DEF MapWorkersPublish
    <3>2. CASE v # w
      <4>1. step'[v] = step[v]
        BY <1>s, <2>1, <3>2 DEF TypeOK
      <4>2. inter[reply[v].MapTaskId][r] = reply[v].MapTaskId
        BY <4>1 DEF MapWorkersPublish
      <4> QED
        BY <1>t, <2>2, <4>2
    <3> QED
      BY <3>1, <3>2
  <2> QED
    BY <2>3, <2>4, <2>5, <2>6
<1>5. ASSUME NEW w \in Workers, MapFinished(w) PROVE CorrectInv'
  <2>1. /\ pc[w] = "map" /\ step[w] = NReduce
        /\ pc' = [pc EXCEPT ![w] = "report"] /\ step' = [step EXCEPT ![w] = 0]
        /\ UNCHANGED <<phase, mapStatuses, mapLate, reduceStatuses, mainLoop, reply, gathered, inter, out>>
    BY <1>5 DEF MapFinished, coordVars, mapVars, reduceVars, fileVars
  <2>2. \A r \in ReduceTasks : inter[reply[w].MapTaskId][r] = reply[w].MapTaskId
    BY <1>s, <2>1 DEF MapWorkersPublish
  <2>3. reply[w].TaskType = "map"
    BY <2>1 DEF CountInv, BusyMatchesPhase
  <2> QED
    BY <1>s, <2>1, <2>2, <2>3
    DEF ZeroFirst, NobodyEndsEarly, OutputsWhole, CompleteMapsPublished, LoopsStartAtZero,
        ReduceWorkersRead, MapWorkersPublish, TypeOK
<1>6. ASSUME NEW w \in Workers, ReadIntermediate(w) PROVE CorrectInv'
  <2> DEFINE i == step[w]
  <2>1. /\ pc[w] = "reduce" /\ i \in MapTasks
        /\ gathered' = [gathered EXCEPT ![w][i] = inter[i][reply[w].ReduceTaskId]]
        /\ step' = [step EXCEPT ![w] = i + 1]
        /\ UNCHANGED <<phase, mapStatuses, mapLate, reduceStatuses, mainLoop, pc, reply, inter, out>>
    <3>1. i \in Nat /\ i < NMap
      BY <1>6, <1>t DEF ReadIntermediate
    <3>2. i \in MapTasks
      BY <1>s, <3>1
    <3> QED
      BY <1>6, <3>2 DEF ReadIntermediate, coordVars, mapVars, reduceVars, fileVars
  <2>2. inter[i][reply[w].ReduceTaskId] = i
    <3>1. reply[w].TaskType = "reduce" /\ phase # "PhaseMap"
      BY <2>1 DEF CountInv, BusyMatchesPhase
    <3>2. mapStatuses[i] = "COMPLETE"
      BY <2>1, <3>1, MapsComplete
    <3> QED
      BY <1>t, <2>1, <3>2 DEF CompleteMapsPublished
  <2>3. ZeroFirst' /\ NobodyEndsEarly' /\ OutputsWhole' /\ CompleteMapsPublished'
    BY <2>1 DEF ZeroFirst, NobodyEndsEarly, OutputsWhole, CompleteMapsPublished
  <2>4. LoopsStartAtZero' /\ MapWorkersPublish'
    BY <1>s, <2>1 DEF LoopsStartAtZero, MapWorkersPublish, TypeOK
  <2>5. ReduceWorkersRead'
    <3>1. \A k \in MapTasks : k < i + 1 => gathered'[w][k] = k
      <4> TAKE k \in MapTasks
      <4> HAVE k < i + 1
      <4>1. k = i \/ k < i
        BY <1>s, <2>1
      <4> QED
        BY <1>s, <2>1, <2>2, <4>1 DEF ReduceWorkersRead, TypeOK
    <3>2. \A v \in Workers : v # w => step'[v] = step[v] /\ gathered'[v] = gathered[v]
      BY <1>s, <2>1 DEF TypeOK
    <3>3. step'[w] = i + 1
      BY <1>s, <2>1 DEF TypeOK
    <3> QED
      BY <2>1, <3>1, <3>2, <3>3 DEF ReduceWorkersRead
  <2> QED
    BY <2>3, <2>4, <2>5
<1>7. ASSUME NEW w \in Workers, RenameOutput(w) PROVE CorrectInv'
  <2> DEFINE r == reply[w].ReduceTaskId
  <2>1. gathered[w] = Identity
    <3>1. pc[w] = "reduce" /\ step[w] = NMap
      BY <1>7 DEF RenameOutput
    <3>2. \A k \in MapTasks : gathered[w][k] = k
      BY <1>s, <3>1 DEF ReduceWorkersRead
    <3> QED
      BY <1>s, <3>2 DEF Identity, TypeOK
  <2>2. /\ pc[w] = "reduce"
        /\ out' = [out EXCEPT ![r] = Identity]
        /\ pc' = [pc EXCEPT ![w] = "report"] /\ step' = [step EXCEPT ![w] = 0]
        /\ gathered' = [gathered EXCEPT ![w] = NothingRead]
        /\ UNCHANGED <<phase, mapStatuses, mapLate, reduceStatuses, mainLoop, reply, inter>>
    BY <1>7, <2>1 DEF RenameOutput, Renamed, CleanRetries, coordVars, mapVars, reduceVars
  <2>3. r \in ReduceTasks /\ reply[w].TaskType = "reduce"
    BY <1>t, <2>2 DEF CountInv, BusyMatchesPhase
  <2>4. ZeroFirst' /\ NobodyEndsEarly' /\ CompleteMapsPublished'
    BY <1>s, <2>2 DEF ZeroFirst, NobodyEndsEarly, CompleteMapsPublished, TypeOK
  <2>5. LoopsStartAtZero' /\ MapWorkersPublish'
    BY <1>s, <2>2, <2>3 DEF LoopsStartAtZero, MapWorkersPublish, TypeOK
  <2>6. OutputsWhole'
    BY <1>s, <2>2, <2>3 DEF OutputsWhole, TypeOK
  <2>7. ReduceWorkersRead'
    BY <1>s, <1>t, <2>2, <2>3 DEF ReduceWorkersRead, TypeOK
  <2> QED
    BY <2>4, <2>5, <2>6, <2>7
<1>8. ASSUME NEW w \in Workers, ReportTask(w) PROVE CorrectInv'
  <2>1. /\ pc[w] = "report" /\ pc' = [pc EXCEPT ![w] = "request"]
        /\ UNCHANGED <<reply, step, gathered, inter, out>>
    BY <1>8 DEF ReportTask, fileVars
  <2>4. \A v \in Workers : pc'[v] = pc[v] \/ pc'[v] = "request"
    BY <2>1
  <2>5. MapWorkersPublish'
    BY <1>s, <2>1, <2>4 DEF MapWorkersPublish
  <2>6. ReduceWorkersRead'
    BY <1>s, <2>1, <2>4 DEF ReduceWorkersRead
  <2>2. CASE reply[w].TaskType = "map" /\ ReportMap(reply[w].MapTaskId)
    <3>1. /\ mapLate' \subseteq mapLate /\ UNCHANGED <<reduceStatuses, mainLoop>>
          /\ mapStatuses' \in {mapStatuses, [mapStatuses EXCEPT ![reply[w].MapTaskId] = "COMPLETE"]}
      BY <2>2 DEF ReportMap, mapVars, reduceVars
    <3>2. phase = "PhaseDone" => phase' = "PhaseDone"
      <4>1. SUFFICES ASSUME phase = "PhaseDone" PROVE phase' = "PhaseDone"
        OBVIOUS
      <4>2. mapStatuses[reply[w].MapTaskId] = "COMPLETE"
        BY <1>t, <4>1, MapsComplete
      <4> QED
        BY <2>2, <4>1, <4>2 DEF ReportMap
    <3>3. ZeroFirst'
      BY <1>s, <1>t, <2>1, <3>1 DEF ZeroFirst, TypeOK, CoordTypeOK
    <3>4. NobodyEndsEarly' /\ OutputsWhole' /\ LoopsStartAtZero'
      BY <1>s, <2>1, <3>1, <3>2 DEF NobodyEndsEarly, OutputsWhole, LoopsStartAtZero, TypeOK
    <3>5. CompleteMapsPublished'
      BY <1>s, <1>t, <2>1, <2>2, <3>1 DEF CompleteMapsPublished, MapWorkersPublish, TypeOK, CoordTypeOK
    <3>6. MapWorkersPublish' /\ ReduceWorkersRead'
      BY <2>5, <2>6
    <3> QED
      BY <3>3, <3>4, <3>5, <3>6
  <2>3. CASE reply[w].TaskType = "reduce" /\ ReportReduce(reply[w].ReduceTaskId)
    <3>1. /\ UNCHANGED <<mapStatuses, mapLate, mainLoop>>
          /\ reduceStatuses' \in {reduceStatuses, [reduceStatuses EXCEPT ![reply[w].ReduceTaskId] = "COMPLETE"]}
          /\ phase' \in {phase, "PhaseDone"}
      BY <2>3 DEF ReportReduce, mapVars, reduceVars
    <3>2. ZeroFirst' /\ NobodyEndsEarly' /\ LoopsStartAtZero' /\ CompleteMapsPublished'
      BY <1>s, <2>1, <3>1
      DEF ZeroFirst, NobodyEndsEarly, LoopsStartAtZero, CompleteMapsPublished, TypeOK
    <3>3. OutputsWhole'
      BY <1>s, <1>t, <2>1, <2>3, <3>1 DEF OutputsWhole, ReduceWorkersRead, TypeOK, CoordTypeOK
    <3>4. MapWorkersPublish' /\ ReduceWorkersRead'
      BY <2>5, <2>6
    <3> QED
      BY <3>2, <3>3, <3>4
  <2> QED
    BY <1>8, <2>2, <2>3 DEF ReportTask
<1>9. ASSUME NEW w \in Workers, WorkerExits(w) PROVE CorrectInv'
  <2>1. /\ mainLoop = "exited" /\ pc[w] \in {"request", "report"}
        /\ pc' = [pc EXCEPT ![w] = "exited"]
        /\ UNCHANGED <<phase, mapStatuses, mapLate, reduceStatuses, mainLoop, reply, step, gathered, inter, out>>
    BY <1>9 DEF WorkerExits, Serving, coordVars, mapVars, reduceVars, fileVars
  <2> QED
    BY <1>s, <2>1
    DEF ZeroFirst, NobodyEndsEarly, LoopsStartAtZero, CompleteMapsPublished, MapWorkersPublish,
        ReduceWorkersRead, OutputsWhole, TypeOK
<1>10. ASSUME NEW w \in Workers, WorkerCrashes(w) PROVE CorrectInv'
  <2>1. /\ pc' = [pc EXCEPT ![w] = "crashed"] /\ step' = [step EXCEPT ![w] = 0]
        /\ gathered' = [gathered EXCEPT ![w] = NothingRead]
        /\ UNCHANGED <<phase, mapStatuses, mapLate, reduceStatuses, mainLoop, reply, inter, out>>
    BY <1>10 DEF WorkerCrashes, coordVars, mapVars, reduceVars, fileVars
  <2> QED
    BY <1>s, <2>1
    DEF ZeroFirst, NobodyEndsEarly, LoopsStartAtZero, CompleteMapsPublished, MapWorkersPublish,
        ReduceWorkersRead, OutputsWhole, TypeOK
<1>11. ASSUME NEW w \in Workers, StartWorker(w) PROVE CorrectInv'
  <2>1. /\ pc[w] = "crashed" /\ pc' = [pc EXCEPT ![w] = "request"]
        /\ reply' = [reply EXCEPT ![w] = ZeroReply]
        /\ UNCHANGED <<phase, mapStatuses, mapLate, reduceStatuses, mainLoop, step, gathered, inter, out>>
    BY <1>11 DEF StartWorker, coordVars, mapVars, reduceVars, fileVars
  <2>2. ZeroFirst'
    BY <1>s, <2>1 DEF ZeroFirst, ZeroReply, TypeOK
  <2> QED
    BY <1>s, <2>1, <2>2
    DEF NobodyEndsEarly, LoopsStartAtZero, CompleteMapsPublished, MapWorkersPublish,
        ReduceWorkersRead, OutputsWhole, TypeOK
<1>12. ASSUME NEW i \in MapTasks, MapTimeout(i) PROVE CorrectInv'
  <2>1. /\ i # 0 /\ mapLate' = mapLate \union {i}
        /\ UNCHANGED <<phase, mapStatuses, reduceStatuses, mainLoop, pc, reply, step, gathered, inter, out>>
    BY <1>12 DEF MapTimeout, MapLeaseExpires, CleanRetries, workerVars, fileVars, reduceVars
  <2> QED
    BY <2>1
    DEF ZeroFirst, NobodyEndsEarly, LoopsStartAtZero, CompleteMapsPublished, MapWorkersPublish,
        ReduceWorkersRead, OutputsWhole
<1>13. ASSUME NEW i \in ReduceTasks, ReduceTimeout(i) PROVE CorrectInv'
  BY <1>13
  DEF ReduceTimeout, ReduceLeaseExpires, workerVars, fileVars, mapVars, ZeroFirst, NobodyEndsEarly,
      LoopsStartAtZero, CompleteMapsPublished, MapWorkersPublish, ReduceWorkersRead, OutputsWhole
<1>14. CASE MainStep
  BY <1>14
  DEF MainStep, DonePolled, CoordinatorExits, workerVars, fileVars, mapVars, reduceVars, ZeroFirst,
      NobodyEndsEarly, LoopsStartAtZero, CompleteMapsPublished, MapWorkersPublish,
      ReduceWorkersRead, OutputsWhole
<1>15. CASE UNCHANGED vars
  BY <1>15
  DEF vars, coordVars, workerVars, fileVars, mapVars, reduceVars, ZeroFirst, NobodyEndsEarly,
      LoopsStartAtZero, CompleteMapsPublished, MapWorkersPublish, ReduceWorkersRead, OutputsWhole
<1> QED
  BY <1>1, <1>2, <1>3, <1>4, <1>5, <1>6, <1>7, <1>8, <1>9, <1>10, <1>11, <1>12, <1>13, <1>14, <1>15
  DEF Next, WorkerStep, Terminated

LEMMA JobInvariant ==
    ASSUME CleanRetries
    PROVE  Safe => [](CountInv /\ CorrectInv)
<1>1. Init => CountInv /\ CorrectInv
  BY InitCountInv, InitCorrectInv
<1>2. CountInv /\ CorrectInv /\ [Next]_vars => (CountInv /\ CorrectInv)'
  BY NextCountInv, NextCorrectInv
<1> QED
  BY <1>1, <1>2, PTL DEF Safe

\* An output that read every map task's pairs is what mrsequential makes.
LEMMA IdentityIsSequential == Identity # NoOutput /\ InputsOf(Identity) = Sequential
<1>1. Identity # NoOutput
  BY Sizes DEF Identity, FilesOrNone
<1>2. \A f \in MapTasks : {i \in MapTasks : Identity[i] = f} = {f}
  BY DEF Identity
<1>3. \A f \in MapTasks : Cardinality({i \in MapTasks : Identity[i] = f}) = 1
  BY <1>2, FS_Singleton
<1> QED
  BY <1>1, <1>3 DEF InputsOf, Sequential

\* Unless map task 0 is retried or files cannot be renamed, a job that is done
\* has every output, made from every input file exactly once, and every map
\* task counted as complete has published its own pairs.
THEOREM DoneJobIsCorrect ==
    ASSUME CleanRetries
    PROVE  Safe => [](DoneMeansCorrect /\ CompleteMapsPublished)
<1>1. CountInv /\ CorrectInv => DoneMeansCorrect /\ CompleteMapsPublished
  BY ReducesComplete, IdentityIsSequential
  DEF CorrectInv, OutputsWhole, DoneMeansCorrect
<1> QED
  BY <1>1, JobInvariant, PTL

\* Under the same conditions no output changes once a process has ended,
\* although stragglers may still rename files.
THEOREM OutputsAreFinal ==
    ASSUME CleanRetries
    PROVE  Safe => OutputsFinal
<1>1. CountInv /\ CorrectInv /\ [Next]_vars /\ (CountInv /\ CorrectInv)'
        => [(~Serving \/ \E w \in Workers : pc[w] = "exited") => out' = out]_vars
  <2> SUFFICES ASSUME CountInv, CorrectInv, [Next]_vars, (CountInv /\ CorrectInv)',
                      ~Serving \/ \E w \in Workers : pc[w] = "exited"
               PROVE  out' = out
    OBVIOUS
  <2>1. phase = "PhaseDone"
    BY DEF CorrectInv, NobodyEndsEarly, Serving
  <2>2. \A r \in ReduceTasks : out[r] = Identity
    BY <2>1, ReducesComplete DEF CorrectInv, OutputsWhole
  <2>3. phase' = "PhaseDone"
    <3>1. CASE \E w \in Workers : ReportTask(w)
      <4>1. ~Serving
        BY DEF CorrectInv, NobodyEndsEarly, Serving
      <4> QED
        BY <3>1, <4>1 DEF ReportTask, ReportMap, ReportReduce
    <3> QED
      BY <2>1, <3>1
      DEF Next, WorkerStep, Terminated, GetMapTask, GetReduceTask, Wait, RequestMapTask,
          RequestReduceTask, RequestNoTask, RenameIntermediate, MapFinished, ReadIntermediate,
          RenameOutput, WorkerExits, WorkerCrashes, StartWorker, MapTimeout, MapLeaseExpires,
          ReduceTimeout, ReduceLeaseExpires, MainStep, DonePolled, CoordinatorExits, vars, coordVars
  <2>4. \A r \in ReduceTasks : out'[r] = Identity
    <3>1. \A r \in ReduceTasks : reduceStatuses'[r] = "COMPLETE"
      <4>1. (CountInv /\ phase = "PhaseDone"
              => \A r \in ReduceTasks : reduceStatuses[r] = "COMPLETE")'
        BY ReducesComplete, PTL
      <4> QED
        BY <2>3, <4>1
    <3> QED
      BY <3>1 DEF CorrectInv, OutputsWhole
  <2> QED
    BY <2>2, <2>4 DEF CountInv, TypeOK
<1> QED
  BY <1>1, JobInvariant, PTL DEF Safe, OutputsFinal

-----------------------------------------------------------------------------
(* The job implements MRJob.                                                *)

\* Only RenameOutput writes an output, and it writes a whole one.
LEMMA OutputStep ==
    ASSUME CleanRetries, CountInv, CorrectInv, [Next]_vars
    PROVE  \/ out' = out
           \/ \E r \in ReduceTasks : out' = [out EXCEPT ![r] = Identity] /\ phase' = phase
<1>1. ASSUME NEW w \in Workers, RenameOutput(w)
      PROVE  \E r \in ReduceTasks : out' = [out EXCEPT ![r] = Identity] /\ phase' = phase
  <2>1. pc[w] = "reduce" /\ step[w] = NMap
    BY <1>1 DEF RenameOutput
  <2>2. \A k \in MapTasks : k < NMap /\ gathered[w][k] = k
    BY Sizes, <2>1 DEF CorrectInv, ReduceWorkersRead, MapTasks
  <2>3. gathered[w] = Identity /\ reply[w].ReduceTaskId \in ReduceTasks
    BY <2>2 DEF Identity, CountInv, TypeOK, Replies
  <2> QED
    BY <1>1, <2>3 DEF RenameOutput, Renamed, CleanRetries, coordVars
<1> QED
  BY <1>1
  DEF Next, WorkerStep, Terminated, GetMapTask, GetReduceTask, Wait, Receives,
      RenameIntermediate, MapFinished, ReadIntermediate, ReportTask, WorkerExits,
      WorkerCrashes, StartWorker, MapTimeout, ReduceTimeout, MainStep, vars, fileVars

\* The phase only moves forward, and to PhaseDone only by a report.
LEMMA DoneStep ==
    ASSUME CountInv, [Next]_vars
    PROVE  phase = "PhaseDone" => phase' = "PhaseDone"
<1> SUFFICES ASSUME phase = "PhaseDone" PROVE phase' = "PhaseDone"
  OBVIOUS
<1>1. ASSUME NEW w \in Workers, ReportTask(w) PROVE phase' = "PhaseDone"
  <2>1. reply[w].MapTaskId \in MapTasks
    BY DEF CountInv, TypeOK, Replies
  <2>2. mapStatuses[reply[w].MapTaskId] = "COMPLETE"
    BY <2>1, MapsComplete
  <2> QED
    BY <1>1, <2>2 DEF ReportTask, ReportMap, ReportReduce
<1> QED
  BY <1>1
  DEF Next, WorkerStep, Terminated, GetMapTask, GetReduceTask, Wait, RequestMapTask,
      RequestReduceTask, RequestNoTask, RenameIntermediate, MapFinished, ReadIntermediate,
      RenameOutput, WorkerExits, WorkerCrashes, StartWorker, MapTimeout, MapLeaseExpires,
      ReduceTimeout, ReduceLeaseExpires, MainStep, DonePolled, CoordinatorExits, vars, coordVars

LEMMA JobStep ==
    ASSUME CleanRetries, CountInv, CorrectInv, [Next]_vars, (CountInv /\ CorrectInv)'
    PROVE  [Job!Next]_<<jobResult, jobDone>>
<1>1. CASE out' = out /\ phase' = phase
  BY <1>1 DEF jobResult, jobDone
<1>2. CASE out' = out /\ phase' # phase
  <2>1. jobResult' = jobResult
    BY <1>2 DEF jobResult
  <2>2. CASE phase' # "PhaseDone"
    BY <2>1, <2>2, DoneStep DEF jobDone
  <2>3. CASE phase' = "PhaseDone"
    <3>1. (CountInv /\ phase = "PhaseDone"
            => \A r \in ReduceTasks : reduceStatuses[r] = "COMPLETE")'
      BY ReducesComplete, PTL
    <3>2. \A r \in ReduceTasks : out[r] = Identity
      BY <1>2, <2>3, <3>1 DEF CorrectInv, OutputsWhole
    <3>3. \A r \in ReduceTasks : jobResult[r] = Sequential
      BY <3>2, IdentityIsSequential DEF jobResult
    <3> QED
      BY <1>2, <2>1, <2>3, <3>3 DEF Job!Next, Job!Finish, jobDone
  <2> QED
    BY <2>2, <2>3
<1>3. ASSUME NEW r \in ReduceTasks, out' = [out EXCEPT ![r] = Identity], phase' = phase
      PROVE  [Job!Next]_<<jobResult, jobDone>>
  <2>1. out[r] \in {NoOutput, Identity} /\ out \in [ReduceTasks -> [MapTasks -> FilesOrNone] \union {NoOutput}]
    BY DEF CorrectInv, OutputsWhole, CountInv, TypeOK
  <2>2. CASE out[r] = Identity
    <3>1. out' = out
      BY <1>3, <2>1, <2>2
    <3> QED
      BY <1>3, <3>1 DEF jobResult, jobDone
  <2>3. CASE out[r] = NoOutput
    <3>1. jobResult[r] = NoOutput
      BY <2>3 DEF jobResult
    <3>2. \A q \in ReduceTasks : out'[q] = IF q = r THEN Identity ELSE out[q]
      BY <1>3, <2>1
    <3>3. jobResult' = [jobResult EXCEPT ![r] = Sequential]
      BY <3>2, IdentityIsSequential DEF jobResult
    <3>4. jobDone' = jobDone
      BY <1>3 DEF jobDone
    <3> QED
      BY <3>1, <3>3, <3>4 DEF Job!Next, Job!Publish
  <2> QED
    BY <2>1, <2>2, <2>3
<1> QED
  BY <1>1, <1>2, <1>3, OutputStep

\* Under the same conditions the job implements the safety part of MRJob:
\* outputs appear whole, once, and before the job is declared done.
THEOREM JobImplementsMRJob ==
    ASSUME CleanRetries
    PROVE  Safe => JobSafety
<1>1. Init => Job!Init
  BY DEF Init, CoordInit, Job!Init, jobResult, jobDone
<1>2. CountInv /\ CorrectInv /\ [Next]_vars /\ (CountInv /\ CorrectInv)'
        => [Job!Next]_<<jobResult, jobDone>>
  BY JobStep
<1> QED
  BY <1>1, <1>2, JobInvariant, PTL DEF Safe, JobSafety, Job!Safety, Job!jobVars

-----------------------------------------------------------------------------
(* A map task that never overruns is executed by one worker.                *)

HoldsMap(w, k) ==
    pc[w] \in {"map", "report"} /\ reply[w].TaskType = "map" /\ reply[w].MapTaskId = k

\* The task is in progress exactly while one worker has it.
OneHolder(k) ==
    /\ k \notin mapLate
    /\ mapStatuses[k] = "INPROGRESS" =>
         \E w \in Workers : HoldsMap(w, k) /\ \A v \in Workers : HoldsMap(v, k) => v = w
    /\ mapStatuses[k] # "INPROGRESS" => \A w \in Workers : ~HoldsMap(w, k)

OnceInv == \A k \in MapTasks : <<"map", k>> \notin Straggling => OneHolder(k)

LEMMA InitOnceInv == Init => OnceInv
  BY DEF Init, CoordInit, OnceInv, OneHolder, HoldsMap

\* A step that leaves the task's status and the worker's part in it alone.
LEMMA OneHolderKept ==
    ASSUME NEW k \in MapTasks, OneHolder(k), k \notin mapLate',
           mapStatuses'[k] = mapStatuses[k],
           \A v \in Workers : HoldsMap(v, k)' <=> HoldsMap(v, k)
    PROVE  OneHolder(k)'
  BY DEF OneHolder

LEMMA NextOnceInv ==
    ASSUME CleanRetries, CountInv, CountInv', CorrectInv, OnceInv, [Next]_vars
    PROVE  OnceInv'
<1> SUFFICES ASSUME NEW k \in MapTasks, <<"map", k>> \notin Straggling
             PROVE  OneHolder(k)'
  BY DEF OnceInv
<1>k. OneHolder(k) /\ k \notin mapLate
  BY DEF OnceInv, OneHolder
<1>s. /\ NMap \in Nat \ {0} /\ MapTasks = 0 .. NMap - 1 /\ 0 \in MapTasks
      /\ TypeOK /\ TypeOK'
      /\ \A w \in Workers : reply[w] \in Replies
      /\ \A w \in Workers : reply[w].MapTaskId \in MapTasks
  BY Sizes, ZeroIsATask DEF MapTasks, CountInv, TypeOK, Replies
<1>1. ASSUME NEW w \in Workers, GetMapTask(w) PROVE OneHolder(k)'
  <2> PICK i \in MapTasks : RequestMapTask(i) /\ Receives(w, MapReply(i), "map")
    BY <1>1 DEF GetMapTask
  <2>1. /\ reply' = [reply EXCEPT ![w] = Decoded(reply[w], MapReply(i))]
        /\ pc' = [pc EXCEPT ![w] = "map"] /\ pc[w] = "request"
    BY DEF Receives
  <2>2. /\ mapStatuses[i] = "IDLE" /\ (i # 0 => mapStatuses[0] # "IDLE")
        /\ mapStatuses' = HandOut(mapStatuses, mapLate, i)
        /\ mapLate' \subseteq mapLate
    BY <1>s DEF RequestMapTask, FirstIdle, TypeOK, CoordTypeOK
  <2>3. reply'[w].TaskType = "map" /\ reply'[w].MapTaskId = i
    <3>1. reply'[w] = Decoded(reply[w], MapReply(i)) /\ reply[w] \in Replies
      BY <1>s, <2>1 DEF TypeOK
    <3>2. MapReply(i) \in Replies /\ MapReply(i).TaskType = "map"
      BY RepliesType DEF MapReply, ZeroReply
    <3>3. reply'[w].TaskType = "map"
      BY <3>1, <3>2, DecodedType
    <3>4. /\ i # 0 => reply'[w].MapTaskId = i
          /\ i = 0 => reply'[w].MapTaskId = reply[w].MapTaskId
      BY <3>1, DecodedFields
    <3>5. i = 0 => reply[w].MapTaskId = 0
      BY <2>2 DEF CorrectInv, ZeroFirst
    <3> QED
      BY <3>3, <3>4, <3>5
  <2>4. \A v \in Workers : v # w => (HoldsMap(v, k)' <=> HoldsMap(v, k))
    BY <1>s, <2>1 DEF HoldsMap, TypeOK
  <2>5. ~HoldsMap(w, k) /\ (HoldsMap(w, k)' <=> k = i)
    BY <1>s, <2>1, <2>3 DEF HoldsMap, TypeOK
  <2>6. mapStatuses'[k] = IF k = i THEN "INPROGRESS" ELSE mapStatuses[k]
    BY <1>k, <1>s, <2>2 DEF HandOut, ScannedTo, TypeOK, CoordTypeOK
  <2>7. CASE k # i
    BY <1>k, <2>2, <2>4, <2>5, <2>6, <2>7, OneHolderKept
  <2>8. CASE k = i
    <3>1. \A v \in Workers : ~HoldsMap(v, k)
      BY <1>k, <2>2, <2>8 DEF OneHolder
    <3>2. HoldsMap(w, k)' /\ \A v \in Workers : HoldsMap(v, k)' => v = w
      BY <2>4, <2>5, <2>8, <3>1
    <3> QED
      BY <1>k, <2>2, <2>6, <2>8, <3>2 DEF OneHolder
  <2> QED
    BY <2>7, <2>8
<1>2. ASSUME NEW w \in Workers, GetReduceTask(w) PROVE OneHolder(k)'
  <2> PICK i \in ReduceTasks : RequestReduceTask(i) /\ Receives(w, ReduceReply(i), "reduce")
    BY <1>2 DEF GetReduceTask
  <2>1. /\ pc' = [pc EXCEPT ![w] = "reduce"] /\ pc[w] = "request"
        /\ reply' = [reply EXCEPT ![w] = Decoded(reply[w], ReduceReply(i))]
        /\ UNCHANGED <<mapStatuses, mapLate>>
    BY DEF Receives, RequestReduceTask, mapVars
  <2>2. \A v \in Workers : HoldsMap(v, k)' <=> HoldsMap(v, k)
    BY <1>s, <2>1 DEF HoldsMap, TypeOK
  <2> QED
    BY <1>k, <2>1, <2>2, OneHolderKept
<1>3. ASSUME NEW w \in Workers, Wait(w) PROVE OneHolder(k)'
  <2>0. RequestNoTask /\ Receives(w, WaitReply, "request")
    BY <1>3 DEF Wait
  <2>1. /\ pc' = [pc EXCEPT ![w] = "request"] /\ pc[w] = "request"
        /\ reply' = [reply EXCEPT ![w] = Decoded(reply[w], WaitReply)]
    BY <2>0 DEF Receives
  <2>2. \A v \in Workers : HoldsMap(v, k)' <=> HoldsMap(v, k)
    BY <1>s, <2>1 DEF HoldsMap, TypeOK
  <2>3. mapStatuses'[k] = mapStatuses[k] /\ mapLate' \subseteq mapLate
    BY <1>k, <1>s, <2>0 DEF RequestNoTask, ScannedTo, mapVars, TypeOK, CoordTypeOK
  <2> QED
    BY <1>k, <2>2, <2>3, OneHolderKept
<1>4. ASSUME NEW w \in Workers, ReportTask(w) PROVE OneHolder(k)'
  <2>1. /\ pc[w] = "report" /\ pc' = [pc EXCEPT ![w] = "request"]
        /\ reply' = reply
    BY <1>4 DEF ReportTask
  <2>2. \A v \in Workers : v # w => (HoldsMap(v, k)' <=> HoldsMap(v, k))
    BY <1>s, <2>1 DEF HoldsMap, TypeOK
  <2>3. ~HoldsMap(w, k)'
    BY <1>s, <2>1 DEF HoldsMap, TypeOK
  <2>4. CASE HoldsMap(w, k)
    <3>1. reply[w].MapTaskId = k /\ ReportMap(k)
      BY <1>4, <2>4 DEF ReportTask, HoldsMap
    <3>2. mapStatuses[k] = "INPROGRESS" /\ \A v \in Workers : HoldsMap(v, k) => v = w
      BY <1>k, <2>4 DEF OneHolder
    <3>3. mapStatuses'[k] = "COMPLETE" /\ mapLate' \subseteq mapLate
      BY <1>s, <3>1, <3>2 DEF ReportMap, TypeOK, CoordTypeOK
    <3>4. \A v \in Workers : ~HoldsMap(v, k)'
      BY <2>2, <2>3, <3>2
    <3> QED
      BY <1>k, <3>3, <3>4 DEF OneHolder
  <2>5. CASE ~HoldsMap(w, k)
    <3>1. CASE reply[w].TaskType = "map" /\ ReportMap(reply[w].MapTaskId)
      <4>1. reply[w].MapTaskId # k
        BY <2>1, <2>5, <3>1 DEF HoldsMap
      <4>2. mapStatuses'[k] = mapStatuses[k] /\ mapLate' \subseteq mapLate
        BY <1>s, <3>1, <4>1 DEF ReportMap, mapVars, TypeOK, CoordTypeOK
      <4> QED
        BY <1>k, <2>2, <2>3, <2>5, <4>2, OneHolderKept
    <3>2. CASE reply[w].TaskType = "reduce" /\ ReportReduce(reply[w].ReduceTaskId)
      <4>1. mapStatuses'[k] = mapStatuses[k] /\ mapLate' = mapLate
        BY <3>2 DEF ReportReduce, mapVars
      <4> QED
        BY <1>k, <2>2, <2>3, <2>5, <4>1, OneHolderKept
    <3> QED
      BY <1>4, <3>1, <3>2 DEF ReportTask
  <2> QED
    BY <2>4, <2>5
<1>5. ASSUME NEW w \in Workers, WorkerExits(w) PROVE OneHolder(k)'
  <2>1. /\ mainLoop = "exited" /\ pc' = [pc EXCEPT ![w] = "exited"]
        /\ UNCHANGED <<reply, mapStatuses, mapLate>>
    BY <1>5 DEF WorkerExits, Serving, coordVars, mapVars
  <2>2. mapStatuses[k] = "COMPLETE"
    <3>1. phase = "PhaseDone"
      BY <2>1 DEF CorrectInv, NobodyEndsEarly
    <3> QED
      BY <3>1, MapsComplete
  <2>3. \A v \in Workers : ~HoldsMap(v, k)
    BY <1>k, <2>2 DEF OneHolder
  <2>4. \A v \in Workers : ~HoldsMap(v, k)'
    BY <1>s, <2>1, <2>3 DEF HoldsMap, TypeOK
  <2> QED
    BY <1>k, <2>1, <2>3, <2>4, OneHolderKept
<1>6. ASSUME NEW w \in Workers, WorkerCrashes(w) PROVE OneHolder(k)'
  <2>1. /\ pc' = [pc EXCEPT ![w] = "crashed"] /\ Holding(w) \in Straggling
        /\ UNCHANGED <<reply, mapStatuses, mapLate>>
    BY <1>6 DEF WorkerCrashes, coordVars, mapVars
  <2>2. ~HoldsMap(w, k)
    <3>1. HoldsMap(w, k) => Holding(w) = <<"map", k>>
      BY DEF HoldsMap, Holding
    <3> QED
      BY <2>1, <3>1
  <2>3. \A v \in Workers : HoldsMap(v, k)' <=> HoldsMap(v, k)
    BY <1>s, <2>1, <2>2 DEF HoldsMap, TypeOK
  <2> QED
    BY <1>k, <2>1, <2>3, OneHolderKept
<1>7. ASSUME NEW w \in Workers, RenameIntermediate(w) \/ ReadIntermediate(w) PROVE OneHolder(k)'
  <2>1. UNCHANGED <<pc, reply, mapStatuses, mapLate>>
    BY <1>7 DEF RenameIntermediate, ReadIntermediate, coordVars, mapVars
  <2>2. \A v \in Workers : HoldsMap(v, k)' <=> HoldsMap(v, k)
    BY <2>1 DEF HoldsMap
  <2> QED
    BY <1>k, <2>1, <2>2, OneHolderKept
<1>8. ASSUME NEW w \in Workers, MapFinished(w) \/ RenameOutput(w) PROVE OneHolder(k)'
  <2>1. /\ pc' = [pc EXCEPT ![w] = "report"] /\ UNCHANGED <<reply, mapStatuses, mapLate>>
        /\ pc[w] \in {"map", "reduce"}
    BY <1>8 DEF MapFinished, RenameOutput, coordVars, mapVars
  <2>2. pc[w] = "reduce" => reply[w].TaskType = "reduce"
    BY DEF CountInv, BusyMatchesPhase
  <2>3. \A v \in Workers : HoldsMap(v, k)' <=> HoldsMap(v, k)
    BY <1>s, <2>1, <2>2 DEF HoldsMap, TypeOK
  <2> QED
    BY <1>k, <2>1, <2>3, OneHolderKept
<1>9. ASSUME NEW w \in Workers, StartWorker(w) PROVE OneHolder(k)'
  <2>1. /\ pc[w] = "crashed" /\ pc' = [pc EXCEPT ![w] = "request"]
        /\ reply' = [reply EXCEPT ![w] = ZeroReply] /\ UNCHANGED <<mapStatuses, mapLate>>
    BY <1>9 DEF StartWorker, coordVars, mapVars
  <2>2. \A v \in Workers : HoldsMap(v, k)' <=> HoldsMap(v, k)
    BY <1>s, <2>1 DEF HoldsMap, TypeOK
  <2> QED
    BY <1>k, <2>1, <2>2, OneHolderKept
<1>10. ASSUME NEW i \in MapTasks, MapTimeout(i) PROVE OneHolder(k)'
  <2>1. /\ <<"map", i>> \in Straggling /\ mapLate' = mapLate \union {i}
        /\ UNCHANGED <<pc, reply, mapStatuses>>
    BY <1>10 DEF MapTimeout, MapLeaseExpires, workerVars
  <2>2. k # i /\ \A v \in Workers : HoldsMap(v, k)' <=> HoldsMap(v, k)
    BY <2>1 DEF HoldsMap
  <2> QED
    BY <1>k, <2>1, <2>2, OneHolderKept
<1>11. CASE (\E i \in ReduceTasks : ReduceTimeout(i)) \/ MainStep \/ UNCHANGED vars
  <2>1. UNCHANGED <<pc, reply, mapStatuses, mapLate>>
    BY <1>11 DEF ReduceTimeout, ReduceLeaseExpires, MainStep, DonePolled, CoordinatorExits, vars,
                 coordVars, workerVars, mapVars
  <2>2. \A v \in Workers : HoldsMap(v, k)' <=> HoldsMap(v, k)
    BY <2>1 DEF HoldsMap
  <2> QED
    BY <1>k, <2>1, <2>2, OneHolderKept
<1> QED
  BY <1>1, <1>2, <1>3, <1>4, <1>5, <1>6, <1>7, <1>8, <1>9, <1>10, <1>11
  DEF Next, WorkerStep, Terminated

\* Unless map task 0 is retried or files cannot be renamed, a map task whose
\* executions neither crash nor overrun is held by one worker while it is in
\* progress and by none before and after: TestJobCount counts each map once.
THEOREM TasksExecutedOnce ==
    ASSUME CleanRetries
    PROVE  Safe => []ExecutedOnce
<1>1. Safe => []OnceInv
  <2>1. CountInv /\ CorrectInv /\ (CountInv /\ CorrectInv)' /\ OnceInv /\ [Next]_vars => OnceInv'
    BY NextOnceInv
  <2> QED
    BY <2>1, InitOnceInv, JobInvariant, PTL DEF Safe
<1>2. OnceInv => ExecutedOnce
  <2> SUFFICES ASSUME OnceInv, NEW k \in MapTasks, <<"map", k>> \notin Straggling
               PROVE  Cardinality({w \in Workers : pc[w] \in {"map", "report"}
                                                   /\ Holding(w) = <<"map", k>>})
                        = IF mapStatuses[k] = "INPROGRESS" THEN 1 ELSE 0
    BY DEF ExecutedOnce
  <2> DEFINE H == {w \in Workers : pc[w] \in {"map", "report"} /\ Holding(w) = <<"map", k>>}
  <2>1. \A w \in Workers : w \in H <=> HoldsMap(w, k)
    BY DEF Holding, HoldsMap
  <2>2. OneHolder(k)
    BY DEF OnceInv
  <2>3. CASE mapStatuses[k] = "INPROGRESS"
    <3>1. PICK w \in Workers : HoldsMap(w, k) /\ \A v \in Workers : HoldsMap(v, k) => v = w
      BY <2>2, <2>3 DEF OneHolder
    <3>2. H = {w}
      BY <2>1, <3>1
    <3> QED
      BY <2>3, <3>2, FS_Singleton
  <2>4. CASE mapStatuses[k] # "INPROGRESS"
    <3>1. H = {}
      BY <2>1, <2>2, <2>4 DEF OneHolder
    <3> QED
      BY <2>4, <3>1, FS_EmptySet
  <2> QED
    BY <2>3, <2>4
<1> QED
  BY <1>1, <1>2, PTL
=============================================================================
