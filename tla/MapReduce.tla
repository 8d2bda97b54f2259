------------------------------ MODULE MapReduce ------------------------------
(***************************************************************************)
(* The whole MapReduce job: the coordinator, the worker processes          *)
(* (mr/worker.go) and the directory of files they share.                   *)
(*                                                                         *)
(* Data is abstracted to provenance.  inter[k][r] is the input file whose  *)
(* pairs are in mr-k-r; out[r][i] is the input file whose pairs doReduce   *)
(* found in mr-i-r when it wrote mr-out-r.  Map and reduce functions are   *)
(* deterministic, so provenance determines contents.                       *)
(*                                                                         *)
(* A worker declares its TaskReply once, before its loop, and net/rpc      *)
(* decodes every answer of the coordinator into it.  gob does not send a   *)
(* field that has its zero value, so such a field keeps what an earlier    *)
(* answer left there: operator Decoded.                                    *)
(***************************************************************************)
EXTENDS MRCoordinator

CONSTANTS
    Workers,     \* the worker processes running side by side
    MaxCrashes,  \* bound: crashes in a behaviour
    SameDevice,  \* may a file in os.TempDir() be renamed into the work directory?
    NoOutput     \* mr-out-r does not exist

FilesOrNone == MapTasks \union {NoFile}

ASSUME WorkerAssumption ==
    /\ MaxCrashes \in Nat
    /\ SameDevice \in BOOLEAN
    /\ NoOutput \notin [MapTasks -> FilesOrNone]

VARIABLES
    pc,        \* where a worker is in its loop
    reply,     \* its one TaskReply
    step,      \* the loop index i of doMap or doReduce
    gathered,  \* doReduce: what the files read so far held
    inter,     \* the intermediate files mr-k-r
    out,       \* the output files mr-out-r
    crashes    \* crashes so far

workerVars == <<pc, reply, step, gathered>>
fileVars == <<inter, out>>
vars == <<coordVars, workerVars, fileVars, crashes>>

NothingRead == [k \in MapTasks |-> NoFile]
Replies == [TaskType : {"", "wait", "map", "reduce"}, Filename : FilesOrNone,
            MapTaskId : MapTasks, ReduceTaskId : ReduceTasks]

\* The types of the variables: files hold the pairs of known inputs only.
TypeOK ==
    /\ CoordTypeOK
    /\ pc \in [Workers -> {"request", "map", "reduce", "report", "exited", "crashed"}]
    /\ reply \in [Workers -> Replies]
    /\ step \in [Workers -> Nat]
    /\ gathered \in [Workers -> [MapTasks -> FilesOrNone]]
    /\ inter \in [MapTasks -> [ReduceTasks -> FilesOrNone]]
    /\ out \in [ReduceTasks -> [MapTasks -> FilesOrNone] \union {NoOutput}]
    /\ crashes \in 0 .. MaxCrashes

Init ==
    /\ CoordInit
    /\ pc = [w \in Workers |-> "request"]
    /\ reply = [w \in Workers |-> ZeroReply]
    /\ step = [w \in Workers |-> 0]
    /\ gathered = [w \in Workers |-> NothingRead]
    /\ inter = [k \in MapTasks |-> [r \in ReduceTasks |-> NoFile]]
    /\ out = [r \in ReduceTasks |-> NoOutput]
    /\ crashes = 0

\* What gob makes of an answer decoded into a reply that was used before.
Decoded(old, new) ==
    [TaskType     |-> new.TaskType,
     Filename     |-> IF new.Filename = NoFile THEN old.Filename ELSE new.Filename,
     MapTaskId    |-> IF new.MapTaskId = 0 THEN old.MapTaskId ELSE new.MapTaskId,
     ReduceTaskId |-> IF new.ReduceTaskId = 0 THEN old.ReduceTaskId ELSE new.ReduceTaskId]

\* What os.Rename, whose error is dropped, leaves under the final name.
Renamed(old, new) == IF SameDevice THEN new ELSE old

-----------------------------------------------------------------------------
(* The worker's loop.                                                       *)

Receives(w, answer, next) ==
    /\ pc[w] = "request"
    /\ reply' = [reply EXCEPT ![w] = Decoded(reply[w], answer)]
    /\ pc' = [pc EXCEPT ![w] = next]
    /\ UNCHANGED <<step, gathered, fileVars, crashes>>

GetMapTask(w) ==
    \E i \in MapTasks : RequestMapTask(i) /\ Receives(w, MapReply(i), "map")

GetReduceTask(w) ==
    \E i \in ReduceTasks : RequestReduceTask(i) /\ Receives(w, ReduceReply(i), "reduce")

\* "wait": sleep a second and ask again.
Wait(w) == RequestNoTask /\ Receives(w, WaitReply, "request")

\* doMap: one pass of the loop that renames the temporary files.  Reading
\* the input and filling the temporary files touches nothing another process
\* can see.
RenameIntermediate(w) ==
    LET k == reply[w].MapTaskId
    IN  /\ pc[w] = "map"
        /\ step[w] < NReduce
        /\ inter' = [inter EXCEPT ![k][step[w]] = Renamed(@, reply[w].Filename)]
        /\ step' = [step EXCEPT ![w] = @ + 1]
        /\ UNCHANGED <<coordVars, pc, reply, gathered, out, crashes>>
MapFinished(w) ==
    /\ pc[w] = "map"
    /\ step[w] = NReduce
    /\ pc' = [pc EXCEPT ![w] = "report"]
    /\ step' = [step EXCEPT ![w] = 0]
    /\ UNCHANGED <<coordVars, reply, gathered, fileVars, crashes>>

\* doReduce: one pass of the loop that reads mr-i-r, skipped if it is missing.
ReadIntermediate(w) ==
    LET r == reply[w].ReduceTaskId
    IN  /\ pc[w] = "reduce"
        /\ step[w] < NMap
        /\ gathered' = [gathered EXCEPT ![w][step[w]] = inter[step[w]][r]]
        /\ step' = [step EXCEPT ![w] = @ + 1]
        /\ UNCHANGED <<coordVars, pc, reply, fileVars, crashes>>

\* The rest of doReduce: sort, group, write the temporary file and rename it.
RenameOutput(w) ==
    LET r == reply[w].ReduceTaskId
    IN  /\ pc[w] = "reduce"
        /\ step[w] = NMap
        /\ out' = [out EXCEPT ![r] = Renamed(@, gathered[w])]
        /\ pc' = [pc EXCEPT ![w] = "report"]
        /\ step' = [step EXCEPT ![w] = 0]
        /\ gathered' = [gathered EXCEPT ![w] = NothingRead]
        /\ UNCHANGED <<coordVars, reply, inter, crashes>>

ReportTask(w) ==
    /\ pc[w] = "report"
    /\ \/ reply[w].TaskType = "map" /\ ReportMap(reply[w].MapTaskId)
       \/ reply[w].TaskType = "reduce" /\ ReportReduce(reply[w].ReduceTaskId)
    /\ pc' = [pc EXCEPT ![w] = "request"]
    /\ UNCHANGED <<reply, step, gathered, fileVars, crashes>>

\* call() cannot dial a coordinator that is gone: log.Fatal.
WorkerExits(w) ==
    /\ ~Serving
    /\ pc[w] \in {"request", "report"}
    /\ pc' = [pc EXCEPT ![w] = "exited"]
    /\ UNCHANGED <<coordVars, reply, step, gathered, fileVars, crashes>>

-----------------------------------------------------------------------------
(* Crashes (mrapps/crash.go) and the test harness, which starts another     *)
(* process in place of one that ended.                                      *)

Holding(w) ==
    <<reply[w].TaskType, IF reply[w].TaskType = "map" THEN reply[w].MapTaskId
                                                      ELSE reply[w].ReduceTaskId>>

WorkerCrashes(w) ==
    /\ crashes < MaxCrashes
    /\ pc[w] \in {"map", "reduce", "report"}
    /\ Holding(w) \in Straggling
    /\ pc' = [pc EXCEPT ![w] = "crashed"]
    /\ step' = [step EXCEPT ![w] = 0]
    /\ gathered' = [gathered EXCEPT ![w] = NothingRead]
    /\ crashes' = crashes + 1
    /\ UNCHANGED <<coordVars, reply, fileVars>>

StartWorker(w) ==
    /\ pc[w] = "crashed"
    /\ pc' = [pc EXCEPT ![w] = "request"]
    /\ reply' = [reply EXCEPT ![w] = ZeroReply]
    /\ UNCHANGED <<coordVars, step, gathered, fileVars, crashes>>

-----------------------------------------------------------------------------
WorkerStep(w) ==
    \/ GetMapTask(w) \/ GetReduceTask(w) \/ Wait(w)
    \/ RenameIntermediate(w) \/ MapFinished(w)
    \/ ReadIntermediate(w) \/ RenameOutput(w)
    \/ ReportTask(w) \/ WorkerExits(w) \/ StartWorker(w)

MapTimeout(i) == MapLeaseExpires(i) /\ UNCHANGED <<workerVars, fileVars, crashes>>

ReduceTimeout(i) == ReduceLeaseExpires(i) /\ UNCHANGED <<workerVars, fileVars, crashes>>

MainStep ==
    /\ DonePolled \/ CoordinatorExits
    /\ UNCHANGED <<workerVars, fileVars, crashes>>

\* Every process of a finished job has ended.
JobOver == ~Serving /\ \A w \in Workers : pc[w] = "exited"

Terminated == JobOver /\ UNCHANGED vars

Next ==
    \/ \E w \in Workers : WorkerStep(w) \/ WorkerCrashes(w)
    \/ \E i \in MapTasks : MapTimeout(i)
    \/ \E i \in ReduceTasks : ReduceTimeout(i)
    \/ MainStep
    \/ Terminated

\* Processes are scheduled, time passes, and a crashed worker is replaced.
Fairness ==
    /\ \A w \in Workers : WF_vars(WorkerStep(w))
    /\ \A i \in MapTasks : WF_vars(MapTimeout(i))
    /\ \A i \in ReduceTasks : WF_vars(ReduceTimeout(i))
    /\ WF_vars(MainStep)

Safe == Init /\ [][Next]_vars
Spec == Safe /\ Fairness

-----------------------------------------------------------------------------
(* Properties.                                                              *)

Completed(statuses) == {i \in DOMAIN statuses : statuses[i] = "COMPLETE"}

\* ReportTaskComplete counts each task once, however many workers report it,
\* and the phase says exactly which tasks are complete: no reduce task can be
\* requested before the last map task is complete.
CountersExact ==
    /\ mapsDone = Cardinality(Completed(mapStatuses))
    /\ reduceDone = Cardinality(Completed(reduceStatuses))
    /\ phase = "PhaseMap" <=> mapsDone < NMap
    /\ phase = "PhaseDone" <=> reduceDone = NReduce

\* A map task the coordinator takes for complete has left all its files, with
\* the pairs of its own input, whatever crashed and stale workers did or still do.
CompleteMapsPublished ==
    \A k \in MapTasks : mapStatuses[k] = "COMPLETE" =>
        \A r \in ReduceTasks : inter[k][r] = k

\* How often the pairs of each input file went into an output.
InputsOf(o) == [f \in MapTasks |-> Cardinality({i \in MapTasks : o[i] = f})]

\* The output mrsequential would have made: every input file, once.
Sequential == [f \in MapTasks |-> 1]

\* A job that is done has every output, each made from every input once
\* (TestCrashWorker compares the outputs with mrsequential's).
DoneMeansCorrect ==
    phase = "PhaseDone" => \A r \in ReduceTasks :
        out[r] # NoOutput /\ InputsOf(out[r]) = Sequential

\* A job that is done has an output file for every partition.
DoneMeansOutputs ==
    phase = "PhaseDone" => \A r \in ReduceTasks : out[r] # NoOutput

\* A task that neither crashes nor overruns is executed by one worker only,
\* and by nobody once it is complete (TestJobCount).
ExecutedOnce ==
    \A k \in MapTasks : <<"map", k>> \notin Straggling =>
        Cardinality({w \in Workers : pc[w] \in {"map", "report"} /\ Holding(w) = <<"map", k>>})
            = IF mapStatuses[k] = "INPROGRESS" THEN 1 ELSE 0

\* Once any process has ended of its own accord, the outputs are final
\* (TestEarlyExit), although stragglers may still be renaming files.
OutputsFinal ==
    [][(~Serving \/ \E w \in Workers : pc[w] = "exited") => out' = out]_vars

\* The job ends and takes every process with it.
EveryoneExits == <>JobOver

\* The refinement mapping to MRJob.
jobResult == [r \in ReduceTasks |-> IF out[r] = NoOutput THEN NoOutput ELSE InputsOf(out[r])]
jobDone == phase = "PhaseDone"

Job == INSTANCE MRJob WITH
    Partitions <- ReduceTasks,
    Absent     <- NoOutput,
    result     <- jobResult,
    done       <- jobDone

\* The safety part: outputs appear complete, never change, and come before the end.
JobSafety == Job!Safety
=============================================================================
