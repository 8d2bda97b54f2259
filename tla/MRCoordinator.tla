---------------------------- MODULE MRCoordinator ----------------------------
(***************************************************************************)
(* The coordinator of the MapReduce lab (mr/coordinator.go and the main    *)
(* loop of main/mrcoordinator.go).                                         *)
(*                                                                         *)
(* Every RPC handler runs under c.mu, so a handler is one action.  The     *)
(* time stamps mapTimes / reduceTimes are abstracted to the only thing the *)
(* handlers ask of them: the set of tasks in progress that were handed out *)
(* more than ten seconds ago (mapLate, reduceLate).  Time passing is the   *)
(* action LeaseExpires.                                                    *)
(*                                                                         *)
(* Tasks are numbered from 0, as in the code: that the number 0 is the     *)
(* zero value of a Go int matters to the workers (see MapReduce).          *)
(***************************************************************************)
EXTENDS Integers, FiniteSets

CONSTANTS
    NMap,       \* len(c.files)
    NReduce,    \* c.nReduce
    Straggling  \* the <<kind, id>> whose executions may overrun or crash

MapTasks == 0 .. NMap - 1
ReduceTasks == 0 .. NReduce - 1

\* main() refuses to start without an input file, and asks for 10 reducers.
ASSUME CoordAssumption ==
    /\ NMap \in Nat \ {0}
    /\ NReduce \in Nat \ {0}
    /\ Straggling \subseteq ({"map"} \X MapTasks) \union ({"reduce"} \X ReduceTasks)

VARIABLES
    phase,           \* c.phase
    mapStatuses,     \* c.mapStatuses
    mapLate,         \* tasks whose c.mapTimes entry is over 10 s old
    mapsDone,        \* c.mapsDone
    reduceStatuses,  \* c.reduceStatuses
    reduceLate,      \* tasks whose c.reduceTimes entry is over 10 s old
    reduceDone,      \* c.reduceDone
    mainLoop         \* main(): polling Done(), the last sleep, gone

mapVars == <<mapStatuses, mapLate, mapsDone>>
reduceVars == <<reduceStatuses, reduceLate, reduceDone>>
coordVars == <<phase, mapVars, reduceVars, mainLoop>>

Phases == {"PhaseMap", "PhaseReduce", "PhaseDone"}
Statuses == {"IDLE", "INPROGRESS", "COMPLETE"}

\* TaskReply as the handler fills it; NoFile is the empty string.
NoFile == -1
ZeroReply == [TaskType |-> "", Filename |-> NoFile, MapTaskId |-> 0, ReduceTaskId |-> 0]
WaitReply == [ZeroReply EXCEPT !.TaskType = "wait"]
MapReply(i) == [ZeroReply EXCEPT !.TaskType = "map", !.Filename = i, !.MapTaskId = i]
ReduceReply(i) == [ZeroReply EXCEPT !.TaskType = "reduce", !.ReduceTaskId = i]

CoordTypeOK ==
    /\ phase \in Phases
    /\ mapStatuses \in [MapTasks -> Statuses]
    /\ mapLate \in SUBSET MapTasks
    /\ mapsDone \in 0 .. NMap
    /\ reduceStatuses \in [ReduceTasks -> Statuses]
    /\ reduceLate \in SUBSET ReduceTasks
    /\ reduceDone \in 0 .. NReduce
    /\ mainLoop \in {"polling", "lastSleep", "exited"}

\* MakeCoordinator: make([]int, n) fills the slices with STATUS_IDLE.
CoordInit ==
    /\ phase = "PhaseMap"
    /\ mapStatuses = [i \in MapTasks |-> "IDLE"]
    /\ mapLate = {}
    /\ mapsDone = 0
    /\ reduceStatuses = [i \in ReduceTasks |-> "IDLE"]
    /\ reduceLate = {}
    /\ reduceDone = 0
    /\ mainLoop = "polling"

Serving == mainLoop # "exited"

-----------------------------------------------------------------------------
(* RequestTask.  One scan of the statuses in index order: it stops at the   *)
(* first IDLE task; the overdue tasks it passed on the way are IDLE again,  *)
(* but are handed out only by a later request.                              *)

FirstIdle(statuses, i) ==
    /\ statuses[i] = "IDLE"
    /\ \A j \in DOMAIN statuses : j < i => statuses[j] # "IDLE"

NoneIdle(statuses) == \A i \in DOMAIN statuses : statuses[i] # "IDLE"
\* Mutant: an overdue task stays in progress.
ScannedWithoutReset(statuses, late, n) == statuses

ScannedTo(statuses, late, n) ==
    [i \in DOMAIN statuses |-> IF i < n /\ i \in late THEN "IDLE" ELSE statuses[i]]
\* Mutant: the task is not marked as being in progress.
HandOutUnmarked(statuses, late, n) == ScannedTo(statuses, late, n)

HandOut(statuses, late, n) == [ScannedTo(statuses, late, n) EXCEPT ![n] = "INPROGRESS"]

RequestMapTask(i) ==
    /\ Serving
    /\ phase = "PhaseMap"
    /\ FirstIdle(mapStatuses, i)
    /\ mapStatuses' = HandOut(mapStatuses, mapLate, i)
    /\ mapLate' = {j \in mapLate : j > i}
    /\ UNCHANGED <<phase, mapsDone, reduceVars, mainLoop>>

RequestReduceTask(i) ==
    /\ Serving
    /\ phase = "PhaseReduce"
    /\ FirstIdle(reduceStatuses, i)
    /\ reduceStatuses' = HandOut(reduceStatuses, reduceLate, i)
    /\ reduceLate' = {j \in reduceLate : j > i}
    /\ UNCHANGED <<phase, reduceDone, mapVars, mainLoop>>

RequestNoTask ==
    /\ Serving
    /\ \/ /\ phase = "PhaseMap"
          /\ NoneIdle(mapStatuses)
          /\ mapStatuses' = ScannedTo(mapStatuses, mapLate, NMap)
          /\ mapLate' = {}
          /\ UNCHANGED reduceVars
       \/ /\ phase = "PhaseReduce"
          /\ NoneIdle(reduceStatuses)
          /\ reduceStatuses' = ScannedTo(reduceStatuses, reduceLate, NReduce)
          /\ reduceLate' = {}
          /\ UNCHANGED mapVars
       \/ /\ phase = "PhaseDone"
          /\ UNCHANGED <<mapVars, reduceVars>>
    /\ UNCHANGED <<phase, mapsDone, reduceDone, mainLoop>>

-----------------------------------------------------------------------------
(* ReportTaskComplete.  Only the first report of a task counts.             *)
\* Mutant: a task that is reported again is counted again.
ReportMapEachTime(i) ==
    /\ Serving
    /\ mapStatuses' = [mapStatuses EXCEPT ![i] = "COMPLETE"]
    /\ mapLate' = mapLate \ {i}
    /\ mapsDone' = mapsDone + 1
    /\ phase' = IF mapsDone' = NMap THEN "PhaseReduce" ELSE phase
    /\ UNCHANGED <<reduceVars, mainLoop>>

\* Mutant: the reduce phase starts one map task too early.
ReportMapOneShort(i) ==
    /\ Serving
    /\ IF mapStatuses[i] = "COMPLETE"
       THEN UNCHANGED <<phase, mapVars>>
       ELSE /\ mapStatuses' = [mapStatuses EXCEPT ![i] = "COMPLETE"]
            /\ mapLate' = mapLate \ {i}
            /\ mapsDone' = mapsDone + 1
            /\ phase' = IF mapsDone' >= NMap - 1 /\ phase = "PhaseMap" THEN "PhaseReduce" ELSE phase
    /\ UNCHANGED <<reduceVars, mainLoop>>

ReportMap(i) ==
    /\ Serving
    /\ IF mapStatuses[i] = "COMPLETE"
       THEN UNCHANGED <<phase, mapVars>>
       ELSE /\ mapStatuses' = [mapStatuses EXCEPT ![i] = "COMPLETE"]
            /\ mapLate' = mapLate \ {i}
            /\ mapsDone' = mapsDone + 1
            /\ phase' = IF mapsDone' = NMap THEN "PhaseReduce" ELSE phase
    /\ UNCHANGED <<reduceVars, mainLoop>>
\* Mutant: the job is done one reduce task too early.
ReportReduceOneShort(i) ==
    /\ Serving
    /\ IF reduceStatuses[i] = "COMPLETE"
       THEN UNCHANGED <<phase, reduceVars>>
       ELSE /\ reduceStatuses' = [reduceStatuses EXCEPT ![i] = "COMPLETE"]
            /\ reduceLate' = reduceLate \ {i}
            /\ reduceDone' = reduceDone + 1
            /\ phase' = IF reduceDone' >= NReduce - 1 THEN "PhaseDone" ELSE phase
    /\ UNCHANGED <<mapVars, mainLoop>>

ReportReduce(i) ==
    /\ Serving
    /\ IF reduceStatuses[i] = "COMPLETE"
       THEN UNCHANGED <<phase, reduceVars>>
       ELSE /\ reduceStatuses' = [reduceStatuses EXCEPT ![i] = "COMPLETE"]
            /\ reduceLate' = reduceLate \ {i}
            /\ reduceDone' = reduceDone + 1
            /\ phase' = IF reduceDone' = NReduce THEN "PhaseDone" ELSE phase
    /\ UNCHANGED <<mapVars, mainLoop>>

-----------------------------------------------------------------------------
(* Time, and main().                                                        *)

\* Ten seconds have passed since a task was handed out.
MapLeaseExpires(i) ==
    /\ <<"map", i>> \in Straggling
    /\ mapStatuses[i] = "INPROGRESS"
    /\ i \notin mapLate
    /\ mapLate' = mapLate \union {i}
    /\ UNCHANGED <<phase, mapStatuses, mapsDone, reduceVars, mainLoop>>

ReduceLeaseExpires(i) ==
    /\ <<"reduce", i>> \in Straggling
    /\ reduceStatuses[i] = "INPROGRESS"
    /\ i \notin reduceLate
    /\ reduceLate' = reduceLate \union {i}
    /\ UNCHANGED <<phase, reduceStatuses, reduceDone, mapVars, mainLoop>>
\* Mutant: main() leaves its loop once the map phase is over.
DonePolledTooSoon ==
    /\ mainLoop = "polling"
    /\ phase # "PhaseMap"
    /\ mainLoop' = "lastSleep"
    /\ UNCHANGED <<phase, mapVars, reduceVars>>

\* main() polls Done() once a second, sleeps once more and returns.
DonePolled ==
    /\ mainLoop = "polling"
    /\ phase = "PhaseDone"
    /\ mainLoop' = "lastSleep"
    /\ UNCHANGED <<phase, mapVars, reduceVars>>

CoordinatorExits ==
    /\ mainLoop = "lastSleep"
    /\ mainLoop' = "exited"
    /\ UNCHANGED <<phase, mapVars, reduceVars>>
=============================================================================
