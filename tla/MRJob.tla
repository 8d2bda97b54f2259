------------------------------- MODULE MRJob -------------------------------
(***************************************************************************)
(* What a MapReduce job promises, whoever executes it: each reduce         *)
(* partition's output appears at once, is the output the sequential        *)
(* program main/mrsequential.go would have produced, never changes again,  *)
(* and the job is declared done only when every partition has its output.  *)
(***************************************************************************)
CONSTANTS
    Partitions,  \* the reduce partitions
    Sequential,  \* the input files the sequential program feeds a partition
    Absent       \* no output file yet

VARIABLES
    result,      \* the output file of every partition
    done         \* the coordinator says so

jobVars == <<result, done>>

Init ==
    /\ result = [r \in Partitions |-> Absent]
    /\ done = FALSE

Publish(r) ==
    /\ result[r] = Absent
    /\ result' = [result EXCEPT ![r] = Sequential]
    /\ UNCHANGED done

Finish ==
    /\ ~done
    /\ \A r \in Partitions : result[r] = Sequential
    /\ done' = TRUE
    /\ UNCHANGED result

Next == (\E r \in Partitions : Publish(r)) \/ Finish

Safety == Init /\ [][Next]_jobVars
=============================================================================
