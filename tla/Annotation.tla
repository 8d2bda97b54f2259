----------------------------- MODULE Annotation -----------------------------
(***************************************************************************)
(* The annotations a test leaves for the visualisation (tester1/            *)
(* annotation.go): the fault that is being shown, the servers believed      *)
(* crashed, and whether the visualisation is already taken care of.  Of the *)
(* finished annotations only the ones that should not exist are kept.       *)
(* Every operation runs under the module's mutexes.                         *)
(***************************************************************************)
EXTENDS Naturals

CONSTANT Srvs   \* the servers

VARIABLES
    fault,      \* annotation.continuous[TAG_PARTITION]
    crashed,    \* finfo.crashed
    finalized,  \* annotation.finalized
    stray,      \* an annotation was ended that had never begun
    files       \* visualisation files written

annotations == <<fault, crashed, stray>>
annVars == <<annotations, finalized, files>>

\* A fault is two partitions or servers that are down; without either nothing
\* is shown.
Faults == [cut : BOOLEAN, down : SUBSET Srvs]
NoFault == [cut |-> FALSE, down |-> {}]

AnnTypeOK ==
    /\ fault \in Faults /\ crashed \subseteq Srvs
    /\ stray \in BOOLEAN /\ finalized \in BOOLEAN /\ files \in 0 .. 2

\* AnnotateTest: the annotations of the test before are dropped.
AnnotateTest ==
    /\ fault = NoFault /\ crashed = {} /\ stray = FALSE
    /\ finalized = FALSE /\ files = 0

\* A fault that was being shown is concretised, and the new one begins.
annotateContinuousColor(f) == fault' = f /\ UNCHANGED stray

\* Without a fault to end the code goes on all the same, with a zero start.
annotateContinuousEnd ==
    /\ fault' = NoFault
    /\ stray' = (stray \/ fault = NoFault)

AnnotateTwoPartitions ==
    annotateContinuousColor([cut |-> TRUE, down |-> {}]) /\ UNCHANGED crashed

AnnotateClearFailure == crashed' = {} /\ annotateContinuousEnd

annotateFault(down) ==
    IF down = {} THEN annotateContinuousEnd
                 ELSE annotateContinuousColor([cut |-> FALSE, down |-> down])

\* Only a change of the crashed servers is annotated.
AnnotateCrashed(down) ==
    /\ crashed' = down
    /\ IF crashed = down THEN UNCHANGED <<fault, stray>> ELSE annotateFault(down)

AnnotateShutdown(S) == AnnotateCrashed(crashed \union S)
AnnotateRestart(S) == AnnotateCrashed(crashed \ S)

SetAnnotationFinalized == finalized' = TRUE /\ UNCHANGED files

\* FinalizeAnnotations, and the file: it shows the finished annotations and the
\* fault of this moment.  It is assumed that the file can be opened.
Visualise == finalized' = TRUE /\ files' = files + 1

\* The next test starts with nothing.
clear == fault' = NoFault /\ stray' = FALSE /\ finalized' = FALSE

\* Mutant: cleanup does not ask whether a file has been written.
cleanupAgain(isFailed, enabled) ==
    /\ IF enabled = "never" \/ (~isFailed /\ enabled # "always")
       THEN clear /\ UNCHANGED files
       ELSE Visualise /\ UNCHANGED <<fault, stray>>
    /\ UNCHANGED crashed

\* At the end of a test.
cleanup(isFailed, enabled) ==
    /\ IF enabled = "never" \/ (~isFailed /\ enabled # "always") \/ finalized
       THEN clear /\ UNCHANGED files
       ELSE Visualise /\ UNCHANGED <<fault, stray>>
    /\ UNCHANGED crashed
=============================================================================
