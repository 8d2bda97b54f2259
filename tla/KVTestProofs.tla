----------------------------- MODULE KVTestProofs -----------------------------
(***************************************************************************)
(* Theorems about KVTest and the annotations of its visualisation, for any  *)
(* number of clients, rounds and servers and whatever the clerks answer:    *)
(* histories that are not legal and checks that fail are included.          *)
(***************************************************************************)
EXTENDS KVTest, TLAPS

\* What the two invariants read, and what clients never touch.
watched == <<config, main, part, net, vis, round, fault, crashed, finalized, files, failed>>

\* Clients leave it alone.
LEMMA QuietSteps ==
    /\ \A c \in Clnts : ClntStep(c) => UNCHANGED watched
    /\ Ended /\ UNCHANGED vars => UNCHANGED watched
<1> USE DEF watched, control, faults, annVars, annotations, config
<1>1. \A c \in Clnts : TakeDone(c) \/ Begin(c) \/ OnePut(c) \/ OnePutReads(c) => UNCHANGED watched
  BY DEF TakeDone, Begin, OnePut, OnePutReads
<1>2. \A c \in Clnts : AppendGet(c) \/ AppendPut(c) \/ PutAtLeastOnce(c) \/ CheckGet(c)
                          => UNCHANGED watched
  BY DEF AppendGet, AppendPut, PutAtLeastOnce, CheckGet
<1>3. \A c \in Clnts : ClntStep(c) => UNCHANGED watched
  BY <1>1, <1>2 DEF ClntStep
<1> QED
  BY <1>3 DEF vars

-----------------------------------------------------------------------------
(* The fault that is shown.                                                 *)

Cut == [cut |-> TRUE, down |-> {}]
Down == [cut |-> FALSE, down |-> Srvs]

\* Where main is when the Partitioner has to be gone, and the network whole.
Repairing == {"connect", "connected", "kill", "killed", "restart", "restarted", "clear",
              "sizes", "next"}

\* The Partitioner is gone before servers are reconnected or restarted, so
\* that the two kinds of fault never overlap.
FaultsApart ==
    /\ net \in {"whole", "cut", "down"}
    /\ net = "down" <=> main \in {"killed", "restart"}
    /\ crashed = IF main \in {"restart", "restarted"} THEN Srvs ELSE {}
    /\ part # "off" => partitions /\ main \notin Repairing
    /\ net = "cut" => partitions /\ main \notin Repairing \ {"connect"}
    /\ part = "cut" => net = "cut"

\* Between an operation and its annotation the fault before it is still shown.
OneBehind ==
    /\ Annotated /\ main # "end" => fault = FaultOfNet
    /\ (part = "cut" /\ main # "end") \/ main = "connected" => fault \in {NoFault, Cut}
    /\ main = "killed" => fault = NoFault
    /\ main = "restarted" => fault = Down

FaultInv == FaultsApart /\ OneBehind

LEMMA FaultInvShows == FaultInv => FaultShown
<1> SUFFICES ASSUME FaultInv PROVE FaultShown
  OBVIOUS
<1>1. main = "history" => fault \in {NoFault, FaultOfNet}
  <2>1. CASE part = "cut"
    <3>1. net = "cut"
      BY <2>1 DEF FaultInv, FaultsApart
    <3>2. FaultOfNet = Cut
      BY <3>1 DEF FaultOfNet, Cut
    <3> QED
      BY <2>1, <3>2 DEF FaultInv, OneBehind
  <2>2. CASE part # "cut"
    BY <2>2 DEF FaultInv, OneBehind, Annotated
  <2> QED
    BY <2>1, <2>2
<1>2. main \in {"sizes", "next"} => net = "whole"
  BY DEF FaultInv, FaultsApart, Repairing
<1>3. Annotated /\ main # "end" => fault = FaultOfNet
  BY DEF FaultInv, OneBehind
<1> QED
  BY <1>1, <1>2, <1>3 DEF FaultShown

LEMMA InitFaultInv == Init => FaultInv
<1> SUFFICES ASSUME Init PROVE FaultInv
  OBVIOUS
<1>1. /\ net = "whole" /\ fault = NoFault /\ crashed = {} /\ part = "off"
      /\ main \in {"spawn", "first", "end"}
  BY DEF Init, AnnotateTest
<1>2. FaultsApart
  BY <1>1 DEF FaultsApart
<1>3. OneBehind
  BY <1>1 DEF OneBehind, FaultOfNet, NoFault
<1> QED
  BY <1>2, <1>3 DEF FaultInv

\* Main is in the middle of something, or through.
Busy == {"connected", "killed", "restart", "restarted", "clear", "end"}

\* A step that touches neither the servers nor the fault shown, and that takes
\* nobody in between an operation and its annotation.
LEMMA FaultsKept ==
    ASSUME FaultInv, UNCHANGED <<config, net, fault, crashed>>,
           main \notin Busy, main' \notin Busy,
           part' = "cut" <=> part = "cut",
           part' # "off" => partitions /\ main' \notin Repairing,
           net = "cut" => main' \notin Repairing \ {"connect"}
    PROVE  FaultInv'
<1> USE DEF Busy
<1>1. FaultsApart'
  BY DEF FaultInv, FaultsApart, config, partitions
<1>2. FaultOfNet' = FaultOfNet
  BY DEF FaultOfNet
<1>3. OneBehind'
  BY <1>2 DEF FaultInv, OneBehind, Annotated, NoFault, Cut
<1> QED
  BY <1>1, <1>3 DEF FaultInv

\* The Partitioner's own steps.
LEMMA PartitionerFaultInv ==
    ASSUME FaultInv, Partitioner
    PROVE  FaultInv'
<1>1. CASE StartPartitioner
  <2>1. /\ UNCHANGED <<config, net, fault, crashed, main>> /\ partitions
        /\ main \in {"spawn", "collect", "check", "history"} /\ part = "off" /\ part' = "select"
    BY <1>1 DEF StartPartitioner, faults, annVars, annotations
  <2> QED
    BY <2>1, FaultsKept DEF Busy, Repairing
<1>2. CASE Partition
  <2>1. /\ UNCHANGED <<config, fault, crashed, main>> /\ net' = "cut"
        /\ part = "select" /\ part' = "cut"
    BY <1>2 DEF Partition, annVars, annotations
  <2>2. partitions' = partitions /\ partitions /\ main \notin Repairing
    BY <2>1 DEF FaultInv, FaultsApart, config, partitions
  <2>3. FaultsApart'
    BY <2>1, <2>2 DEF FaultInv, FaultsApart, Repairing
  <2>4. main # "end" => fault \in {NoFault, Cut}
    <3>1. main # "end" => fault = FaultOfNet /\ net \in {"whole", "cut"}
      BY <2>1, <2>2 DEF FaultInv, FaultsApart, OneBehind, Annotated, Repairing
    <3> QED
      BY <3>1 DEF FaultOfNet, NoFault, Cut
  <2>5. OneBehind'
    BY <2>1, <2>2, <2>4 DEF OneBehind, Annotated, Repairing, NoFault, Cut
  <2> QED
    BY <2>3, <2>5 DEF FaultInv
<1>3. CASE AnnotatePartition
  <2>1. /\ UNCHANGED <<config, net, crashed, main>> /\ fault' = Cut
        /\ part = "cut" /\ part' = "select"
    BY <1>3 DEF AnnotatePartition, AnnotateTwoPartitions, annotateContinuousColor, Cut
  <2>2. net = "cut" /\ main \notin Repairing /\ partitions
    BY <2>1 DEF FaultInv, FaultsApart
  <2>3. FaultsApart'
    BY <2>1, <2>2 DEF FaultInv, FaultsApart, config, partitions
  <2>4. FaultOfNet' = Cut
    BY <2>1, <2>2 DEF FaultOfNet, Cut
  <2>5. OneBehind'
    BY <2>1, <2>2, <2>4 DEF OneBehind, Repairing
  <2> QED
    BY <2>3, <2>5 DEF FaultInv
<1> QED
  BY <1>1, <1>2, <1>3 DEF Partitioner

\* What main does to the servers, and its annotations.
LEMMA RepairFaultInv ==
    ASSUME FaultInv,
           \/ ConnectAll \/ AnnotateConnected \/ Shutdown \/ AnnotateShutdownAll
           \/ StartServers \/ AnnotateRestartAll \/ AnnotateRestarted
    PROVE  FaultInv'
<1> USE DEF Main, Operate, Annotate
<1>a. part' = part /\ partitions' = partitions /\ main \in Repairing /\ main' \in Repairing
  BY DEF ConnectAll, AnnotateConnected, Shutdown, AnnotateShutdownAll, StartServers,
         AnnotateRestartAll, AnnotateRestarted, config, partitions, Repairing
<1>b. part = "off" /\ part' = "off"
  BY <1>a DEF FaultInv, FaultsApart
<1>1. CASE ConnectAll
  <2>1. /\ main = "connect" /\ main' = "connected" /\ net' = "whole" /\ UNCHANGED <<fault, crashed>>
    BY <1>1 DEF ConnectAll, annVars, annotations
  <2>2. crashed = {} /\ net \in {"whole", "cut"} /\ fault = FaultOfNet
    BY <1>b, <2>1 DEF FaultInv, FaultsApart, OneBehind, Annotated
  <2>3. fault \in {NoFault, Cut}
    BY <2>2 DEF FaultOfNet, NoFault, Cut
  <2>4. FaultsApart'
    BY <1>b, <2>1, <2>2 DEF FaultsApart
  <2>5. OneBehind'
    BY <1>b, <2>1, <2>3 DEF OneBehind, Annotated, NoFault, Cut
  <2> QED
    BY <2>4, <2>5 DEF FaultInv
<1>2. CASE AnnotateConnected \/ AnnotateRestarted
  <2>1. /\ main \in {"connected", "clear"} /\ main' \in {"kill", "sizes"} /\ net' = net
        /\ fault' = NoFault /\ crashed' = {}
    BY <1>2 DEF AnnotateConnected, AnnotateRestarted, AnnotateClearFailure, annotateContinuousEnd
  <2>2. net = "whole"
    BY <2>1 DEF FaultInv, FaultsApart, Repairing
  <2>3. FaultsApart'
    BY <1>b, <2>1, <2>2 DEF FaultsApart
  <2>4. OneBehind'
    BY <1>b, <2>1, <2>2 DEF OneBehind, FaultOfNet, NoFault
  <2> QED
    BY <2>3, <2>4 DEF FaultInv
<1>3. CASE Shutdown
  <2>1. /\ main = "kill" /\ main' = "killed" /\ net' = "down" /\ UNCHANGED <<fault, crashed>>
    BY <1>3 DEF Shutdown, annVars, annotations
  <2>2. crashed = {} /\ net = "whole" /\ fault = FaultOfNet
    BY <1>b, <2>1 DEF FaultInv, FaultsApart, OneBehind, Annotated, Repairing
  <2>3. fault = NoFault
    BY <2>2 DEF FaultOfNet, NoFault
  <2>4. FaultsApart'
    BY <1>b, <2>1, <2>2 DEF FaultsApart
  <2>5. OneBehind'
    BY <1>b, <2>1, <2>3 DEF OneBehind, Annotated, NoFault
  <2> QED
    BY <2>4, <2>5 DEF FaultInv
<1>4. CASE AnnotateShutdownAll
  <2>1. /\ main = "killed" /\ main' = "restart" /\ net' = net
        /\ AnnotateCrashed(crashed \union Srvs)
    BY <1>4 DEF AnnotateShutdownAll, AnnotateShutdown
  <2>2. net = "down" /\ crashed = {} /\ fault = NoFault
    BY <2>1 DEF FaultInv, FaultsApart, OneBehind
  <2>3. crashed \union Srvs = Srvs
    BY <2>2
  <2>4. crashed' = Srvs /\ fault' = Down
    <3>1. CASE Srvs = {}
      BY <2>1, <2>2, <2>3, <3>1 DEF AnnotateCrashed, NoFault, Down
    <3>2. CASE Srvs # {}
      BY <2>1, <2>2, <2>3, <3>2 DEF AnnotateCrashed, annotateFault, annotateContinuousColor, Down
    <3> QED
      BY <3>1, <3>2
  <2>5. FaultsApart'
    BY <1>b, <2>1, <2>2, <2>4 DEF FaultsApart
  <2>6. FaultOfNet' = Down
    BY <2>1, <2>2 DEF FaultOfNet, Down
  <2>7. OneBehind'
    BY <1>b, <2>1, <2>4, <2>6 DEF OneBehind
  <2> QED
    BY <2>5, <2>7 DEF FaultInv
<1>5. CASE StartServers
  <2>1. /\ main = "restart" /\ main' = "restarted" /\ net' = "whole" /\ UNCHANGED <<fault, crashed>>
    BY <1>5 DEF StartServers, annVars, annotations
  <2>2. crashed = Srvs /\ net = "down" /\ fault = FaultOfNet
    BY <1>b, <2>1 DEF FaultInv, FaultsApart, OneBehind, Annotated
  <2>3. fault = Down
    BY <2>2 DEF FaultOfNet, Down
  <2>4. FaultsApart'
    BY <1>b, <2>1, <2>2 DEF FaultsApart
  <2>5. OneBehind'
    BY <1>b, <2>1, <2>3 DEF OneBehind, Annotated, Down
  <2> QED
    BY <2>4, <2>5 DEF FaultInv
<1>6. CASE AnnotateRestartAll
  <2>1. /\ main = "restarted" /\ main' = "clear" /\ net' = net
        /\ AnnotateCrashed(crashed \ Srvs)
    BY <1>6 DEF AnnotateRestartAll, AnnotateRestart
  <2>2. net = "whole" /\ crashed = Srvs /\ fault = Down
    BY <2>1 DEF FaultInv, FaultsApart, OneBehind, Repairing
  <2>3. crashed \ Srvs = {}
    BY <2>2
  <2>4. crashed' = {} /\ fault' = NoFault
    <3>1. CASE Srvs = {}
      BY <2>1, <2>2, <2>3, <3>1 DEF AnnotateCrashed, NoFault, Down
    <3>2. CASE Srvs # {}
      BY <2>1, <2>2, <2>3, <3>2 DEF AnnotateCrashed, annotateFault, annotateContinuousEnd
    <3> QED
      BY <3>1, <3>2
  <2>5. FaultsApart'
    BY <1>b, <2>1, <2>2, <2>4 DEF FaultsApart
  <2>6. OneBehind'
    BY <1>b, <2>1, <2>2, <2>4 DEF OneBehind, FaultOfNet, NoFault
  <2> QED
    BY <2>5, <2>6 DEF FaultInv
<1> QED
  BY <1>1, <1>2, <1>3, <1>4, <1>5, <1>6

LEMMA NextFaultInv ==
    ASSUME FaultInv, [Next]_vars
    PROVE  FaultInv'
<1> USE DEF Main, Busy
<1>1. CASE UNCHANGED watched
  <2>1. UNCHANGED <<config, net, fault, crashed, main, part>>
    BY <1>1 DEF watched
  <2>2. FaultsApart'
    BY <2>1 DEF FaultInv, FaultsApart, config, partitions
  <2>3. OneBehind'
    BY <2>1 DEF FaultInv, OneBehind, Annotated, FaultOfNet, NoFault, Cut, Down
  <2> QED
    BY <2>2, <2>3 DEF FaultInv
<1>2. CASE \/ PutAtLeastOnceJson \/ OfferDone \/ (\E c \in Clnts : Collect(c)) \/ Check \/ DeclareFinal
  <2>1. /\ UNCHANGED <<config, net, fault, crashed, part>>
        /\ main \in {"first", "spawn", "collect", "check", "history"}
        /\ main' \in {"first", "spawn", "collect", "check", "history", "hung", "cleanup"}
    BY <1>2
    DEF PutAtLeastOnceJson, OfferDone, Collect, Check, DeclareFinal, faults, annVars, annotations
  <2> QED
    BY <2>1, FaultsKept DEF FaultInv, FaultsApart, Repairing
<1>3. CASE checkPorcupine
  <2>1. /\ UNCHANGED <<config, net, fault, crashed, part>> /\ main = "history"
        /\ main' \in {"cleanup", AfterHistory}
    BY <1>3 DEF checkPorcupine, annotations
  <2> QED
    BY <2>1, FaultsKept DEF FaultInv, FaultsApart, AfterHistory, Repairing
<1>4. CASE StopPartitioner \/ PartitionerEnds
  <2>1. /\ UNCHANGED <<config, net, fault, crashed>> /\ main \in {"stop", "wait"}
        /\ \/ main' = "wait" /\ part = "select" /\ part' = "leave"
           \/ main' = "connect" /\ part = "leave" /\ part' = "off"
    BY <1>4 DEF StopPartitioner, PartitionerEnds, faults, annVars, annotations
  <2> QED
    BY <2>1, FaultsKept DEF FaultInv, FaultsApart, Repairing
<1>5. CASE CheckSizes \/ NextRound
  <2>1. /\ UNCHANGED <<config, net, fault, crashed, part>> /\ main \in {"sizes", "next"}
        /\ main' \in {"next", "cleanup", "spawn"}
    BY <1>5 DEF CheckSizes, NextRound, faults, annVars, annotations
  <2> QED
    BY <2>1, FaultsKept DEF FaultInv, FaultsApart, Repairing
<1>6. CASE Cleanup
  <2>1. UNCHANGED <<config, net, crashed, part>> /\ main = "cleanup" /\ main' = "end"
    BY <1>6 DEF Cleanup, cleanup, annVars, annotations
  <2>2. FaultsApart'
    BY <2>1 DEF FaultInv, FaultsApart, config, partitions, Repairing
  <2>3. OneBehind'
    BY <2>1 DEF OneBehind
  <2> QED
    BY <2>2, <2>3 DEF FaultInv
<1>7. UNCHANGED vars => UNCHANGED watched
  BY DEF vars, control, faults, annVars, annotations, watched
<1> QED
  BY <1>1, <1>2, <1>3, <1>4, <1>5, <1>6, <1>7, QuietSteps, PartitionerFaultInv, RepairFaultInv
  DEF Next, MainStep

\* The annotations are never more than one statement behind the servers, what
\* is drawn while the Partitioner runs is true or not yet there, and a round
\* ends with all servers up and connected, however goroutines are scheduled.
THEOREM FaultsAreShown == Spec => []FaultShown
  BY FaultInvShows, InitFaultInv, NextFaultInv, PTL DEF Spec

-----------------------------------------------------------------------------
(* The visualisation file.                                                  *)

\* VIS_ENABLE has been looked at.
Read == vis \in {"never", "unset", "always"}

\* Nothing has failed, and nothing is declared final or written.
Pristine == failed = "no" /\ vis = "unread" /\ ~finalized /\ files = 0

\* What checkPorcupine leaves when the last history was legal: only "put" has
\* declared its annotations final.
Drawn ==
    /\ Read /\ (finalized <=> test = "put")
    /\ files = IF test = "put" /\ vis = "always" THEN 1 ELSE 0

\* What a failed check has left for Cleanup.
GivenUp ==
    \/ failed = "check" /\ vis = "unread" /\ ~finalized /\ files = 0
    \/ failed = "history" /\ vis = "never" /\ files = 0
    \/ failed = "history" /\ vis \in {"unset", "always"} /\ finalized /\ files = 1
    \/ failed = "size" /\ test = "put" /\ LastRound /\ Drawn
    \/ failed = "size" /\ test = "put" /\ ~LastRound /\ vis = "unread" /\ ~finalized /\ files = 0

Early == {"first", "spawn", "collect", "check"}
Late == {"stop", "wait", "connect", "connected", "kill", "killed", "restart", "restarted", "clear",
         "sizes", "next"}

FileInv ==
    /\ setup # "none" => test = "put"
    /\ main \in Early => Pristine
    /\ main = "history" =>
         /\ failed = "no" /\ vis = "unread" /\ files = 0
         /\ finalized => test = "put" /\ LastRound
    /\ main \in Late => test = "put" /\ failed = "no" /\ IF LastRound THEN Drawn ELSE Pristine
    /\ main = "cleanup" => (failed = "no" /\ Drawn) \/ GivenUp
    /\ main = "hung" => files = 0
    /\ main \in Early \union Late \union {"history", "cleanup", "hung", "end"}
    /\ FileLeft

LEMMA InitFileInv == Init => FileInv
<1> SUFFICES ASSUME Init PROVE FileInv
  OBVIOUS
<1>1. /\ failed = "no" /\ vis = "unread" /\ ~finalized /\ files = 0
      /\ main \in {"spawn", "first", "end"} /\ (main = "end" => test = "alone")
      /\ setup # "none" => test = "put"
  BY DEF Init, AnnotateTest
<1> QED
  BY <1>1 DEF FileInv, FileLeft, Pristine, Early, Late

\* What FileInv reads.
fileVars == <<config, vis, round, finalized, files, failed>>

\* A step of main that changes none of it.
LEMMA FilesKept ==
    ASSUME FileInv, UNCHANGED fileVars,
           \/ main \in Early /\ main' \in Early
           \/ main \in Late /\ main' \in Late
           \/ main' = main
    PROVE  FileInv'
<1>1. /\ Pristine' <=> Pristine
      /\ Drawn' <=> Drawn
      /\ GivenUp' <=> GivenUp
      /\ LastRound' <=> LastRound
      /\ UNCHANGED <<setup, test, failed, vis, files, finalized>>
  BY DEF Pristine, Drawn, GivenUp, Read, LastRound, fileVars, config
<1>2. main' = main => (FileLeft' <=> FileLeft)
  BY <1>1 DEF FileLeft, FailureFile
<1>3. main' # "end" => FileLeft'
  BY <1>1 DEF FileLeft, FileInv
<1>4. FileLeft'
  BY <1>2, <1>3 DEF FileInv, Early, Late
<1> QED
  BY <1>1, <1>4 DEF FileInv, Early, Late

\* The history.
LEMMA HistoryFileInv ==
    ASSUME FileInv, checkPorcupine
    PROVE  FileInv'
<1> USE DEF Main
<1>1. /\ main = "history" /\ main' = IF legal THEN AfterHistory ELSE "cleanup"
      /\ UNCHANGED <<test, setup, round>> /\ (LastRound' <=> LastRound)
      /\ failed = "no" /\ vis = "unread" /\ files = 0
      /\ finalized <=> test = "put" /\ LastRound
      /\ setup # "none" => test = "put"
  BY DEF checkPorcupine, FileInv, LastRound, config
<1>2. legal => main' \in {"stop", "kill", "sizes", "cleanup"} /\ (main' = "cleanup" <=> test # "put")
  BY <1>1 DEF AfterHistory, partitions, crash
<1>3. CASE legal /\ ~LastRound
  <2>1. UNCHANGED <<vis, failed>> /\ ~finalized /\ test = "put"
    BY <1>1, <1>3 DEF checkPorcupine, LastRound
  <2>2. UNCHANGED <<finalized, files>>
    BY <1>3, <2>1 DEF checkPorcupine
  <2>3. Pristine'
    BY <1>1, <2>1, <2>2 DEF Pristine
  <2> QED
    BY <1>1, <1>2, <1>3, <2>1, <2>2, <2>3 DEF FileInv, FileLeft, Early, Late
<1>4. CASE legal /\ LastRound
  <2>1. Read' /\ failed' = "no" /\ (finalized <=> test = "put")
    BY <1>1, <1>4 DEF checkPorcupine, Getenv, Read
  <2>2. (finalized' <=> finalized) /\ files' = IF test = "put" /\ vis' = "always" THEN 1 ELSE 0
    BY <1>1, <1>4, <2>1 DEF checkPorcupine, Visualise
  <2>3. Drawn'
    BY <1>1, <2>1, <2>2 DEF Drawn
  <2> QED
    BY <1>1, <1>2, <1>4, <2>1, <2>2, <2>3 DEF FileInv, FileLeft, Early, Late
<1>5. CASE ~legal
  <2>1. Read' /\ failed' = "history" /\ main' = "cleanup"
    BY <1>1, <1>5 DEF checkPorcupine, Getenv, Read
  <2>2. CASE vis' = "never"
    <3>1. files' = 0
      BY <1>1, <1>5, <2>2 DEF checkPorcupine
    <3>2. GivenUp'
      BY <2>1, <2>2, <3>1 DEF GivenUp
    <3> QED
      BY <1>1, <2>1, <3>1, <3>2 DEF FileInv, FileLeft, Early, Late
  <2>3. CASE vis' # "never"
    <3>1. files' = 1 /\ finalized'
      BY <1>1, <1>5, <2>3 DEF checkPorcupine, Visualise
    <3>2. GivenUp'
      BY <2>1, <2>3, <3>1 DEF GivenUp, Read
    <3> QED
      BY <1>1, <2>1, <3>1, <3>2 DEF FileInv, FileLeft, Early, Late
  <2> QED
    BY <2>2, <2>3
<1> QED
  BY <1>3, <1>4, <1>5

\* The end.
LEMMA CleanupFileInv ==
    ASSUME FileInv, Cleanup
    PROVE  FileInv'
<1> USE DEF Main
<1>1. /\ main = "cleanup" /\ main' = "end"
      /\ UNCHANGED <<test, setup, round>> /\ (LastRound' <=> LastRound)
      /\ (failed = "no" /\ Drawn) \/ GivenUp
      /\ setup # "none" => test = "put"
  BY DEF Cleanup, FileInv, LastRound, config
<1>a. ASSUME FileLeft' PROVE FileInv'
  BY <1>1, <1>a DEF FileInv, Early, Late
<1>2. CASE failed = "no" /\ failed' = "time" /\ UNCHANGED <<vis, annVars>>
  <2>1. Drawn /\ UNCHANGED <<vis, files>>
    BY <1>1, <1>2 DEF GivenUp, annVars
  <2>2. FileLeft'
    BY <1>1, <1>2, <2>1 DEF FileLeft, FailureFile, Drawn, Read
  <2> QED
    BY <1>a, <2>2
<1>3. CASE Getenv /\ cleanup(failed # "no", vis') /\ UNCHANGED failed
  <2>1. Read' /\ (vis # "unread" => vis' = vis)
    BY <1>1, <1>3 DEF Getenv, Drawn, GivenUp, Read
  <2>2. files' = IF vis' = "never" \/ (failed = "no" /\ vis' # "always") \/ finalized
                 THEN files ELSE files + 1
    BY <1>3 DEF cleanup, clear, Visualise
  <2>3. CASE failed = "no" /\ Drawn
    <3>1. Read /\ vis' = vis
      BY <2>1, <2>3 DEF Drawn, Read
    <3>2. files' = IF vis = "always" THEN 1 ELSE 0
      BY <2>2, <2>3, <3>1 DEF Drawn, Read
    <3> QED
      BY <1>1, <1>3, <1>a, <2>3, <3>1, <3>2 DEF FileLeft, FailureFile, Read
  <2>4. CASE vis = "unread" /\ ~finalized /\ files = 0 /\ FailureFile /\ failed # "no"
    <3>1. files' = IF vis' = "never" THEN 0 ELSE 1
      BY <2>2, <2>4
    <3>2. FailureFile' /\ failed' # "time"
      BY <1>1, <1>3, <2>4 DEF FailureFile
    <3> QED
      BY <1>a, <2>1, <3>1, <3>2 DEF FileLeft, Read
  <2>5. CASE failed = "history" /\ vis # "unread" /\ Read
              /\ files = (IF vis = "never" THEN 0 ELSE 1) /\ (vis = "never" \/ finalized)
    <3>1. files' = files /\ vis' = vis
      BY <2>1, <2>2, <2>5
    <3> QED
      BY <1>1, <1>3, <1>a, <2>5, <3>1 DEF FileLeft, FailureFile, Read
  <2>6. CASE failed = "size" /\ test = "put" /\ LastRound /\ Drawn
    <3>1. files' = files /\ vis' = vis
      BY <2>1, <2>2, <2>6 DEF Drawn, Read
    <3> QED
      BY <1>1, <1>3, <1>a, <2>6, <3>1 DEF FileLeft, FailureFile, Drawn, Read
  <2> QED
    BY <1>1, <2>3, <2>4, <2>5, <2>6 DEF GivenUp, FailureFile, Read
<1> QED
  BY <1>2, <1>3 DEF Cleanup

LEMMA NextFileInv ==
    ASSUME FileInv, [Next]_vars
    PROVE  FileInv'
<1> USE DEF Main
<1>1. CASE UNCHANGED watched \/ Partitioner
  <2>1. UNCHANGED fileVars /\ main' = main
    BY <1>1
    DEF watched, Partitioner, StartPartitioner, Partition, AnnotatePartition, faults, annVars, fileVars
  <2> QED
    BY <2>1, FilesKept
<1>2. CASE PutAtLeastOnceJson \/ OfferDone \/ \E c \in Clnts : Collect(c)
  <2>1. UNCHANGED fileVars /\ main \in Early /\ main' \in Early
    BY <1>2 DEF PutAtLeastOnceJson, OfferDone, Collect, faults, annVars, fileVars, Early
  <2> QED
    BY <2>1, FilesKept
<1>3. CASE \/ StopPartitioner \/ PartitionerEnds \/ ConnectAll \/ AnnotateConnected \/ Shutdown
           \/ AnnotateShutdownAll \/ StartServers \/ AnnotateRestartAll \/ AnnotateRestarted
  <2>1. UNCHANGED fileVars /\ main \in Late /\ main' \in Late
    BY <1>3
    DEF StopPartitioner, PartitionerEnds, ConnectAll, AnnotateConnected, Shutdown,
        AnnotateShutdownAll, StartServers, AnnotateRestartAll, AnnotateRestarted, Operate, Annotate,
        faults, annVars, fileVars, Late
  <2> QED
    BY <2>1, FilesKept
<1>4. CASE Check
  <2>1. PICK ok \in BOOLEAN :
          /\ main = "check"
          /\ main' = IF ok THEN "history" ELSE IF test = "put" THEN "hung" ELSE "cleanup"
          /\ failed' = IF ok THEN failed ELSE "check"
    BY <1>4 DEF Check
  <2>2. /\ UNCHANGED <<test, setup, vis, finalized, files>> /\ Pristine
        /\ setup # "none" => test = "put"
    BY <1>4, <2>1 DEF Check, faults, annVars, config, FileInv, Early
  <2>3. CASE ok
    BY <2>1, <2>2, <2>3 DEF FileInv, FileLeft, Pristine, Early, Late
  <2>4. CASE ~ok
    <3>1. failed' = "check" /\ vis' = "unread" /\ ~finalized' /\ files' = 0 /\ main' \in {"hung", "cleanup"}
      BY <2>1, <2>2, <2>4 DEF Pristine
    <3> QED
      BY <2>2, <3>1 DEF FileInv, FileLeft, GivenUp, Early, Late
  <2> QED
    BY <2>3, <2>4
<1>5. CASE DeclareFinal
  <2>1. /\ UNCHANGED <<test, setup, vis, files, failed>> /\ main = "history" /\ main' = "history"
        /\ test = "put" /\ LastRound /\ LastRound'
    BY <1>5 DEF DeclareFinal, SetAnnotationFinalized, LastRound, config
  <2>2. failed = "no" /\ vis = "unread" /\ files = 0
    BY <2>1 DEF FileInv
  <2> QED
    BY <2>1, <2>2 DEF FileInv, FileLeft, Early, Late
<1>6. CASE CheckSizes
  <2>1. /\ UNCHANGED <<test, setup, round, vis, finalized, files>> /\ (LastRound' <=> LastRound)
        /\ main = "sizes"
        /\ \/ main' = "next" /\ failed' = failed
           \/ main' = "cleanup" /\ failed' = "size"
    BY <1>6 DEF CheckSizes, faults, annVars, config, LastRound
  <2>2. /\ test = "put" /\ failed = "no" /\ files \in {0, 1}
        /\ IF LastRound THEN Drawn ELSE Pristine
    BY <2>1 DEF FileInv, Late, Drawn, Pristine
  <2>3. (Drawn' <=> Drawn) /\ (LastRound => Drawn')
    BY <2>1, <2>2 DEF Drawn, Read
  <2>4. CASE main' = "next" /\ failed' = failed
    <3>1. Pristine' <=> Pristine
      BY <2>1, <2>4 DEF Pristine
    <3> QED
      BY <2>1, <2>2, <2>3, <2>4, <3>1 DEF FileInv, FileLeft, Early, Late
  <2>5. CASE main' = "cleanup" /\ failed' = "size"
    <3>1. GivenUp'
      BY <2>1, <2>2, <2>3, <2>5 DEF GivenUp, Pristine
    <3> QED
      BY <2>1, <2>2, <2>5, <3>1 DEF FileInv, FileLeft, Early, Late
  <2> QED
    BY <2>1, <2>4, <2>5
<1>7. CASE NextRound
  <2>1. /\ main = "next" /\ UNCHANGED <<test, setup, vis, finalized, files, failed>>
        /\ IF LastRound THEN main' = "cleanup" ELSE main' = "spawn"
    BY <1>7 DEF NextRound, faults, annVars, config
  <2>2. /\ Pristine' <=> Pristine
        /\ Drawn' <=> Drawn
        /\ test = "put" /\ failed = "no" /\ files \in {0, 1}
        /\ IF LastRound THEN Drawn ELSE Pristine
    BY <2>1 DEF FileInv, Pristine, Drawn, Read, Late
  <2> QED
    BY <2>1, <2>2 DEF FileInv, FileLeft, Early, Late
<1>8. UNCHANGED vars => UNCHANGED watched
  BY DEF vars, control, faults, annVars, annotations, watched
<1> QED
  BY <1>1, <1>2, <1>3, <1>4, <1>5, <1>6, <1>7, <1>8, QuietSteps, HistoryFileInv, CleanupFileInv
  DEF Next, MainStep

\* checkPorcupine and Config.Cleanup never both write a file, and the end of a
\* test has left one exactly when FileLeft says so: whichever check has failed,
\* of the counts, the history, the sizes or the time, and in whichever round.
THEOREM FilesAreLeft == Spec => []FileLeft
<1>1. FileInv => FileLeft
  BY DEF FileInv
<1> QED
  BY <1>1, InitFileInv, NextFileInv, PTL DEF Spec
=============================================================================
