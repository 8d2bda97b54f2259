------------------------------- MODULE KVTest -------------------------------
(***************************************************************************)
(* The library the key/value tests are written with (kvtest1): clients that *)
(* race until the test's goroutine tells them to stop, their results, the   *)
(* checks on these results, and the history given to the linearizability    *)
(* checker, with the annotations of its visualisation.  Clerks are atomic   *)
(* here: KVClerk shows that Get and Put take effect at one point, and what  *)
(* Put may answer.                                                          *)
(*                                                                         *)
(* Three programs are run: "put" (GenericTest of kvraft: OneClientPut in    *)
(* several rounds, with the Partitioner beside it or a restart of all       *)
(* servers after each), and two that are put together here from parts of    *)
(* the library: "append" (OneClientAppend, which no test calls), and        *)
(* "alone", in which each client uses PutAtLeastOnce and CheckGet on a key  *)
(* of its own.                                                              *)
(***************************************************************************)
EXTENDS FiniteSets, SequencesExt, Annotation

CONSTANTS
    NClnt,     \* nclnt of SpawnClientsAndWait
    Rounds,    \* NITER: how often "put" spawns its clients
    MaxIter,   \* bound: iterations a client begins in a round
    MaxMaybe,  \* bound: how often one client, or the test, is answered ErrMaybe
    Setups,    \* the faults of "put": "none", "partitions", "crash" or "both"
    Shared,    \* the key "k"
    Empty      \* the zero Value

ASSUME KVTestAssumption ==
    /\ NClnt \in Nat \ {0} /\ Rounds \in Nat \ {0}
    /\ MaxIter \in Nat \ {0} /\ MaxMaybe \in Nat
    /\ Setups \subseteq {"none", "partitions", "crash", "both"}

VARIABLES
    test, reliable, setup,  \* the program, the network, the faults
    data,   \* the server's map
    model,  \* the state of the sequential model after the recorded operations
    legal,  \* the model has accepted all of them
    pc, i, ver, err, es,  \* a client: where it is, iteration, version, last error, list read
    res,    \* its ClntRes
    main,   \* where the test's goroutine is
    offer,  \* it is blocked in done <- struct{}{}
    sent, tries, round, total,  \* tokens taken, retries of the first Put, round, ClntRes so far
    part,   \* where the Partitioner is
    net,    \* the servers: all connected, cut in two, or down
    vis,    \* VIS_ENABLE, from when it is first looked at
    failed  \* the check that has called Fatalf, or "no"

config == <<test, reliable, setup>>
store == <<data, model, legal>>
clnt == <<pc, i, ver, err, es, res>>
faults == <<net, vis, annVars>>
control == <<main, offer, sent, tries, round, total, part, faults, failed>>
vars == <<config, store, clnt, control>>

\* Is there a Partitioner, are all servers restarted after a round?
partitions == setup \in {"partitions", "both"}
crash == setup \in {"crash", "both"}

Clnts == 0 .. NClnt - 1
Keys == Clnts \union {Shared}
KV == INSTANCE KVServer WITH Values <- {}

EntryV(id, v) == [id |-> id, v |-> v]
EntryN(id, n) == [id |-> id, n |-> n]
Key(c) == IF test = "alone" THEN c ELSE Shared
NoRes == [nok |-> 0, nmaybe |-> 0]
Add(r, ok) == IF ok THEN [r EXCEPT !.nok = @ + 1] ELSE [r EXCEPT !.nmaybe = @ + 1]

MaxVersion == Rounds * NClnt * (MaxIter + MaxMaybe) + 1

\* The types of the variables.
TypeOK ==
    /\ test \in {"put", "append", "alone"} /\ reliable \in BOOLEAN
    /\ setup \in {"none", "partitions", "crash", "both"}
    /\ \A k \in Keys : data[k].version \in 0 .. MaxVersion
    /\ pc \in [Clnts -> {"loop", "put", "reread", "get", "append", "once", "check",
                         "result", "gone", "dead"}]
    /\ i \in [Clnts -> 0 .. MaxIter] /\ ver \in [Clnts -> 0 .. MaxVersion]
    /\ err \in [Clnts -> {"none", "OK", "ErrVersion", "ErrMaybe"}]
    /\ res \in [Clnts -> [nok : 0 .. MaxIter, nmaybe : 0 .. MaxIter]]
    /\ main \in {"first", "spawn", "collect", "check", "history", "stop", "wait",
                "connect", "connected", "kill", "killed", "restart", "restarted", "clear",
                "sizes", "next", "cleanup", "hung", "end"}
    /\ sent \in 0 .. NClnt /\ tries \in 0 .. MaxMaybe /\ round \in 1 .. Rounds
    /\ part \in {"off", "select", "cut", "leave"}
    /\ net \in {"whole", "cut", "down"} /\ vis \in {"unread", "never", "unset", "always"}
    /\ failed \in {"no", "check", "history", "size", "time"}
    /\ {offer, legal} \subseteq BOOLEAN
    /\ AnnTypeOK

Fresh(v) == [c \in Clnts |-> v]

Init ==
    /\ test \in {"put", "append", "alone"} /\ reliable \in BOOLEAN
    /\ setup \in IF test = "put" /\ ~reliable THEN Setups ELSE {"none"}
    /\ data = KV!MakeKVServer /\ model = data /\ legal = TRUE
    /\ pc = Fresh("loop") /\ i = Fresh(0) /\ ver = Fresh(0) /\ err = Fresh("none")
    /\ es = Fresh(<<>>) /\ res = Fresh(NoRes)
    /\ main = (CASE test = "put" -> "spawn" [] test = "append" -> "first" [] OTHER -> "end")
    /\ part = "off"
    /\ offer = FALSE /\ sent = 0 /\ tries = 0 /\ round = 1 /\ total = NoRes
    /\ net = "whole" /\ vis = "unread" /\ AnnotateTest /\ failed = "no"

-----------------------------------------------------------------------------
(* The clerk's operations and the log of them.                              *)

Get(k) == KV!GetReply(data, k)

\* A Put over a network that loses calls may have to be sent again, and is
\* then answered ErrMaybe where the first call would have been told the truth.
Answers(k, v, maybes) ==
    LET e == KV!PutReply(data, k, v) IN
    {e} \union (IF ~reliable /\ e \in {"OK", "ErrVersion"} /\ maybes < MaxMaybe
                THEN {"ErrMaybe"} ELSE {})

\* oplog.Append, judged by KvModel.Step in the order operations took effect.
LogGet(k) ==
    /\ legal' = (legal /\ Get(k).val = model[k].val)
    /\ UNCHANGED <<data, model>>

LogPut(k, value, v, e) ==
    /\ data' = KV!PutData(data, k, value, v)
    /\ IF model[k].version = v
       THEN /\ legal' = (legal /\ e \in {"OK", "ErrMaybe"})
            /\ model' = [model EXCEPT ![k] = [val |-> value, version |-> v + 1]]
       ELSE /\ legal' = (legal /\ e \in {"ErrVersion", "ErrMaybe"})
            /\ UNCHANGED model

Goto(c, l) == pc' = [pc EXCEPT ![c] = l]

\* Fatalf in a client: FailNow ends its goroutine and no other.
Fatalf(c) == Goto(c, "dead")

-----------------------------------------------------------------------------
(* OneClientPut: OnePut until the done signal.                              *)

\* select { case <-done: ... default: ... }; ver is a local of the loop.
TakeDone(c) ==
    /\ pc[c] = "loop" /\ offer
    /\ offer' = FALSE /\ sent' = sent + 1
    /\ Goto(c, "result") /\ ver' = [ver EXCEPT ![c] = 0]
    /\ UNCHANGED <<config, store, i, err, es, res, main, tries, round, total, part, faults, failed>>

Begin(c) ==
    /\ pc[c] = "loop" /\ ~offer /\ i[c] < MaxIter
    /\ main # "first"
    /\ Goto(c, CASE test = "put" -> "put" [] test = "append" -> "get" [] OTHER -> "once")
    /\ UNCHANGED <<config, store, i, ver, err, es, res, control>>

OnePut(c) ==
    /\ pc[c] = "put"
    /\ \E e \in Answers(Shared, ver[c], res[c].nmaybe) :
        /\ LogPut(Shared, EntryV(c, ver[c]), ver[c], e)
        /\ IF e \in {"OK", "ErrVersion", "ErrMaybe"}
           THEN err' = [err EXCEPT ![c] = e] /\ Goto(c, "reread")
           ELSE Fatalf(c) /\ UNCHANGED err
    /\ UNCHANGED <<config, i, ver, es, res, control>>

\* Mutant: a Put that was answered ErrVersion ends OnePut too, and counts as done.
OnePutReadsOnce(c) ==
    LET r == Get(Shared) IN
    /\ pc[c] = "reread"
    /\ LogGet(Shared)
    /\ ver' = [ver EXCEPT ![c] = r.version]
    /\ i' = [i EXCEPT ![c] = @ + 1]
    /\ res' = [res EXCEPT ![c] = Add(@, err[c] # "ErrMaybe")]
    /\ Goto(c, "loop") /\ err' = [err EXCEPT ![c] = "none"]
    /\ UNCHANGED <<config, es, control>>

\* The Get after the Put gives the next version to try.  err ends with OnePut's
\* iteration.
OnePutReads(c) ==
    LET r == Get(Shared)
        mine == err[c] = "OK" /\ r.version = ver[c] + 1 IN
    /\ pc[c] = "reread"
    /\ LogGet(Shared)
    /\ IF r.err # "OK" \/ (mine /\ r.val.id # c /\ r.val.v # ver[c])
       THEN Fatalf(c) /\ UNCHANGED <<i, ver, res>>
       ELSE /\ ver' = [ver EXCEPT ![c] = r.version]
            /\ IF err[c] = "ErrVersion"
               THEN Goto(c, "put") /\ UNCHANGED <<i, res>>
               ELSE /\ Goto(c, "loop")
                    /\ i' = [i EXCEPT ![c] = @ + 1]
                    /\ res' = [res EXCEPT ![c] = Add(@, err[c] = "OK")]
    /\ err' = [err EXCEPT ![c] = "none"]
    /\ UNCHANGED <<config, es, control>>

-----------------------------------------------------------------------------
(* OneClientAppend.                                                         *)

AppendGet(c) ==
    LET r == Get(Shared) IN
    /\ pc[c] = "get"
    /\ LogGet(Shared)
    /\ IF r.err # "OK"
       THEN Fatalf(c) /\ UNCHANGED <<es, ver>>
       ELSE /\ es' = [es EXCEPT ![c] = Append(r.val, EntryN(c, i[c]))]
            /\ ver' = [ver EXCEPT ![c] = r.version]
            /\ Goto(c, "append")
    /\ UNCHANGED <<config, i, err, res, control>>

\* Mutant: after ErrMaybe the same entry is appended again.
AppendPutRetries(c) ==
    /\ pc[c] = "append"
    /\ \E e \in Answers(Shared, ver[c], res[c].nmaybe) :
        /\ LogPut(Shared, es[c], ver[c], e)
        /\ IF e = "OK"
           THEN i' = [i EXCEPT ![c] = @ + 1] /\ Goto(c, "loop")
           ELSE Goto(c, "get") /\ UNCHANGED i
        /\ res' = IF e \in {"OK", "ErrMaybe"} THEN [res EXCEPT ![c] = Add(@, e = "OK")] ELSE res
    /\ es' = [es EXCEPT ![c] = <<>>] /\ UNCHANGED <<config, ver, err, control>>

\* Only ErrVersion and ErrNoKey are retried: ErrMaybe goes to the next entry.
AppendPut(c) ==
    /\ pc[c] = "append"
    /\ \E e \in Answers(Shared, ver[c], res[c].nmaybe) :
        /\ LogPut(Shared, es[c], ver[c], e)
        /\ IF e \in {"OK", "ErrMaybe"}
           THEN /\ i' = [i EXCEPT ![c] = @ + 1]
                /\ res' = [res EXCEPT ![c] = Add(@, e = "OK")]
                /\ Goto(c, "loop")
           ELSE Goto(c, "get") /\ UNCHANGED <<i, res>>
    /\ es' = [es EXCEPT ![c] = <<>>] /\ UNCHANGED <<config, ver, err, control>>

-----------------------------------------------------------------------------
(* PutAtLeastOnce and CheckGet on a key no other client puts to.            *)

\* Mutant: a Put that may have happened is retried with the same version.
PutAtLeastOnceSameVersion(c) ==
    /\ pc[c] = "once"
    /\ \E e \in Answers(c, ver[c], res[c].nmaybe) :
        /\ LogPut(c, i[c], ver[c], e)
        /\ ver' = IF e = "OK" THEN [ver EXCEPT ![c] = @ + 1] ELSE ver
        /\ res' = [res EXCEPT ![c] = Add(@, e = "OK")]
        /\ Goto(c, IF e \in {"OK", "ErrVersion"} THEN "check" ELSE "once")
    /\ UNCHANGED <<config, i, err, es, control>>

PutAtLeastOnce(c) ==
    /\ pc[c] = "once"
    /\ \E e \in Answers(c, ver[c], res[c].nmaybe) :
        /\ LogPut(c, i[c], ver[c], e)
        /\ IF e \in {"OK", "ErrMaybe", "ErrVersion"}
           THEN /\ ver' = [ver EXCEPT ![c] = @ + 1]
                /\ res' = [res EXCEPT ![c] = Add(@, e = "OK")]
                /\ Goto(c, IF e = "OK" THEN "check" ELSE "once")
           ELSE /\ IF ver[c] # 0 THEN Fatalf(c) ELSE UNCHANGED pc
                /\ UNCHANGED <<ver, res>>
    /\ UNCHANGED <<config, i, err, es, control>>

CheckGet(c) ==
    LET r == Get(c) IN
    /\ pc[c] = "check"
    /\ LogGet(c)
    /\ IF r = [err |-> "OK", val |-> i[c], version |-> ver[c]]
       THEN Goto(c, "loop") /\ i' = [i EXCEPT ![c] = @ + 1]
       ELSE Fatalf(c) /\ UNCHANGED i
    /\ UNCHANGED <<config, ver, err, es, res, control>>

-----------------------------------------------------------------------------
(* SpawnClientsAndWait and the checks.                                      *)

Main(from, to) == main = from /\ main' = to

\* PutAtLeastOnceJson makes "k" the empty list: it always names version 0.
PutAtLeastOnceJson ==
    /\ main = "first"
    /\ \E e \in Answers(Shared, 0, tries) :
        /\ LogPut(Shared, <<>>, 0, e)
        /\ IF e = "ErrMaybe" THEN tries' = tries + 1 /\ UNCHANGED main
                             ELSE main' = "spawn" /\ UNCHANGED tries
    /\ UNCHANGED <<config, clnt, offer, sent, round, total, part, faults, failed>>

\* The test sleeps while clients run: long enough for one of them to get
\* something done.
Slept == \E c \in Clnts : i[c] > 0

\* Mutant: one token too few.
OfferDoneTooFew ==
    /\ main = "spawn" /\ ~offer /\ Slept
    /\ IF sent < NClnt - 1 THEN offer' = TRUE /\ UNCHANGED main
                           ELSE main' = "collect" /\ UNCHANGED offer
    /\ UNCHANGED <<config, store, clnt, sent, tries, round, total, part, faults, failed>>

OfferDone ==
    /\ main = "spawn" /\ ~offer /\ Slept
    /\ IF sent < NClnt THEN offer' = TRUE /\ UNCHANGED main
                       ELSE main' = "collect" /\ UNCHANGED offer
    /\ UNCHANGED <<config, store, clnt, sent, tries, round, total, part, faults, failed>>

\* rs[cli] = <-ca[cli], in order; the client then deletes its clerk and ends.
Collect(c) ==
    /\ main = "collect" /\ pc[c] = "result"
    /\ \A d \in 0 .. c - 1 : pc[d] = "gone"
    /\ Goto(c, "gone")
    /\ total' = [nok |-> total.nok + res[c].nok, nmaybe |-> total.nmaybe + res[c].nmaybe]
    /\ main' = IF c = NClnt - 1 THEN "check" ELSE main
    /\ UNCHANGED <<config, store, i, ver, err, es, res, offer, sent, tries, round, part, faults, failed>>

CheckPutConcurrent ==
    LET v == Get(Shared).version IN
    IF reliable THEN v = total.nok ELSE v <= total.nok + total.nmaybe

\* What CheckAppends counts on its way through the list.
Count(a, e) ==
    IF a.expect[e.id] > e.n THEN [a EXCEPT !.old = TRUE]
    ELSE [a EXCEPT !.expect[e.id] = e.n + 1, !.skipped[e.id] = @ + (e.n - a.expect[e.id])]

CheckAppends ==
    LET r == Get(Shared)
        a == FoldLeft(Count, [expect |-> Fresh(0), skipped |-> Fresh(0), old |-> FALSE], r.val) IN
    /\ ~a.old /\ Len(r.val) + 1 = r.version
    /\ \A c \in Clnts : /\ a.skipped[c] <= res[c].nmaybe
                        /\ a.expect[c] <= res[c].nok + res[c].nmaybe

\* GenericTest checks in a goroutine of its own: Fatalf ends that one, and the
\* test waits for it for ever.
Check ==
    LET ok == /\ Get(Shared).err = "OK"
              /\ IF test = "put" THEN CheckPutConcurrent ELSE CheckAppends IN
    /\ Main("check", IF ok THEN "history" ELSE IF test = "put" THEN "hung" ELSE "cleanup")
    /\ LogGet(Shared)
    /\ failed' = IF ok THEN failed ELSE "check"
    /\ UNCHANGED <<config, clnt, offer, sent, tries, round, total, part, faults>>

-----------------------------------------------------------------------------
(* The rounds of GenericTest: the history, the faults, the next clients.    *)

LastRound == test = "put" => round = Rounds

\* The test's own goroutine sleeps before it starts the Partitioner, as long as
\* the clients run, and then waits for them.
Spawned == partitions => part # "off"

\* After the history: the Partitioner is stopped, then the servers restarted.
AfterHistory ==
    IF partitions THEN "stop" ELSE IF crash THEN "kill" ELSE IF test = "put" THEN "sizes" ELSE "cleanup"

\* In the last round of "put" the annotations are declared final, so that the
\* file is written with the history and not at the end.
DeclareFinal ==
    /\ main = "history" /\ test = "put" /\ LastRound /\ Spawned /\ ~finalized
    /\ SetAnnotationFinalized
    /\ UNCHANGED <<config, store, clnt, main, offer, sent, tries, round, total, part, net, vis,
                   annotations, failed>>

\* os.Getenv("VIS_ENABLE")
Getenv == vis' \in IF vis = "unread" THEN {"never", "unset", "always"} ELSE {vis}

checkPorcupine ==
    /\ Main("history", IF legal THEN AfterHistory ELSE "cleanup")
    /\ Spawned /\ (test = "put" /\ LastRound => finalized)
    /\ IF legal /\ ~LastRound THEN UNCHANGED vis ELSE Getenv
    /\ failed' = IF legal THEN failed ELSE "history"
    /\ IF (~legal /\ vis' # "never") \/ (legal /\ finalized /\ vis' = "always")
       THEN Visualise
       ELSE UNCHANGED <<finalized, files>>
    /\ UNCHANGED <<config, store, clnt, offer, sent, tries, round, total, part, net, annotations>>

\* go ts.Partitioner
StartPartitioner ==
    /\ partitions /\ part = "off" /\ main \in {"spawn", "collect", "check", "history"} /\ Slept
    /\ part' = "select"
    /\ UNCHANGED <<config, store, clnt, main, offer, sent, tries, round, total, faults, failed>>

\* Nothing to receive: another partition ...
Partition ==
    /\ part = "select" /\ main # "stop" /\ part' = "cut"
    /\ net' = "cut"
    /\ UNCHANGED <<config, store, clnt, main, offer, sent, tries, round, total, vis, annVars, failed>>

\* ... its annotation, and a sleep.
AnnotatePartition ==
    /\ part = "cut" /\ part' = "select"
    /\ AnnotateTwoPartitions
    /\ UNCHANGED <<config, store, clnt, main, offer, sent, tries, round, total, net, vis, finalized,
                   files, failed>>

Partitioner == StartPartitioner \/ Partition \/ AnnotatePartition

\* Mutant: with a buffered channel main does not wait for the Partitioner, and
\* receives its own token.
StopPartitionerBuffered ==
    /\ Main("stop", "connect")
    /\ UNCHANGED <<config, store, clnt, offer, sent, tries, round, total, part, faults, failed>>

\* ch <- true meets case <-ch.
StopPartitioner ==
    /\ Main("stop", "wait")
    /\ part = "select" /\ part' = "leave"
    /\ UNCHANGED <<config, store, clnt, offer, sent, tries, round, total, faults, failed>>

\* <-ch meets the deferred ch <- true.
PartitionerEnds ==
    /\ Main("wait", "connect")
    /\ part = "leave" /\ part' = "off"
    /\ UNCHANGED <<config, store, clnt, offer, sent, tries, round, total, faults, failed>>

\* The test's goroutine does something to the servers, and then annotates it.
Operate(from, to, state) ==
    /\ Main(from, to)
    /\ net' = state
    /\ UNCHANGED <<config, store, clnt, offer, sent, tries, round, total, part, vis, annVars, failed>>

Annotate(from, to) ==
    /\ Main(from, to)
    /\ UNCHANGED <<config, store, clnt, offer, sent, tries, round, total, part, net, vis, finalized,
                   files, failed>>

ConnectAll == Operate("connect", "connected", "whole")
AnnotateConnected ==
    Annotate("connected", IF crash THEN "kill" ELSE "sizes") /\ AnnotateClearFailure

\* killall and restartall
Shutdown == Operate("kill", "killed", "down")
AnnotateShutdownAll == Annotate("killed", "restart") /\ AnnotateShutdown(Srvs)
StartServers == Operate("restart", "restarted", "whole")
AnnotateRestartAll == Annotate("restarted", "clear") /\ AnnotateRestart(Srvs)
AnnotateRestarted == Annotate("clear", "sizes") /\ AnnotateClearFailure

\* Logs have to be trimmed, or snapshots not used.  The model does not know
\* the sizes: either check may fail.
CheckSizes ==
    /\ main = "sizes"
    /\ \/ main' = "next" /\ UNCHANGED failed
       \/ main' = "cleanup" /\ failed' = "size"
    /\ UNCHANGED <<config, store, clnt, offer, sent, tries, round, total, part, faults>>

\* A round starts new clients: they begin with version 0 although the key
\* exists.  The counts of the rounds before are kept.
NextRound ==
    /\ main = "next"
    /\ IF LastRound
       THEN main' = "cleanup" /\ UNCHANGED <<round, sent, pc, i, ver, err, res>>
       ELSE /\ main' = "spawn" /\ round' = round + 1 /\ sent' = 0
            /\ pc' = Fresh("loop") /\ i' = Fresh(0) /\ ver' = Fresh(0) /\ err' = Fresh("none")
            /\ res' = Fresh(NoRes)
    /\ UNCHANGED <<config, store, es, offer, tries, total, part, faults, failed>>

\* The deferred Cleanup.  End fails a test that took more than two minutes, and
\* then the rest is not done; a test that has failed is not asked for its time.
Cleanup ==
    /\ Main("cleanup", "end")
    /\ \/ failed = "no" /\ failed' = "time" /\ UNCHANGED <<vis, annVars>>
       \/ Getenv /\ cleanup(failed # "no", vis') /\ UNCHANGED failed
    /\ UNCHANGED <<config, store, clnt, offer, sent, tries, round, total, part, net>>

ClntStep(c) ==
    \/ TakeDone(c) \/ Begin(c) \/ OnePut(c) \/ OnePutReads(c)
    \/ AppendGet(c) \/ AppendPut(c) \/ PutAtLeastOnce(c) \/ CheckGet(c)

MainStep ==
    \/ PutAtLeastOnceJson \/ OfferDone \/ (\E c \in Clnts : Collect(c))
    \/ Check \/ DeclareFinal \/ checkPorcupine \/ StopPartitioner \/ PartitionerEnds
    \/ ConnectAll \/ AnnotateConnected \/ Shutdown \/ AnnotateShutdownAll
    \/ StartServers \/ AnnotateRestartAll \/ AnnotateRestarted
    \/ CheckSizes \/ NextRound \/ Cleanup

Ended == main = "end" /\ (test = "alone" => \A c \in Clnts : i[c] = MaxIter)

Next ==
    \/ \E c \in Clnts : ClntStep(c)
    \/ MainStep \/ Partitioner
    \/ Ended /\ UNCHANGED vars

\* Goroutines run.  The Partitioner's select takes a send that waits, so that
\* main is not kept waiting.
Spec ==
    /\ Init /\ [][Next]_vars
    /\ \A c \in Clnts : WF_vars(ClntStep(c))
    /\ WF_vars(MainStep) /\ WF_vars(Partitioner)

-----------------------------------------------------------------------------
(* Properties.                                                              *)

\* Every run over a correct store passes, whatever answers were lost, over all
\* rounds, or fails only for the sizes of logs or the time it took.  No client
\* calls Fatalf: not on an error OnePut does not expect, a key that is not there,
\* a value that is not its own, nor on a version that PutAtLeastOnce has
\* miscounted; it would never send its result, and SpawnClientsAndWait would
\* wait for it for ever.  CheckPutConcurrent and CheckAppends accept, and the
\* history is legal for the model of porcupine.
TestsPass == legal /\ failed \notin {"check", "history"} /\ \A c \in Clnts : pc[c] # "dead"

Answered(e) == {c \in Clnts : pc[c] = "reread" /\ err[c] = e}
Sum(f(_)) == MapThenSumSet(f, {c \in Clnts : pc[c] # "gone"})

\* At every moment the version counts the Puts: it is at least the number of
\* Puts answered OK and at most these and the ones answered ErrMaybe.  (The
\* test asks for the upper bound only.)
PutsCounted ==
    LET OkOf(c) == res[c].nok
        MaybeOf(c) == res[c].nmaybe
        ok == total.nok + Sum(OkOf) + Cardinality(Answered("OK"))
        maybe == total.nmaybe + Sum(MaybeOf) + Cardinality(Answered("ErrMaybe")) IN
    test = "put" => data[Shared].version \in ok .. ok + maybe

\* "each client has entries with increasing N" (OneClientAppend), and all that
\* were answered OK: a lost answer never leads to a second copy.
AppendShape ==
    test = "append" /\ main # "first" =>
        LET list == data[Shared].val
            Of(c) == SelectSeq(list, LAMBDA e : e.id = c) IN
        /\ Len(list) + 1 = data[Shared].version
        /\ \A c \in Clnts :
            /\ Len(Of(c)) \in res[c].nok .. res[c].nok + res[c].nmaybe
            /\ \A x, y \in DOMAIN Of(c) : x < y => Of(c)[x].n < Of(c)[y].n

FaultOfNet == [cut |-> net = "cut", down |-> IF net = "down" THEN Srvs ELSE {}]

\* Neither the Partitioner nor main is between an operation and its annotation.
Annotated == part # "cut" /\ main \notin {"connected", "killed", "restarted"}

\* The annotations follow the servers, one statement behind: whenever the one
\* who acted has annotated it, the fault that is shown is the one there is.
\* What checkPorcupine draws while the Partitioner runs on is true or, right
\* after the first partition of a round, not yet there.  And a round leaves
\* nothing behind: no partition is made late, after ConnectAll, so that the
\* servers are up and connected when sizes are checked and new clients start.
FaultShown ==
    /\ Annotated /\ main # "end" => fault = FaultOfNet
    /\ main = "history" => fault \in {NoFault, FaultOfNet}
    /\ main \in {"sizes", "next"} => net = "whole"

\* Whether there is a file at the end, when VIS_ENABLE is "unset".  A test that fails
\* leaves one, whether it is checkPorcupine or Config.Cleanup that writes it,
\* but not when sizes are wrong after GenericTest has declared its annotations
\* final, nor when it is End that fails.
FailureFile ==
    \/ failed \in {"check", "history"}
    \/ failed = "size" /\ ~LastRound

\* checkPorcupine and Config.Cleanup agree, by finalized, on which of them writes
\* the file: never both, the second of which would replace the history by a file
\* without operations.  At the end there is none under "never", and one under
\* "always" unless End fails a test that has left it to Cleanup.
FileLeft ==
    /\ files <= 1
    /\ main = "end" /\ test # "alone" =>
        (files = 1 <=> CASE vis = "never" -> FALSE
                         [] vis = "unset" -> FailureFile
                         [] OTHER -> test = "put" \/ failed # "time")

\* Violated.  "the current test has already been finalized (because CheckPorcupine
\* has already produced a vis file)" (annotation.go:513): GenericTest declares the
\* annotations of its last round final, whether a file is then written or not.
FinalizedMeansFile == main = "cleanup" /\ finalized /\ vis # "never" => files = 1

\* Violated.  "Nothing to end since there's no on-going continuous annotation
\* for tag" (annotation.go:490), but the branch does not return: restartall has
\* ended the fault, and AnnotateClearFailure adds an annotation from time zero.
NoStray == ~stray

\* Every program ends: a client that is told ErrVersion again and again gets
\* its Put done when the others have taken their token and left, and the
\* Partitioner hands its channel back.
EveryTestEnds == <>Ended
=============================================================================
