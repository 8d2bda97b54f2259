# TLA+ models of the 6.5840 labs

The repository holds the labs of MIT 6.5840: a MapReduce framework, a
key/value server with a lock on top of it, Raft, the configuration code of a
sharded store, and the simulated network and test harness they run on. This
directory models the parts that carry logic of their own, checks them with TLC
and proves the central ones with TLAPS.

Paths below are relative to `src/src/`.

## 1. Inventory

| Part | Source | State | Operations | Talks to |
|---|---|---|---|---|
| MapReduce coordinator | `mr/coordinator.go` | status and start time of each task, two counters, the phase | `RequestTask`, `ReportTaskComplete`, `Done` | workers, by net/rpc over a socket |
| MapReduce worker | `mr/worker.go` | one `TaskReply`, the files it reads and writes | `Worker`, `doMap`, `doReduce` | coordinator; other workers through the shared directory |
| Key/value server | `kvsrv1/server.go` | map of key to value and version | `Get`, `Put` | clerks, by labrpc |
| Key/value clerk | `kvsrv1/client.go` | the iteration of its retry loop | `Get`, `Put` | server |
| Lock | `kvsrv1/lock/lock.go` | its name, the client's identity | `Acquire`, `Release` | clerk |
| Raft peer | `raft1/raft.go` | term, vote, log, indices, snapshot, `dirty` | three RPC handlers, `Start`, `Snapshot`; goroutines: ticker, replicators, applier, batch persister | peers by labrpc; service by `applyCh`; `Persister` |
| Raft service | `raft1/server.go` | the log it has applied | `applierSnap`, `ingestSnap` | its peer |
| Persister | `tester1/persister.go` | saved state and snapshot | `Save`, reads | Raft |
| Shard configurations | `shardkv1/shardcfg/shardcfg.go` | number, shard -> group, groups | `JoinBalance`, `LeaveBalance`, `Rebalance` | (controller, not implemented) |
| labrpc | `labrpc/labrpc.go` | ends, which are enabled, servers by name | `Call`, `processReq`, `Enable`, `AddServer`, `DeleteServer` | everything |
| Demultiplexer, socket RPC | `tester1/demux`, `tester1/sockrpc` | outstanding calls by tag, two streams | `SendReceive`, both readers, `Close` | processes of the tester |
| Tester | `tester1/group.go`, `srv.go`, `daemon*.go`, `clnts.go` | servers and their generations, `connected`, Persisters, a client's ends | start, kill, connect, partition, cut a client off | all servers |
| Key/value test library | `kvtest1/kvtest.go`, `porcupine.go`, `kvraft1/test.go` | results of clients, the history | client loops, `SpawnClientsAndWait`, `Partitioner`, checks | clerks, tester |
| Annotator | `tester1/annotation.go` | the fault being shown, crashed servers, `finalized` | `AnnotateTwoPartitions`, `AnnotateClearFailure`, `cleanup`, ... | test library |

`kvraft1`, `kvraft1/rsm` and the rest of `shardkv1` are skeletons: their
handlers are not implemented. `main/lockd.go` and its like are command lines
of packages that are not in the repository.

What makes each part correct, and what is hard to test about it:

* **MapReduce.** When the job is done each output is made from each input once,
  although a lease of ten seconds runs out under a worker that is still alive,
  workers crash between two renames, two workers execute one task, and late
  reports arrive. Everybody ends.
* **Key/value.** A Put takes effect at most once, and a clerk that sent it twice
  must not claim to know what it does not. Replies are lost, and handlers go on
  after the network has given up on them. The store is linearizable.
* **Lock.** At most one holder, although the answer of the deciding Put is
  ignored; a Release that frees; nobody starved.
* **Raft.** One leader a term, matching logs, committed entries that stay, services
  that apply the same commands in order; with five goroutines a peer, two
  critical sections in one handler, and a persister that lags behind.
* **Shard configurations.** Balanced, no unneeded moves, a loop that ends.
* **labrpc and the tester.** What a server has answered is still there after it was
  killed and restarted, although its handlers run on and its Persister is copied
  while they do; after each operation the network is what the test asked for;
  a call returns unless its handler hangs, and even then when the server is cut off.
* **Demultiplexer.** Each caller gets the reply to its own call or an error, also when
  the connection is closed from either side under it; nobody waits for ever.
* **Test library.** Over a correct store no client and no check fails, whatever answers
  are lost: a client that fails would hang the test, not fail it. Every
  program ends.

The full list, line by line, is under `hazards` in `PROJECT.json`.

## 2. Modules

```
MRCoordinator <- MapReduce <- MCMapReduce       MapReduce implements MRJob
                           <- MapReduceProofs
KVServer <- KVClerk <- MCKVClerk                KVClerk implements KVLinear
                    <- KVClerkProofs
         <- KVLock  <- MCKVLock
                    <- KVLockProofs
RaftPeer <- Raft <- MCRaft
                 <- RaftProofs <- RaftCommitProofs
ShardCfg <- MCShardCfg
         <- ShardCfgProofs
LabNet <- ServerGrp <- MCServerGrp
Demux <- MCDemux
      <- DemuxProofs
KVServer, Annotation <- KVTest <- MCKVTest
                               <- KVTestProofs
```

**MRCoordinator, MapReduce, MRJob.** The coordinator's handlers are operators and
actions over its task tables. A worker is a program counter, its one reply
record, a loop index and what it has gathered; each rename, each read of an
intermediate file and each call is an action. Contents of files are abstracted to
provenance: which input file the pairs came from. `Decoded` models what gob does
with a field that is zero (nothing is sent, the old value stays), which is where
retries of task 0 go wrong. A lease runs out (`MapTimeout`, `ReduceTimeout`) only
for tasks in `Straggling`; workers crash at any point of such a task. The status
loop of `RequestTask` resets overdue tasks on its way to the first idle one, and
so does the action. `MRJob` is the promise: outputs appear complete, one by one,
never change, and the job is done after all of them.

**KVServer, KVClerk, KVLinear.** `KVServer` holds the handlers as functions of
the map. `KVClerk` has an action for each thing that can happen to a Call: sent,
lost, handled, reply lost, abandoned with the handler still to run, returned.
`KVLinear` is an atomic store whose operations take effect once between call and
return and may answer `ErrMaybe` instead of what happened; the refinement maps
each handler step to the point where the operation takes effect.

**KVLock.** Uses the handlers of `KVServer` directly: at the level of the lock, a
Get or Put of the clerk is one step, which `Linearizable` justifies. A Put whose
answer the lock ignores may be refused, applied, or applied and answered
`ErrMaybe`, which are the same to it.

**RaftPeer, Raft.** `RaftPeer` has every critical section of `raft.go` as a function
of the peer's record. `Raft` composes them: `calls` is the set of labrpc calls
in progress, and an action is one critical section, one rendezvous on `applyCh`
or one failure of a call. `InstallSnapshot` takes three actions, since it releases
the lock to send on `applyCh`; the applier takes three (copy a batch, send, take
the lock again); the batch persister takes two (encode; save and clear `dirty`).
Timers fire at any time. `sendSeq` is unbounded in the code and only compared for
equality, so a call carries `latest` instead. A crash keeps `disk`; requests of
the dead process may still arrive, its pending handlers are gone. Condition
variables are left out: a goroutine whose condition holds may run, which includes
every schedule the wake-ups allow.

**ShardCfg.** `Rebalance` is two loops; each iteration is an action. Maps are
iterated in any order in `Join`, in the order of the list in `Leave`, and `analyze`
breaks ties by the smaller gid, as in the code.

**LabNet, ServerGrp.** `LabNet` is the state of `Network` and the goroutine
`processReq`, which reads that state several times on its way: when it starts, each
100 ms while the handler runs, and before it passes the reply on (`CheckServer`).
The handler is a goroutine of its own that goes on when nobody waits for it.
`ServerGrp` is the test's goroutine. An operation (`ConnectOne`, `Partition`,
`ShutdownServer`, `StartServer`, the client's) is a list of steps in `todo`, each a
critical section of the network or a message to a daemon, so that calls run in
between any two of them. A daemon is a process with phases; `Checkpoint` copies its
Persister to the tester, `Kill` ends it, and a restart makes a new generation of
ends. The servers are of the kind the tests are about: a handler saves before it
answers (the Raft of this repository does not, see `raft_double_vote`).

**Demux.** One connection with both its ends. The socket is external: two bounded
streams, from which can be read what was written before the other end closed.
Each critical section under `dmx.mu` and under the call map's mutex is an action, as
are the two halves of a write that may block.

**KVTest, Annotation.** Clients, the test's goroutine and the Partitioner. The store
is `KVServer`'s, operations are atomic and a Put over an unreliable network may be
answered `ErrMaybe` where the truth is OK or `ErrVersion`, which is what the clerk
promises (`AnswerIsTrue`, `Linearizable` of the run `kv`). The history is judged as it
grows, by the sequential model of `models1/kv.go` in the order in which operations
took effect. `done` and the Partitioner's channel are rendezvous. An operation on
the network and its annotation are two actions, as they are two statements under no
common lock: `checkPorcupine` may draw the annotations while the Partitioner is between
them. The sizes that `GenericTest` checks after each round and the time `End` asks
for are not known to the model: either check may fail, and `failed` records which one
did. The file is assumed to be writable, and an interrupt (`captureSignal`) is left out.
"put" is `GenericTest` of `kvraft1` (its two goroutines are one, since the outer one only
sleeps, starts the Partitioner and waits); "append" and "alone" are compositions of the
library's functions made here: no test of the repository calls `OneClientAppend`.

## 3. Runs

| Run | Instance | Shows |
|---|---|---|
| `mr` | 3 workers, 2 files, 2 partitions, 1 crash, every task but number 0 may overrun | counters and phase exact, outputs correct and final, tasks executed once; `MRJob`; everybody ends (so that the job of `MRJob` is done) |
| `mr_retry_zero` | 2 files, every task may overrun | **violation** of `DoneMeansCorrect` |
| `kv` | 2 clerks, 1 key, abandoned handlers | at most once, true answers, every operation returns, linearizable |
| `lock` | 3 clients on one lock, 1 on another, 2 turns each | exclusion, Release frees, everyone served |
| `raft_core` | 3 peers, 2 candidates, 2 terms, 2 commands | one leader a term, log matching, leader completeness, committed entries stable |
| `raft_crash` | the same with 1 command and a crash of a peer with nothing unsaved | vote and log survive a restart |
| `raft_snapshot` | 1 leader, snapshot after each command, 2 appliers | services agree, indices in order |
| `raft_double_vote` | 3 peers, 1 term, a crash at any time | **violation** of `ElectionSafety` |
| `shardcfg` | 7 shards, 4 groups, 3 configurations | balanced, no unneeded moves, Rebalance ends |
| `tester` | 2 servers, 1 client, 1 call to server 1, 2 operations on servers and 1 on the client, 2 generations | an answered call survives its server (`AckedSurvives`), ends as asked for, a client that is cut stays cut, calls return, operations end, no `log.Fatalf` |
| `demux` | 2 callers, streams of 1 message | own replies, no reply without a call, every call returns, the reader ends |
| `kvtest` | 2 clients, 2 rounds, 2 iterations a round, 2 lost answers a client, with no faults and with partitions and restarts | no client and no check fails and the history is legal (`TestsPass`), version counts the Puts, appends in shape, annotations one statement behind the faults and nothing left of a round (`FaultShown`), a file at the end when `FileLeft` says so, every program ends |

The type invariants (`TypeOK`) are not among the properties of the runs: they are proved
for MapReduce and the lock, and hold in `kv`, `raft_snapshot`, `shardcfg`, `tester`, `demux`
and `kvtest` when `INVARIANT TypeOK` is added to their configurations. `CompleteMapsPublished` is proved with `DoneMeansCorrect`.

Why the bounds are enough. Three workers are a straggler, its replacement and a
bystander; a task other than 0 that overruns gives a late report next to a
new one. Two clerks on one key are a writer and its rival, and version 1 lets both
a creation and an update be sent again. In Raft, two terms and two commands are the least with which logs
conflict and are repaired; `MaxCalls` limits how many calls are in progress when
a replicator sends another, so that one stale AppendEntries can be overtaken by
elections but not by many other calls. Commits of an earlier term's entry by
counting replicas need four terms and are out of reach of these instances.
In the tester, two operations on servers are the least with which a server is killed
and restarted, and two generations the least with which an old end could be taken for
a new one; the call may be at any point of its way during each. Two callers of the
demultiplexer suffice to swap tags and for one to block the reader of the other.
In the test library the second round meets the key of the first, and two lost answers
let `PutAtLeastOnce` miscount in a row; of two rounds one is not the last, so that sizes
fail before and after the annotations are final.
`Appliers` and `Savers` name the peers whose applier and persister run in an
instance: without crashes the persister touches nothing the others read. Symmetry
is used over workers, clerks, values, commands, and those peers that the instance
does not tell apart; never where liveness is checked.

`CHECK_DEADLOCK FALSE` is set for Raft, ShardCfg and the tester, where an instance
ends when its terms, commands, configurations or operations are used up.

Eight more configurations can be run by hand and end in a violation each:
`MR_retry_zero_live.cfg` (a lone worker never completes task 0), `MR_two_devices.cfg`
(renames between file systems fail unnoticed, `DoneMeansOutputs`),
`KV_model.cfg` (`models1/kv.go:62` has no case for the `ErrNoKey` of a Put),
`Raft_lost_save.cfg` (`dirty` is cleared for a change made during Save,
`CleanMeansSaved`), `Raft_stale_match.cfg` (the leader credits a follower with a
snapshot it has not been sent, `MatchIsReached`), `Raft_apply_order.cfg`
(`InstallSnapshot` sends on `applyCh` outside the lock, `raft1/raft.go:209`, between two
commands of the applier's batch, `AppliedInOrder`), `Annotate_stray.cfg`
(`tester1/annotation.go:489` finds nothing to end and ends it all the same, in every
test that restarts its servers, `NoStray`) and `Vis_finalized.cfg` (annotations are
declared final although no file is then written, which `tester1/annotation.go:513`
takes for granted, `FinalizedMeansFile`).

### Findings

* `mr_retry_zero`: the reused `TaskReply` (`mr/worker.go:48`) keeps `MapTaskId` when
  the coordinator answers task 0. A worker that has done map k and then gets map 0
  overwrites the files of k and reports k; the pairs of input k are lost. The job
  is declared done, or, with reduce task 0, never ends.
* `raft_double_vote`: votes and entries are answered before they are saved
  (`raft1/raft.go:332`, saved by `batchPersister`). A crash in between and the peer
  votes again in the same term.

Seen while modelling, without a run of their own: `RPCSrv.Close` closes the listener
and no connection, so `CheckpointPersister` does not "Stop server from sending requests
and replies" (`tester1/daemonsrv.go:160`); what keeps `AckedSurvives` true is that the
server is deleted from the network first. `MakePartition` with an even number of
servers names server 0 on both sides. A `Fatalf` in a client, or in the goroutine of
`GenericTest` that checks the counts, hangs the test. `SetAnnotationFinalized` before
the last history means that a check of sizes that fails after it leaves no visualisation
unless `VIS_ENABLE` is "always", and then one that says "test passed"; so does the
time limit in `End`, which also keeps `Cleanup` from running. `FileLeft` states all
of this exactly. Operations of
a `TestClerk` are counted twice in `#Ops` (by the clerk and by `kvtest.Get`/`Put`).

Hazards that no property is about, beside those listed in `PROJECT.json`: a holder that
stops without `Release` keeps the lock (there is no lease); a heartbeat takes over the
sequence number of a call in flight (`raft1/raft.go:542`), and some paths record a new
term without waking the persister (`raft1/raft.go:432`), both questions of timing;
`InstallSnapshot` does not take over a higher term (`raft1/raft.go:198`), which needs more
terms than `raft_snapshot` has; `GetCount` of a deleted server dereferences nil
(`labrpc/labrpc.go:466`); `DemuxClnt.Close` after the end of the stream leaves the
transport open; only a sleep makes clients finish a Put before they are stopped
(`kvtest1/kvtest.go:171`); `OnePut` compares with `&&` where either difference is wrong
(`kvtest1/kvtest.go:228`); the begin mark of a checker is reset in a copy
(`tester1/annotation.go:179`).

### Fairness

`MapReduce`: weak fairness of each worker's steps and of the coordinator's main
loop (processes are scheduled), and of each timeout (time passes); crashes are
not fair and are bounded. `KVClerk`: weak fairness of sending, strong fairness of
handling and of returning: the network drops messages with a probability below
one, so a clerk that keeps trying gets through. `KVLock`: weak fairness of each
client, which releases what it holds. `ShardCfg`: a call of Rebalance runs.
`ServerGrp`: weak fairness of the test's goroutine, of a starting daemon, and of each
call's goroutine and handler; a handler may hang for good, which is not a step of it.
`Demux`: weak fairness of every goroutine; nobody has to close anything. `KVTest`: weak
fairness of each client, of the test and of the Partitioner (goroutines are
scheduled); the test's sleep, and the one before the Partitioner starts, last until some
client has finished an iteration (`Slept`), and a client does at most `MaxIter` iterations and is answered `ErrMaybe` at
most `MaxMaybe` times, which stand for the time until the test ends. No
liveness is claimed for Raft: it depends on timing.

## 4. Proofs

Each theorem holds for every value of the constants that satisfies the module's
ASSUMEs, and says so where it needs more. The invariants that are stronger than the
properties were checked by TLC on the instances of the runs before they were proved, as
far as TLC can evaluate them (not those that speak of all sequences of entries).

`MapReduceProofs` (any number of files, partitions, workers and crashes):

* `TypesAndCounters`: `TypeOK` and `CountersExact`, from the coordinator alone:
  a status becomes COMPLETE once, and the counter with it. The steps about
  cardinality rest on adding one element to a finite set.
* `DoneJobIsCorrect`, `OutputsAreFinal`, `JobImplementsMRJob`: under `CleanRetries`,
  map task 0 is not retried and renames work. The inductive invariant
  (`CountInv` and `CorrectInv`) says more than the properties: a worker's reply
  names the task it was given (`ZeroFirst` is why that needs `CleanRetries`); the
  files a mapper has renamed so far are those of its input (`MapWorkersPublish`); a
  reducer runs only when all maps are complete, so what it has gathered is right
  (`ReduceWorkersRead`); and complete reduce tasks have whole outputs
  (`OutputsWhole`). It is needed because a straggler
  may rename an output long after the job is done: the rename changes nothing since
  it writes what is there. The assumption is exactly what `mr_retry_zero` breaks.
  The step of `JobImplementsMRJob` maps a first rename of an output to `Publish`,
  the last report to `Finish`, and everything else to a stutter.
* `TasksExecutedOnce` (`ExecutedOnce`), under `CleanRetries`: `OnceInv` says who may
  hold a task in each of its states, and that there is one holder (`OneHolder`).

`KVLockProofs` (any clients and locks): `LockExcludes` and `ReleaseAlwaysFrees`. The
inductive invariant `LockInv`: a client between a successful check and the end of its
Release is named in the store, and the version it has read for its Release is the
current one, since nobody else writes a lock that is not free; a client about to
write with an old version fails.

`KVClerkProofs` (any clients, keys and operations; `NoOp` is not an operation):

* `PutAtMostOnce` (`AtMostOnce`): an applied Put has left the version it named behind
  for good, so no copy of it can match again, resent or orphaned.
* `TrueAnswers` (`AnswerIsTrue`) and `ClerkLinearizable` (`Linearizable`), for clients
  that name only versions they have learnt (`Ahead = 0`). `SettledInv` adds that no
  version in flight is ahead of the server: then a refused Put stays refused, and
  its orphans are spent. A client that guesses versions can be told
  `ErrVersion` for a Put whose orphan takes effect later; the refinement then has no
  point to map it to. Each handler step is the operation's step of `KVLinear`,
  everything else a stutter.

`DemuxProofs` (any callers; no caller is called "error"): `EachItsOwnReply`
(`OwnReply`) and `NoReplyWithoutCall` (`RepliesMatch`). The invariant `DemuxInv` follows
a tag through its life: handed out once, it is in the map, in the request stream, with
the server, in the reply stream or with the reader, in one of these places at a time,
and a tag on its way back is still in the map until the reader takes it out.

`RaftProofs`, `RaftCommitProofs` (any peers, commands, terms, calls in progress and
crashes), for crashes that meet saved state (`CrashesWhenSaved`; without it two
leaders are elected, as `raft_double_vote` shows):

* `OneLeaderPerTerm` (`ElectionSafety`). `ElectionInv`: a vote on its way or counted is
  still recorded by the peer that gave it, or that peer has left the term
  (`GrantsHonoured`); nobody's votes of a term go to two candidates
  (`GrantsUnique`); a leader has counted a majority. Two majorities meet.
* `LogsMatch` (`LogMatching`), as long as no peer has a snapshot (`[]NoSnapshot`, as in
  the tests of 3A to 3C). The property is not inductive: what an AppendEntries in the
  network carries becomes a log. `LogInv` states matching of all `Frags`, the logs and
  the parts of logs under way, where a part begins with the entry that is only known
  by its term (`FragsMatch`). A new entry keeps that because nobody else has one of
  the leader's term at its place (`LeaderOwns`), and a peer that becomes leader finds
  none of its term since each term with entries has been taken by somebody no
  longer a candidate in it (`TermsTaken`, `TakenBy`). With snapshots, AppendEntries
  skips to the receiver's snapshot and takes the snapshot's own term as the one to
  compare, so that matching logs rest on what is committed.
* `LeadersAreComplete` (`LeaderCompleteness`), `ServicesAgree` (`StateMachineSafety`) and
  `IndicesStayInOrder` (`IndicesInOrder`), under the same hypotheses as `LogsMatch`. A log
  beginning `P` is `Final` when enough peers `Q` hold it and it is `Safe`: every log at
  least as up to date has `P`, every call of AppendEntries of `P`'s last term or later agrees
  with it, leaders of these terms have it, and so have the candidates of later terms
  for whom a member of `Q` has voted. Once final, always final (`FinalKept`). That logs alone do
  not do is Raft's known difficulty (an entry of an earlier term that a majority holds may be
  lost), so the invariant `CommitInv` follows acknowledgements: an entry of a leader's
  own term is safe with any `Q` whose members have acknowledged it, in `matchIndex` or
  by an answer under way, or are not past the leader's term and still may (`AcksSafe`);
  what a peer takes for committed, and what a leader says is, lies within a final
  log (`Covered`); and what an applier has copied and a service has applied is final at its index
  (`Applied`). It rests on `BaseInv`: terms grow along a log, what a leader sends is part of
  its log, its `nextIndex` and `matchIndex` are within it, candidates ask with the log they have.
  The proof goes by the shape of a step: each action is shown to move each peer and each
  call in one of a few ways (`StepShape`), and the invariants are preserved by any
  step of that shape. A peculiarity of the code matters: `updateCommitIndex` takes
  the middle of the sorted match indices, which with an even number of peers is reached by one
  peer less than a majority; `Commits` says just what is needed, that such a set meets every
  majority of voters.
* `CommittedStays` (`CommittedIsStable`): the same, and without crashes (`MaxCrashes = 0`),
  since a restart takes `commitIndex` back.
* `CommandsComeInOrder` (`AppliedInOrder`): without snapshots no service receives a command
  out of order (`InOrder`: a service is where its applier is). It needs that `None` is not
  itself a batch. So the violation that `Raft_apply_order.cfg` shows needs a snapshot.
* `ShortLogsAreWhole`, `ShortLogsAgree`: with fewer commands than `SnapShotInterval` the hypothesis
  `[]NoSnapshot` holds in every behaviour, since a log is no longer than the number of
  commands passed to leaders (`Fits`), and all of the above with it.

`ShardCfgProofs` (any shards and groups): `RebalanceBalances` (`SuccessIsBalanced`) and
`RebalanceIsFrugal` (`OnlyNeededMoves`). The invariant says how far
Rebalance has come (`LoopsDone`) and what its loops keep while they work on what was
balanced before (`StayBalanced`): the old groups stay balanced among themselves, none
that joined gets two shards more than another, and each shard moved had to be. It rests
on lemmas about the sizes of finite sets and the least and most loaded group.

`KVTestProofs` (any clients, servers and bounds; nothing is assumed of the store, so that
histories that are not legal and counts that are wrong are included):

* `FaultsAreShown` (`FaultShown`). The Partitioner is gone before main touches the servers
  and a fault is over before the next begins (`FaultsApart`), and between an operation and its
  annotation the fault before is still shown (`OneBehind`). Both are needed: that
  `AnnotateRestartAll` ends the fault depends on `crashed`, which is set by an earlier annotation.
* `FilesAreLeft` (`FileLeft`). `FileInv` follows the file through the program: nothing done
  (`Pristine`), drawn with the last history (`Drawn`), or given up, with what each failed
  check leaves for `Cleanup` (`GivenUp`). In the run only sizes and time fail, since the store
  is correct; the theorem covers all four.

Only model-checked:

* liveness, and deadlock freedom: out of the prover's reach;
* Raft with snapshots, except for `OneLeaderPerTerm`: slots of a log then no longer are
  indices, and what `InstallSnapshot` brings is known to be committed only by what the
  service had applied, so every invariant about logs has to speak of histories instead;
* the properties of `ServerGrp`: its operations are lists of steps made by sorting and
  flattening, about which only induction over data could say something;
* `TestsPass`, `PutsCounted`, `AppendShape` of `KVTest`: sums and filters over histories,
  likewise.

## 5. Plan

Done: MapReduce, key/value, lock, Raft with persistence and snapshots, shard
configurations, the network and the tester, the demultiplexer, the test library with
its annotations; proofs for all but the network and the tester. Next:

1. Proofs: Raft with snapshots. Each peer's log would be extended by the entries its
   snapshot stands for, kept as a history, and `LogInv` and `CommitInv` restated about these whole
   logs; `Covered` then says that a snapshot is final, which is what `InstallSnapshot` and
   the skip in `AppendEntries` rely on.
2. The raft tests (`raft1/test.go`): what `checkOneLeader`, `nCommitted` and `one` may
   conclude while servers are cut off.
3. `MRData`: partitioning, sorting and grouping of pairs against `mrsequential`.

Not modelled, and why: the texts, points and intervals of annotations (nothing depends
on them), the drivers of the MapReduce and Raft tests (their assertions are the
properties), labgob (a checking wrapper), the skeletons of `kvraft1` and `shardkv1`
(nothing to model), several keys in the test library (clients on different keys do
not meet), the sizes of logs and snapshots, real time, map and reduce functions
(pure), net/rpc, gob and the file system beyond what the worker's code relies on.
