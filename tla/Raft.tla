-------------------------------- MODULE Raft --------------------------------
(***************************************************************************)
(* A group of Raft peers (raft1/raft.go), each with the service that reads *)
(* its applyCh (raft1/server.go) and its persister, over labrpc.           *)
(*                                                                         *)
(* One action is one critical section of rf.mu, one rendezvous on applyCh  *)
(* or one step of the network.  The goroutines of a peer interleave: the   *)
(* ticker, a replicator per other peer, the applier, the batch persister,  *)
(* the handlers and the goroutines that wait for a Call to return.         *)
(* A Call in progress is a member of calls; it fails at any time.          *)
(***************************************************************************)
EXTENDS RaftPeer

CONSTANTS
    Electable,         \* peers whose election timer may fire
    MaxTerm,           \* bound: no election is started in a higher term
    Appliers,          \* peers whose applier gets to run
    Savers,            \* peers whose batch persister gets to run
    MaxCalls,          \* bound: calls in progress at which no replicator sends
    MaxCrashes,        \* bound: crashes in a behaviour
    CrashesWhenSaved,  \* do crashes only meet peers with nothing unsaved?
    SnapShotInterval   \* the service snapshots at index k when it divides k + 1

ASSUME RaftAssumption ==
    /\ Electable \subseteq Server
    /\ Appliers \subseteq Server /\ Savers \subseteq Server
    /\ MaxTerm \in Nat /\ MaxCrashes \in Nat
    /\ MaxCalls \in Nat /\ SnapShotInterval \in Nat \ {0}
    /\ CrashesWhenSaved \in BOOLEAN

VARIABLES
    rf,       \* each peer's struct Raft
    disk,     \* each peer's Persister: what Save stored last
    saving,   \* what the batch persister has encoded and not yet saved, or None
    batch,    \* what the applier has copied and not yet sent, or None
    srv,      \* each peer's rfsrv
    calls,    \* the Calls in progress
    started,  \* commands that clients have passed to a leader
    crashes   \* how many crashes there have been

vars == <<rf, disk, saving, batch, srv, calls, started, crashes>>

\* latest is seq = rf.sendSeq[server] of an AppendEntries call; reply is None until
\* the handler returns; from is None when the caller has crashed; pending says that
\* an InstallSnapshot handler is between its two critical sections: "send" before
\* the rendezvous on applyCh, "sent" after it.
Call(rpc, from, to, args) ==
    [rpc |-> rpc, from |-> from, to |-> to, args |-> args,
     reply |-> None, latest |-> TRUE, pending |-> "no"]

\* rfsrv: the log it has applied, and the snapshot it is about to pass to Raft.
\* err is set when it has reported an error to the tester.
MakeService(snapshot) ==
    [log |-> snapshot, lastApplied |-> Len(snapshot), snap |-> 0, err |-> FALSE]

Init ==
    /\ rf = [i \in Server |-> Make(Bootstrap)]
    /\ disk = [i \in Server |-> Bootstrap]
    /\ saving = [i \in Server |-> None]
    /\ batch = [i \in Server |-> None]
    /\ srv = [i \in Server |-> MakeService(<< >>)]
    /\ calls = {}
    /\ started = {}
    /\ crashes = 0

-----------------------------------------------------------------------------
(* Calls.                                                                   *)

\* A handler has returned: the reply travels to the caller, if there still is one.
Replied(c, reply) ==
    (calls \ {c}) \union (IF c.from = None THEN {}
                          ELSE {[c EXCEPT !.reply = reply, !.pending = "no"]})

\* Call returns false: the request, the reply or the connection is lost.  A handler
\* that has begun goes on, and nobody reads its reply.
CallFails(c) ==
    /\ c \in calls /\ c.from # None
    /\ rf' = IF c.rpc = "AppendEntries"
             THEN [rf EXCEPT ![c.from] =
                     sendAndHandle(@, c.from, c.to, c.args, c.latest, FALSE, None)]
             ELSE rf
    /\ calls' = (calls \ {c}) \union (IF c.pending = "no" THEN {}
                                      ELSE {[c EXCEPT !.from = None]})
    /\ UNCHANGED <<disk, saving, batch, srv, started, crashes>>

-----------------------------------------------------------------------------
(* Elections: the ticker, RequestVote and the closure that counts votes.    *)

attemptElection(i) ==
    LET r == startElectionState(rf[i], i)
    IN /\ i \in Electable /\ rf[i].currentTerm < MaxTerm
       /\ rf[i].state # "LEADER"
       /\ rf' = [rf EXCEPT ![i] = r]
       /\ calls' = calls \union {Call("RequestVote", i, j, RequestVoteArgs(r, i)) :
                                   j \in Server \ {i}}
       /\ UNCHANGED <<disk, saving, batch, srv, started, crashes>>

HandleRequestVote(c) ==
    LET h == RequestVote(rf[c.to], c.args)
    IN /\ c \in calls /\ c.rpc = "RequestVote" /\ c.reply = None
       /\ rf' = [rf EXCEPT ![c.to] = h.rf]
       /\ calls' = Replied(c, h.reply)
       /\ UNCHANGED <<disk, saving, batch, srv, started, crashes>>

CountVote(c) ==
    /\ c \in calls /\ c.rpc = "RequestVote" /\ c.reply # None
    /\ rf' = [rf EXCEPT ![c.from] = handleVoteReply(@, c.from, c.to, c.args, c.reply)]
    /\ calls' = calls \ {c}
    /\ UNCHANGED <<disk, saving, batch, srv, started, crashes>>

-----------------------------------------------------------------------------
(* Replication: Start, the replicators, AppendEntries and its replies.      *)

ClientStart(i, command) ==
    /\ rf[i].state = "LEADER" /\ command \notin started
    /\ rf' = [rf EXCEPT ![i] = Start(@, i, command)]
    /\ started' = started \union {command}
    /\ UNCHANGED <<disk, saving, batch, srv, calls, crashes>>

InFlight(i, j, rpc) == {c \in calls : c.rpc = rpc /\ c.from = i /\ c.to = j}

\* The replicator waits while its own InstallSnapshot call is in progress.
MaySend(i, j) ==
    /\ i # j /\ rf[i].state = "LEADER"
    /\ InFlight(i, j, "InstallSnapshot") = {}
    /\ Cardinality(calls) < MaxCalls

SendAppendEntries(i, j) ==
    LET old == InFlight(i, j, "AppendEntries")
    IN /\ MaySend(i, j) /\ rf[i].nextIndex[j] > rf[i].snapshotIndex
       /\ calls' = (calls \ old) \union {[c EXCEPT !.latest = FALSE] : c \in old}
                     \union {Call("AppendEntries", i, j, AppendEntriesArgs(rf[i], j))}
       /\ rf' = [rf EXCEPT ![i].inFlight[j] = TRUE]
       /\ UNCHANGED <<disk, saving, batch, srv, started, crashes>>

HandleAppendEntries(c) ==
    LET h == AppendEntries(rf[c.to], c.args)
    IN /\ c \in calls /\ c.rpc = "AppendEntries" /\ c.reply = None
       /\ rf' = [rf EXCEPT ![c.to] = h.rf]
       /\ calls' = Replied(c, h.reply)
       /\ UNCHANGED <<disk, saving, batch, srv, started, crashes>>

AppendEntriesReturns(c) ==
    /\ c \in calls /\ c.rpc = "AppendEntries" /\ c.reply # None
    /\ rf' = [rf EXCEPT ![c.from] =
                sendAndHandle(@, c.from, c.to, c.args, c.latest, TRUE, c.reply)]
    /\ calls' = calls \ {c}
    /\ UNCHANGED <<disk, saving, batch, srv, started, crashes>>

-----------------------------------------------------------------------------
(* InstallSnapshot, in two critical sections around a send on applyCh.      *)

SendInstallSnapshot(i, j) ==
    /\ MaySend(i, j) /\ rf[i].nextIndex[j] <= rf[i].snapshotIndex
    /\ calls' = calls \union {Call("InstallSnapshot", i, j, InstallSnapshotArgs(rf[i]))}
    /\ UNCHANGED <<rf, disk, saving, batch, srv, started, crashes>>

HandleInstallSnapshot(c) ==
    LET reply == [term |-> rf[c.to].currentTerm]
    IN /\ c \in calls /\ c.rpc = "InstallSnapshot" /\ c.reply = None
       /\ calls' = IF wantsSnapshot(rf[c.to], c.args)
                   THEN (calls \ {c}) \union
                          {[c EXCEPT !.reply = reply, !.pending = "send"]}
                   ELSE Replied(c, reply)
       /\ UNCHANGED <<rf, disk, saving, batch, srv, started, crashes>>

\* The service receives the snapshot (ingestSnap): it replaces the service's log.
ReceiveSnapshot(c) ==
    /\ c \in calls /\ c.pending = "send" /\ srv[c.to].snap = 0
    /\ srv' = [srv EXCEPT ![c.to].log = c.args.data,
                          ![c.to].lastApplied = Len(c.args.data)]
    /\ calls' = (calls \ {c}) \union {[c EXCEPT !.pending = "sent"]}
    /\ UNCHANGED <<rf, disk, saving, batch, started, crashes>>

FinishInstallSnapshot(c) ==
    /\ c \in calls /\ c.pending = "sent"
    /\ rf' = [rf EXCEPT ![c.to] = InstallSnapshot(@, c.args)]
    /\ calls' = Replied(c, c.reply)
    /\ UNCHANGED <<disk, saving, batch, srv, started, crashes>>

InstallSnapshotReturns(c) ==
    /\ c \in calls /\ c.rpc = "InstallSnapshot" /\ c.reply # None /\ c.pending = "no"
    /\ rf' = [rf EXCEPT ![c.from] = handleSnapshotReply(@, c.to, c.args, TRUE, c.reply)]
    /\ calls' = calls \ {c}
    /\ UNCHANGED <<disk, saving, batch, srv, started, crashes>>

-----------------------------------------------------------------------------
(* The applier copies committed entries under rf.mu, sends them one by one  *)
(* without it, and then takes it again.                                     *)

CopyBatch(i) ==
    LET r == rf[i]
        lo == Max({r.lastApplied, r.snapshotIndex}) + 1
    IN /\ i \in Appliers /\ batch[i] = None /\ r.lastApplied < r.commitIndex
       /\ batch' = [batch EXCEPT ![i] =
            [next |-> lo, hi |-> r.commitIndex,
             commands |-> [k \in lo .. r.commitIndex |-> At(r, k).command]]]
       /\ UNCHANGED <<rf, disk, saving, srv, calls, started, crashes>>

\* The service receives a command (applierSnap).  It reports one that is not the
\* next, and records it all the same.
ReceiveCommand(i) ==
    LET idx == batch[i].next
        log == srv[i].log
    IN /\ batch[i] # None /\ idx <= batch[i].hi /\ srv[i].snap = 0
       /\ srv' = [srv EXCEPT ![i] =
            [log |-> [k \in DOMAIN log \union {idx} |->
                        IF k = idx THEN batch[i].commands[idx] ELSE log[k]],
             lastApplied |-> idx,
             snap |-> IF (idx + 1) % SnapShotInterval = 0 THEN idx ELSE 0,
             err |-> @.err \/ idx # @.lastApplied + 1]]
       /\ batch' = [batch EXCEPT ![i].next = idx + 1]
       /\ UNCHANGED <<rf, disk, saving, calls, started, crashes>>

FinishBatch(i) ==
    /\ batch[i] # None /\ batch[i].next > batch[i].hi
    /\ rf' = [rf EXCEPT ![i].lastApplied = Max({@, batch[i].hi})]
    /\ batch' = [batch EXCEPT ![i] = None]
    /\ UNCHANGED <<disk, saving, srv, calls, started, crashes>>

\* The service passes its snapshot to Raft; an index it has no command for is nil.
TakeSnapshot(i) ==
    LET log == srv[i].log
        xlog == [k \in 1 .. srv[i].snap |-> IF k \in DOMAIN log THEN log[k] ELSE None]
    IN /\ srv[i].snap # 0
       /\ rf' = [rf EXCEPT ![i] = Snapshot(@, srv[i].snap, xlog)]
       /\ srv' = [srv EXCEPT ![i].snap = 0]
       /\ UNCHANGED <<disk, saving, batch, calls, started, crashes>>

-----------------------------------------------------------------------------
(* The batch persister encodes under rf.mu, saves without it, and then      *)
(* clears dirty.  A crash loses all but what is saved.                      *)

BeginSave(i) ==
    /\ i \in Savers /\ saving[i] = None /\ rf[i].dirty
    /\ saving' = [saving EXCEPT ![i] = encodeState(rf[i])]
    /\ UNCHANGED <<rf, disk, batch, srv, calls, started, crashes>>

EndSave(i) ==
    /\ saving[i] # None
    /\ disk' = [disk EXCEPT ![i] = saving[i]]
    /\ saving' = [saving EXCEPT ![i] = None]
    /\ rf' = [rf EXCEPT ![i].dirty = FALSE]
    /\ UNCHANGED <<batch, srv, calls, started, crashes>>

\* The process is killed and started again.  Its requests may still arrive.
CrashAndRestart(i) ==
    LET running(c) == c.reply = None \/ c.pending # "no"
        mine == {c \in calls : c.from = i}
        handling == {c \in calls : c.to = i /\ c.pending # "no"}
    IN /\ crashes < MaxCrashes
       /\ CrashesWhenSaved => encodeState(rf[i]) = disk[i]
       /\ rf' = [rf EXCEPT ![i] = Make(disk[i])]
       /\ srv' = [srv EXCEPT ![i] = [MakeService(disk[i].snapshot) EXCEPT !.err = srv[i].err]]
       /\ saving' = [saving EXCEPT ![i] = None]
       /\ batch' = [batch EXCEPT ![i] = None]
       /\ calls' = (calls \ (mine \union handling))
                     \union {[c EXCEPT !.from = None] : c \in {d \in mine : running(d)}}
       /\ crashes' = crashes + 1
       /\ UNCHANGED <<disk, started>>

-----------------------------------------------------------------------------
Next ==
    \/ \E i \in Server :
         \/ attemptElection(i)
         \/ \E command \in Command : ClientStart(i, command)
         \/ \E j \in Server : SendAppendEntries(i, j) \/ SendInstallSnapshot(i, j)
         \/ CopyBatch(i) \/ ReceiveCommand(i) \/ FinishBatch(i) \/ TakeSnapshot(i)
         \/ BeginSave(i) \/ EndSave(i) \/ CrashAndRestart(i)
    \/ \E c \in calls :
         \/ CallFails(c)
         \/ HandleRequestVote(c) \/ CountVote(c)
         \/ HandleAppendEntries(c) \/ AppendEntriesReturns(c)
         \/ HandleInstallSnapshot(c) \/ ReceiveSnapshot(c)
         \/ FinishInstallSnapshot(c) \/ InstallSnapshotReturns(c)

Spec == Init /\ [][Next]_vars

-----------------------------------------------------------------------------
(* Properties.                                                              *)

Index == 0 .. Cardinality(Command)
Snapshots == UNION {[1 .. k -> Command \union {None}] : k \in Index}

\* The types, and bounds on the indices; a log is never empty.
TypeOK ==
    /\ \A i \in Server :
         /\ rf[i].currentTerm \in 0 .. MaxTerm
         /\ rf[i].votedFor \in Server \union {None}
         /\ rf[i].state \in {"FOLLOWER", "CANDIDATE", "LEADER"}
         /\ rf[i].log \in Seq(Entry) /\ rf[i].log # << >>
         /\ rf[i].snapshotIndex \in Index /\ rf[i].snapshotTerm \in 0 .. MaxTerm
         /\ rf[i].snapshot \in Snapshots
         /\ rf[i].commitIndex \in Index /\ rf[i].lastApplied \in Index
         /\ rf[i].nextIndex \in [Server -> Nat] /\ rf[i].matchIndex \in [Server -> Index]
         /\ rf[i].inFlight \in [Server -> BOOLEAN] /\ rf[i].dirty \in BOOLEAN
         /\ rf[i].votes \subseteq Server
    /\ \A c \in calls : c.to \in Server /\ c.from \in Server \union {None}
    /\ started \subseteq Command
    /\ crashes \in 0 .. MaxCrashes

\* No term has two leaders: checkOneLeader in the tests asks exactly this.
ElectionSafety ==
    \A i, j \in Server :
      (/\ rf[i].state = "LEADER" /\ rf[j].state = "LEADER"
       /\ rf[i].currentTerm = rf[j].currentTerm) => i = j

Held(i) == rf[i].snapshotIndex + 1 .. LastIndex(rf[i])

\* Two logs that agree on the term of an entry agree on it and on every entry
\* before it that both still hold.
LogMatching ==
    \A i, j \in Server : \A k \in Held(i) \intersect Held(j) :
      At(rf[i], k).term = At(rf[j], k).term =>
        \A m \in Held(i) \intersect Held(j) :
          m <= k => At(rf[i], m) = At(rf[j], m)

\* A leader has every entry that any peer of its term or an earlier one knows to
\* be committed: the vote's log comparison and the commit rule together.
LeaderCompleteness ==
    \A i, j \in Server : \A k \in Held(i) :
      (/\ rf[j].state = "LEADER" /\ rf[j].currentTerm >= rf[i].currentTerm
       /\ k <= rf[i].commitIndex) =>
        /\ k <= LastIndex(rf[j])
        /\ k \in Held(j) => At(rf[j], k) = At(rf[i], k)

\* No two services apply different commands at one index: CheckLogs in the tests.
StateMachineSafety ==
    \A i, j \in Server : \A k \in DOMAIN srv[i].log \intersect DOMAIN srv[j].log :
      srv[i].log[k] = srv[j].log[k]

\* The indices every slice expression of the peer relies on: the snapshot ends
\* where snapshotIndex says, nothing is applied before it is committed, committed
\* entries are in the log, and a leader's nextIndex is after what it knows matches.
IndicesInOrder ==
    \A i \in Server :
      /\ rf[i].snapshotIndex = Len(rf[i].snapshot)
      /\ rf[i].snapshotTerm = rf[i].log[1].term
      /\ rf[i].snapshotIndex <= rf[i].commitIndex
      /\ rf[i].lastApplied <= rf[i].commitIndex
      /\ rf[i].commitIndex <= LastIndex(rf[i])
      /\ rf[i].state = "LEADER" => \A j \in Server \ {i} :
           rf[i].matchIndex[j] < rf[i].nextIndex[j] /\ rf[i].nextIndex[j] <= LogEnd(rf[i])

\* A peer never takes back or changes what it has committed, and its term only
\* grows, as long as it runs.
CommittedIsStable ==
    [][\A i \in Server :
         /\ rf'[i].currentTerm >= rf[i].currentTerm
         /\ rf'[i].commitIndex >= rf[i].commitIndex
         /\ \A k \in Held(i) : k <= rf[i].commitIndex =>
              \/ k <= rf'[i].snapshotIndex
              \/ k <= LastIndex(rf'[i]) /\ At(rf'[i], k) = At(rf[i], k)]_rf

\* When the persister has nothing left to do, everything is saved: "save Raft's
\* persistent state to stable storage" (raft.go:98).
CleanMeansSaved ==
    \A i \in Server :
      ~rf[i].dirty /\ saving[i] = None => disk[i] = encodeState(rf[i])

\* A service receives the commands in order: it reports "apply out of order"
\* otherwise (server.go:139-141).
AppliedInOrder == \A i \in Server : ~srv[i].err

\* A leader's matchIndex is an index the peer's log has reached (Figure 2 of the
\* Raft paper, which raft.go:47-48 refers to).
MatchIsReached ==
    \A i, j \in Server :
      (i # j /\ rf[i].state = "LEADER" /\ rf[j].currentTerm = rf[i].currentTerm) =>
        rf[i].matchIndex[j] <= LastIndex(rf[j])
=============================================================================
