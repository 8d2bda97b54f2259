------------------------------ MODULE RaftPeer ------------------------------
(***************************************************************************)
(* The code of one Raft peer (raft1/raft.go) as functions of its state.    *)
(* Each of them runs under rf.mu.  A peer's state is a record with the     *)
(* fields of struct Raft; log is 1-based here, so slot k of the Go slice   *)
(* is log[k + 1], and log[1] is the entry at snapshotIndex, of which only  *)
(* the term counts.  lastSent, electionTimeout and the condition variables *)
(* are left out: a timer may fire, and a waiter run, at any time.          *)
(***************************************************************************)
EXTENDS Integers, Sequences, FiniteSets, FiniteSetsExt

CONSTANTS
    Server,   \* the peers
    Command,  \* what clients pass to Start
    None      \* no vote (-1), no command (nil)

ASSUME PeerAssumption ==
    /\ IsFiniteSet(Server) /\ Server # {}
    /\ None \notin Server /\ None \notin Command

Entry == [term : Nat, command : Command \union {None}]

-----------------------------------------------------------------------------
(* Indices of the log.                                                      *)

\* absIdx(len(rf.log)): the first index after the log.
LogEnd(r) == r.snapshotIndex + Len(r.log)
LastIndex(r) == LogEnd(r) - 1
\* rf.log[relIdx(idx)]
At(r, idx) == r.log[idx - r.snapshotIndex + 1]
\* The entries from idx on.
From(r, idx) == SubSeq(r.log, idx - r.snapshotIndex + 1, Len(r.log))
LastTerm(r) == r.log[Len(r.log)].term

-----------------------------------------------------------------------------
(* What a peer saves, and how it starts.                                    *)

\* Mutant: the vote is not saved.
encodeStateNoVote(r) ==
    [currentTerm   |-> r.currentTerm,
     votedFor      |-> None,
     log           |-> r.log,
     snapshotIndex |-> r.snapshotIndex,
     snapshotTerm  |-> r.snapshotTerm,
     snapshot      |-> r.snapshot]

\* Mutant: the log is saved only through the snapshot.
encodeStateNoLog(r) ==
    [currentTerm   |-> r.currentTerm,
     votedFor      |-> r.votedFor,
     log           |-> SubSeq(r.log, 1, 1),
     snapshotIndex |-> r.snapshotIndex,
     snapshotTerm  |-> r.snapshotTerm,
     snapshot      |-> r.snapshot]

encodeState(r) ==
    [currentTerm   |-> r.currentTerm,
     votedFor      |-> r.votedFor,
     log           |-> r.log,
     snapshotIndex |-> r.snapshotIndex,
     snapshotTerm  |-> r.snapshotTerm,
     snapshot      |-> r.snapshot]

\* An empty persister and what Make starts from without one are the same.
Bootstrap ==
    [currentTerm   |-> 0,
     votedFor      |-> None,
     log           |-> << [term |-> 0, command |-> None] >>,
     snapshotIndex |-> 0,
     snapshotTerm  |-> 0,
     snapshot      |-> << >>]

\* Make with readPersist: everything but the saved fields starts over.
Make(saved) ==
    [currentTerm   |-> saved.currentTerm,
     votedFor      |-> saved.votedFor,
     log           |-> saved.log,
     snapshotIndex |-> saved.snapshotIndex,
     snapshotTerm  |-> saved.snapshotTerm,
     snapshot      |-> saved.snapshot,
     state         |-> "FOLLOWER",
     commitIndex   |-> saved.snapshotIndex,
     lastApplied   |-> saved.snapshotIndex,
     nextIndex     |-> [s \in Server |-> saved.snapshotIndex + Len(saved.log)],
     matchIndex    |-> [s \in Server |-> 0],
     inFlight      |-> [s \in Server |-> FALSE],
     votes         |-> {},
     dirty         |-> FALSE]

-----------------------------------------------------------------------------
(* Elections.                                                               *)

stepDownToFollower(r, term) ==
    IF term > r.currentTerm
    THEN [r EXCEPT !.currentTerm = term, !.votedFor = None,
                   !.dirty = TRUE, !.state = "FOLLOWER"]
    ELSE [r EXCEPT !.state = "FOLLOWER"]

startElectionState(r, me) ==
    [r EXCEPT !.state = "CANDIDATE", !.currentTerm = @ + 1,
              !.votedFor = me, !.votes = {me}, !.dirty = TRUE]

RequestVoteArgs(r, me) ==
    [term |-> r.currentTerm, candidateId |-> me,
     lastLogIndex |-> LastIndex(r), lastLogTerm |-> LastTerm(r)]

\* Mutant: an earlier vote in the same term does not count.
mayVoteTwice(votedFor, candidate) == TRUE

mayVote(votedFor, candidate) == votedFor \in {None, candidate}

\* Mutant: only the terms of the last entries are compared.
upToDateTerm(r, args) == args.lastLogTerm >= LastTerm(r)

upToDate(r, args) ==
    \/ args.lastLogTerm > LastTerm(r)
    \/ args.lastLogTerm = LastTerm(r) /\ args.lastLogIndex >= LastIndex(r)

\* The new state and the reply.
RequestVote(r, args) ==
    LET s == IF args.term > r.currentTerm
             THEN stepDownToFollower(r, args.term) ELSE r
        granted == /\ args.term >= r.currentTerm
                   /\ mayVote(s.votedFor, args.candidateId)
                   /\ upToDate(r, args)
    IN [rf |-> IF granted
               THEN [s EXCEPT !.votedFor = args.candidateId, !.dirty = TRUE]
               ELSE s,
        reply |-> [term |-> s.currentTerm, voteGranted |-> granted]]

\* Becoming leader: matchIndex[me] is written too, the others start at 0.
becomeLeader(r, me) ==
    [r EXCEPT !.state = "LEADER",
              !.nextIndex = [s \in Server |-> IF s = me THEN @[s] ELSE LogEnd(r)],
              !.matchIndex = [s \in Server |-> IF s = me THEN LastIndex(r) ELSE 0],
              !.inFlight = [s \in Server |-> IF s = me THEN @[s] ELSE FALSE]]

\* The closure in attemptElection that takes a reply.  votes is the set of the
\* peers counted: each peer is asked once in a term.
handleVoteReply(r, me, voter, args, reply) ==
    LET counted == IF reply.voteGranted THEN r.votes \union {voter} ELSE r.votes
        s == [r EXCEPT !.votes = counted]
    IN IF r.currentTerm # args.term \/ r.state # "CANDIDATE" THEN r
       ELSE IF reply.term > r.currentTerm THEN stepDownToFollower(r, reply.term)
       ELSE IF Cardinality(counted) > Cardinality(Server) \div 2
       THEN becomeLeader(s, me)
       ELSE s

-----------------------------------------------------------------------------
(* Replication.                                                             *)

\* matches[len(rf.peers)/2] of the sorted match indices: the highest index that
\* this many peers have reached.
majorityIndex(match) ==
    LET n == Cardinality(Server)
    IN Max({k \in {match[s] : s \in Server} :
              Cardinality({s \in Server : match[s] >= k}) >= n - n \div 2})

updateCommitIndex(r, me) ==
    LET k == majorityIndex([r.matchIndex EXCEPT ![me] = LastIndex(r)])
    IN IF /\ k > r.commitIndex /\ k > r.snapshotIndex
          /\ At(r, k).term = r.currentTerm
       THEN [r EXCEPT !.commitIndex = k]
       ELSE r

Start(r, me, command) ==
    [r EXCEPT !.log = Append(@, [term |-> r.currentTerm, command |-> command]),
              !.matchIndex[me] = LogEnd(r),
              !.dirty = TRUE]

\* A heartbeat sent while another call is in flight carries no entries.
AppendEntriesArgs(r, server) ==
    LET prev == r.nextIndex[server] - 1
    IN [term |-> r.currentTerm, prevLogIndex |-> prev,
        prevLogTerm |-> At(r, prev).term,
        entries |-> IF r.inFlight[server] THEN << >> ELSE From(r, prev + 1),
        leaderCommit |-> r.commitIndex]

\* Mutant: the entries are appended without looking at the log.
appendedBlindly(r, prev, entries) == r.log \o entries

\* The log after the loop over args.Entries: from the first entry that is beyond
\* the log or differs in its term, the entries replace the rest of it.
appended(r, prev, entries) ==
    LET new == {m \in 1 .. Len(entries) :
                  \/ prev + m > LastIndex(r)
                  \/ At(r, prev + m).term # entries[m].term}
        keep == prev - r.snapshotIndex
    IN IF new = {} THEN r.log
       ELSE SubSeq(r.log, 1, keep + Min(new))
              \o SubSeq(entries, Min(new), Len(entries))

\* Mutant: a leader that knows less takes the commit index back.
followerCommitBack(r, leaderCommit, last) == Min({leaderCommit, last})

\* commitIndex after an AppendEntries whose entries end at last.
followerCommit(r, leaderCommit, last) ==
    Max({r.commitIndex, Min({leaderCommit, last})})

\* The first index of the run of entries of prev's term that ends at prev.
conflictingIndex(r, prev) ==
    Min({k \in r.snapshotIndex .. prev :
           \A j \in k .. prev : At(r, j).term = At(r, prev).term})

\* A reply that only carries a term, or success; -1 stands for no conflict.
PlainReply(term, success) ==
    [term |-> term, success |-> success, conflictingTerm |-> -1,
     conflictingIndex |-> -1, conflictingLogLen |-> -1]

AppendEntries(r, args) ==
    LET s == IF args.term > r.currentTerm \/ r.state = "CANDIDATE"
             THEN stepDownToFollower(r, args.term) ELSE r
        skip == Max({0, r.snapshotIndex - args.prevLogIndex})
        prev == args.prevLogIndex + skip
        prevTerm == IF skip > 0 THEN r.snapshotTerm ELSE args.prevLogTerm
        entries == SubSeq(args.entries, skip + 1, Len(args.entries))
        newLog == appended(s, prev, entries)
        fail == PlainReply(s.currentTerm, FALSE)
    IN IF args.term < r.currentTerm
       THEN [rf |-> r, reply |-> PlainReply(r.currentTerm, FALSE)]
       ELSE IF skip > Len(args.entries)
       THEN [rf |-> s, reply |-> PlainReply(s.currentTerm, TRUE)]
       ELSE IF prev > LastIndex(s)
       THEN [rf |-> s, reply |-> [fail EXCEPT !.conflictingLogLen = LogEnd(s)]]
       ELSE IF At(s, prev).term # prevTerm
       THEN [rf |-> s,
             reply |-> [fail EXCEPT !.conflictingTerm = At(s, prev).term,
                                    !.conflictingIndex = conflictingIndex(s, prev)]]
       ELSE [rf |-> [s EXCEPT !.log = newLog,
                              !.dirty = @ \/ newLog # s.log,
                              !.commitIndex = followerCommit(s, args.leaderCommit,
                                                prev + Len(entries))],
             reply |-> PlainReply(s.currentTerm, TRUE)]

\* Where the leader looks next after a conflict.
backedUp(r, reply) ==
    LET same == {k \in r.snapshotIndex + 1 .. LastIndex(r) :
                   At(r, k).term = reply.conflictingTerm}
    IN IF reply.conflictingLogLen # -1 THEN reply.conflictingLogLen
       ELSE IF same = {} THEN reply.conflictingIndex
       ELSE Max(same) + 1

handleAppendEntriesResponse(r, me, server, args, reply) ==
    LET match == args.prevLogIndex + Len(args.entries)
        s == IF match > r.matchIndex[server]
             THEN updateCommitIndex([r EXCEPT !.matchIndex[server] = match], me)
             ELSE r
        floor == r.matchIndex[server] + 1
    IN IF reply.term > r.currentTerm THEN stepDownToFollower(r, reply.term)
       ELSE IF reply.success
       THEN [s EXCEPT !.nextIndex[server] = Max({@, s.matchIndex[server] + 1})]
       ELSE IF args.prevLogIndex + 1 # r.nextIndex[server] THEN r
       ELSE [r EXCEPT !.nextIndex[server] = Max({backedUp(r, reply), floor, 1})]

\* sendAndHandle after Call has returned; latest says that no later AppendEntries
\* has been sent to the same peer (seq = rf.sendSeq[server]).
sendAndHandle(r, me, server, args, latest, ok, reply) ==
    LET s == IF latest THEN [r EXCEPT !.inFlight[server] = FALSE] ELSE r
    IN IF ~ok \/ s.state # "LEADER" \/ s.currentTerm # args.term THEN s
       ELSE handleAppendEntriesResponse(s, me, server, args, reply)

-----------------------------------------------------------------------------
(* Snapshots.                                                               *)

\* The service has a snapshot of the log through index.
Snapshot(r, index, snapshot) ==
    IF index <= r.snapshotIndex \/ index > LastIndex(r) THEN r
    ELSE [r EXCEPT !.snapshot = snapshot, !.snapshotIndex = index,
                   !.snapshotTerm = At(r, index).term,
                   !.log = From(r, index), !.dirty = TRUE]

InstallSnapshotArgs(r) ==
    [term |-> r.currentTerm, lastIncludedIndex |-> r.snapshotIndex,
     lastIncludedTerm |-> r.snapshotTerm, data |-> r.snapshot]

\* The first critical section: is the snapshot to be sent on applyCh?
wantsSnapshot(r, args) ==
    args.term >= r.currentTerm /\ r.snapshotIndex < args.lastIncludedIndex

\* Mutant: the entries the snapshot covers stay in the log.
retainedAll(r, args) ==
    IF /\ args.lastIncludedIndex <= LastIndex(r)
       /\ At(r, args.lastIncludedIndex).term = args.lastIncludedTerm
    THEN r.log
    ELSE << [term |-> args.lastIncludedTerm, command |-> None] >>

\* The log that is left: what follows the snapshot, if the log has its last entry.
retained(r, args) ==
    IF /\ args.lastIncludedIndex <= LastIndex(r)
       /\ At(r, args.lastIncludedIndex).term = args.lastIncludedTerm
    THEN From(r, args.lastIncludedIndex)
    ELSE << [term |-> args.lastIncludedTerm, command |-> None] >>

\* Mutant: commitIndex is not moved to the snapshot.
InstallSnapshotForgets(r, args) ==
    LET last == args.lastIncludedIndex
    IN IF r.snapshotIndex >= last THEN r
       ELSE [r EXCEPT !.log = retained(r, args),
                      !.snapshot = args.data,
                      !.snapshotIndex = last,
                      !.snapshotTerm = args.lastIncludedTerm,
                      !.lastApplied = Max({@, last}),
                      !.dirty = TRUE]

\* The second critical section, after the send.
InstallSnapshot(r, args) ==
    LET last == args.lastIncludedIndex
    IN IF r.snapshotIndex >= last THEN r
       ELSE [r EXCEPT !.log = retained(r, args),
                      !.snapshot = args.data,
                      !.snapshotIndex = last,
                      !.snapshotTerm = args.lastIncludedTerm,
                      !.commitIndex = Max({@, last}),
                      !.lastApplied = Max({@, last}),
                      !.dirty = TRUE]

\* The replicator after the call has returned.
handleSnapshotReply(r, server, args, ok, reply) ==
    IF ~ok \/ r.state # "LEADER" \/ r.currentTerm # args.term THEN r
    ELSE IF reply.term > r.currentTerm THEN stepDownToFollower(r, reply.term)
    ELSE [r EXCEPT !.nextIndex[server] = Max({@, r.snapshotIndex + 1}),
                   !.matchIndex[server] = Max({@, r.snapshotIndex})]
=============================================================================
