---------------------------- MODULE RaftProofs ----------------------------
(***************************************************************************)
(* For any number of peers, commands, terms, calls and crashes, as long as *)
(* a peer that crashes has saved its state: no term has two leaders; and   *)
(* logs match in every behaviour in which no peer has discarded a part of  *)
(* its log.                                                                *)
(***************************************************************************)
EXTENDS Raft, FiniteSetTheorems, SequenceTheorems, WellFoundedInduction, TLAPS

-----------------------------------------------------------------------------
(* Elections: the inductive invariant.                                      *)

PeerFields ==
    {"currentTerm", "votedFor", "log", "snapshotIndex", "snapshotTerm", "snapshot", "state",
     "commitIndex", "lastApplied", "nextIndex", "matchIndex", "inFlight", "votes", "dirty"}
CallFields == {"rpc", "from", "to", "args", "reply", "latest", "pending"}

\* The fields of a peer that elections read or write.
PeerOK(r) ==
    /\ DOMAIN r = PeerFields
    /\ r.currentTerm \in Nat /\ r.votedFor \in Server \union {None}
    /\ r.state \in {"FOLLOWER", "CANDIDATE", "LEADER"} /\ r.votes \subseteq Server

CallOK(c) ==
    /\ DOMAIN c = CallFields
    /\ c.to \in Server /\ c.from \in Server \union {None}
    /\ c.args.term \in Nat
    /\ c.reply # None => c.reply.term \in Nat

\* A reply to a RequestVote is read by the candidate that asked for it.
Asks(c) ==
    c.rpc = "RequestVote" =>
        /\ c.args.candidateId \in Server
        /\ c.from \in {None, c.args.candidateId}
        /\ c.reply # None => c.from # None
        /\ c.pending = "no"

ElectionTypes ==
    /\ rf = [i \in Server |-> rf[i]]
    /\ \A i \in Server : PeerOK(rf[i])
    /\ \A c \in calls : CallOK(c) /\ Asks(c)

\* v's vote for i in term t is on its way to i, or i has counted it.
GrantOnItsWay(v, i, t) ==
    \E c \in calls :
        /\ c.rpc = "RequestVote" /\ c.args.candidateId = i /\ c.args.term = t
        /\ c.to = v /\ c.reply # None /\ c.reply.voteGranted
GrantCounted(v, i, t) ==
    rf[i].currentTerm = t /\ rf[i].state \in {"CANDIDATE", "LEADER"} /\ v \in rf[i].votes
Granted(v, i, t) == GrantOnItsWay(v, i, t) \/ GrantCounted(v, i, t)

\* A peer that granted a vote still stands by it, or has left the term.
GrantsHonoured ==
    \A v, i \in Server, t \in Nat :
        Granted(v, i, t) =>
            \/ t < rf[v].currentTerm
            \/ t = rf[v].currentTerm /\ rf[v].votedFor = i

\* Nobody grants two votes in a term.
GrantsUnique ==
    \A v, i, j \in Server, t \in Nat : Granted(v, i, t) /\ Granted(v, j, t) => i = j

\* A leader has counted the votes of a majority.
LeaderElected ==
    \A i \in Server :
        rf[i].state = "LEADER" => Cardinality(rf[i].votes) > Cardinality(Server) \div 2

ElectionInv == ElectionTypes /\ GrantsHonoured /\ GrantsUnique /\ LeaderElected

\* What a step does to a peer's term and role: terms only grow, a vote is not taken
\* back within a term, and only a candidate of the term becomes its leader.
PeerStep(r, s) ==
    /\ s.currentTerm >= r.currentTerm
    /\ s.currentTerm = r.currentTerm => s.votedFor = r.votedFor \/ r.votedFor = None
    /\ s.currentTerm = r.currentTerm /\ s.state = "CANDIDATE" => r.state = "CANDIDATE"
    /\ s.state = "LEADER" => /\ r.state \in {"CANDIDATE", "LEADER"}
                             /\ s.currentTerm = r.currentTerm

\* Votes are granted in the current term only.
ElectionStep ==
    /\ \A v, i \in Server, t \in Nat :
         Granted(v, i, t)' => Granted(v, i, t) \/ t = rf'[v].currentTerm
    /\ \A v \in Server : PeerStep(rf[v], rf'[v])

-----------------------------------------------------------------------------
LEMMA ConstantsOK == None \notin Server /\ IsFiniteSet(Server)
  BY PeerAssumption DEF PeerAssumption

\* Two majorities of the peers share a peer.
LEMMA MajoritiesMeet ==
    ASSUME NEW P, NEW Q, P \subseteq Server, Q \subseteq Server,
           Cardinality(P) > Cardinality(Server) \div 2,
           Cardinality(Q) > Cardinality(Server) \div 2
    PROVE  \E v \in Server : v \in P /\ v \in Q
<1> SUFFICES ASSUME P \cap Q = {} PROVE FALSE
  OBVIOUS
<1>1. IsFiniteSet(Server) /\ IsFiniteSet(P) /\ IsFiniteSet(Q)
  BY ConstantsOK, FS_Subset
<1>2. IsFiniteSet(P \cup Q) /\ Cardinality(P \cup Q) = Cardinality(P) + Cardinality(Q) - Cardinality(P \cap Q)
  BY <1>1, FS_Union
<1>3. Cardinality(P \cap Q) = 0
  BY FS_EmptySet
<1>4. Cardinality(P \cup Q) <= Cardinality(Server)
  BY <1>1, FS_Subset
<1>5. Cardinality(Server) \in Nat /\ Cardinality(P) \in Nat /\ Cardinality(Q) \in Nat
  BY <1>1, FS_CardinalityType
<1> QED
  BY <1>2, <1>3, <1>4, <1>5

\* A step of a peer that is not about its own votes: its term stays, or it is a
\* follower in a later one.
Calm(r, s) ==
    /\ PeerOK(s)
    /\ \/ /\ s.currentTerm = r.currentTerm /\ s.votedFor = r.votedFor
          /\ s.state = "FOLLOWER" \/ (s.state = r.state /\ s.votes = r.votes)
       \/ s.currentTerm > r.currentTerm /\ s.state = "FOLLOWER"

LEMMA StepDownCalm ==
    ASSUME NEW r, PeerOK(r), NEW term \in Nat
    PROVE  /\ Calm(r, stepDownToFollower(r, term))
           /\ stepDownToFollower(r, term).state = "FOLLOWER"
           /\ term > r.currentTerm => /\ stepDownToFollower(r, term).currentTerm = term
                                      /\ stepDownToFollower(r, term).votedFor = None
  BY DEF PeerOK, PeerFields, Calm, stepDownToFollower

LEMMA ReplicationCalm ==
    ASSUME NEW r, PeerOK(r)
    PROVE  /\ Calm(r, r)
           /\ \A args, s : AppendEntries(r, args).rf = s /\ args.term \in Nat => Calm(r, s)
           /\ \A me, command : Calm(r, Start(r, me, command))
           /\ \A me : Calm(r, updateCommitIndex(r, me))
<1>1. Calm(r, r)
  BY DEF Calm
<1>2. ASSUME NEW args, args.term \in Nat PROVE Calm(r, AppendEntries(r, args).rf)
  <2> DEFINE s == IF args.term > r.currentTerm \/ r.state = "CANDIDATE"
                  THEN stepDownToFollower(r, args.term) ELSE r
  <2>1. Calm(r, s)
    BY <1>1, <1>2, StepDownCalm
  <2> HIDE DEF s
  <2>2. ASSUME NEW l, NEW d, NEW k PROVE Calm(r, [s EXCEPT !.log = l, !.dirty = d, !.commitIndex = k])
    BY <2>1 DEF Calm, PeerOK, PeerFields
  <2> QED
    BY <1>1, <2>1, <2>2, Zenon DEF AppendEntries, s
<1>3. ASSUME NEW me, NEW command PROVE Calm(r, Start(r, me, command))
  BY DEF Start, Calm, PeerOK, PeerFields
<1>4. ASSUME NEW me PROVE Calm(r, updateCommitIndex(r, me))
  <2>1. ASSUME NEW k PROVE Calm(r, [r EXCEPT !.commitIndex = k])
    BY DEF Calm, PeerOK, PeerFields
  <2> QED
    BY <1>1, <2>1, Zenon DEF updateCommitIndex
<1> QED
  BY <1>1, <1>2, <1>3, <1>4

LEMMA ReplyCalm ==
    ASSUME NEW r, PeerOK(r), NEW me, NEW server, NEW args, NEW latest, NEW ok, NEW reply,
           ok /\ reply # None => reply.term \in Nat, ok => reply # None
    PROVE  /\ Calm(r, sendAndHandle(r, me, server, args, latest, ok, reply))
           /\ Calm(r, handleSnapshotReply(r, server, args, ok, reply))
<1>1. ASSUME NEW s, PeerOK(s), ok
      PROVE  Calm(s, handleAppendEntriesResponse(s, me, server, args, reply))
  <2> DEFINE m == [s EXCEPT !.matchIndex[server] = args.prevLogIndex + Len(args.entries)]
             u == IF args.prevLogIndex + Len(args.entries) > s.matchIndex[server]
                  THEN updateCommitIndex(m, me) ELSE s
  <2>1. Calm(s, s) /\ Calm(s, m) /\ PeerOK(m)
    BY <1>1 DEF Calm, PeerOK, PeerFields
  <2>2. Calm(m, updateCommitIndex(m, me))
    BY <2>1, ReplicationCalm
  <2> HIDE DEF m
  <2>3. Calm(s, updateCommitIndex(m, me))
    BY <2>1, <2>2 DEF Calm, PeerOK
  <2>4. Calm(s, u)
    BY <2>1, <2>3
  <2> HIDE DEF u
  <2>5. ASSUME NEW n PROVE /\ Calm(s, [u EXCEPT !.nextIndex[server] = n])
                           /\ Calm(s, [s EXCEPT !.nextIndex[server] = n])
    BY <1>1, <2>4 DEF Calm, PeerOK, PeerFields
  <2>6. Calm(s, stepDownToFollower(s, reply.term))
    BY <1>1, StepDownCalm
  <2>7. \/ handleAppendEntriesResponse(s, me, server, args, reply) \in {s, stepDownToFollower(s, reply.term)}
        \/ \E n : handleAppendEntriesResponse(s, me, server, args, reply) = [u EXCEPT !.nextIndex[server] = n]
        \/ \E n : handleAppendEntriesResponse(s, me, server, args, reply) = [s EXCEPT !.nextIndex[server] = n]
    BY Zenon DEF handleAppendEntriesResponse, u, m
  <2> QED
    BY <2>1, <2>5, <2>6, <2>7, Zenon
<1>2. Calm(r, sendAndHandle(r, me, server, args, latest, ok, reply))
  <2> DEFINE s == IF latest THEN [r EXCEPT !.inFlight[server] = FALSE] ELSE r
  <2>1. Calm(r, s) /\ PeerOK(s)
    BY DEF Calm, PeerOK, PeerFields
  <2> HIDE DEF s
  <2>2. CASE ok
    <3>1. Calm(s, handleAppendEntriesResponse(s, me, server, args, reply))
      BY <1>1, <2>1, <2>2
    <3>2. Calm(r, handleAppendEntriesResponse(s, me, server, args, reply))
      BY <2>1, <3>1 DEF Calm, PeerOK
    <3> QED
      BY <2>1, <3>2, Zenon DEF sendAndHandle, s
  <2>3. CASE ~ok
    <3>1. sendAndHandle(r, me, server, args, latest, ok, reply) = s
      BY <2>3, Zenon DEF sendAndHandle, s
    <3> QED
      BY <2>1, <3>1
  <2> QED
    BY <2>2, <2>3
<1>3. Calm(r, handleSnapshotReply(r, server, args, ok, reply))
  <2>1. ASSUME NEW n, NEW k
        PROVE  Calm(r, [r EXCEPT !.nextIndex[server] = n, !.matchIndex[server] = k])
    BY DEF Calm, PeerOK, PeerFields
  <2>2. Calm(r, r)
    BY DEF Calm
  <2>3. CASE ok
    <3>1. Calm(r, stepDownToFollower(r, reply.term))
      BY <2>3, StepDownCalm
    <3> QED
      BY <2>1, <2>2, <2>3, <3>1, Zenon DEF handleSnapshotReply
  <2>4. CASE ~ok
    BY <2>2, <2>4 DEF handleSnapshotReply
  <2> QED
    BY <2>3, <2>4
<1> QED
  BY <1>2, <1>3

LEMMA SnapshotCalm ==
    ASSUME NEW r, PeerOK(r)
    PROVE  /\ \A index, snapshot : Calm(r, Snapshot(r, index, snapshot))
           /\ \A args : Calm(r, InstallSnapshot(r, args))
<1>1. Calm(r, r)
  BY DEF Calm
<1>2. ASSUME NEW a1, NEW a2, NEW a3, NEW a4, NEW a5
      PROVE  Calm(r, [r EXCEPT !.snapshot = a1, !.snapshotIndex = a2, !.snapshotTerm = a3,
                               !.log = a4, !.dirty = a5])
  BY DEF Calm, PeerOK, PeerFields
<1>3. ASSUME NEW a1, NEW a2, NEW a3, NEW a4, NEW a5, NEW a6, NEW a7
      PROVE  Calm(r, [r EXCEPT !.log = a1, !.snapshot = a2, !.snapshotIndex = a3, !.snapshotTerm = a4,
                               !.commitIndex = a5, !.lastApplied = a6, !.dirty = a7])
  BY DEF Calm, PeerOK, PeerFields
<1>4. ASSUME NEW index, NEW snapshot PROVE Calm(r, Snapshot(r, index, snapshot))
  BY <1>1, <1>2, Zenon DEF Snapshot
<1>5. ASSUME NEW args PROVE Calm(r, InstallSnapshot(r, args))
  BY <1>1, <1>3, Zenon DEF InstallSnapshot
<1> QED
  BY <1>4, <1>5

-----------------------------------------------------------------------------
(* Steps that are not about votes.                                          *)

\* A call that carries no vote.
Harmless(c) == CallOK(c) /\ Asks(c) /\ (c.rpc = "RequestVote" => c.reply = None)

\* A step that grants no vote, and after which every peer still stands by its own.
LEMMA NoGrantStep ==
    ASSUME ElectionInv, ElectionTypes', LeaderElected',
           \A v, i \in Server, t \in Nat : Granted(v, i, t)' => Granted(v, i, t),
           \A j \in Server : PeerStep(rf[j], rf'[j])
    PROVE  ElectionInv' /\ ElectionStep
<1>1. GrantsHonoured'
  <2> SUFFICES ASSUME NEW v \in Server, NEW i \in Server, NEW t \in Nat, Granted(v, i, t)'
               PROVE  \/ t < rf'[v].currentTerm
                      \/ t = rf'[v].currentTerm /\ rf'[v].votedFor = i
    BY DEF GrantsHonoured
  <2>1. Granted(v, i, t)
    OBVIOUS
  <2>2. \/ t < rf[v].currentTerm
        \/ t = rf[v].currentTerm /\ rf[v].votedFor = i
    BY <2>1, Zenon DEF ElectionInv, GrantsHonoured
  <2>3. rf[v].currentTerm \in Nat /\ rf'[v].currentTerm \in Nat
    BY DEF ElectionInv, ElectionTypes, PeerOK
  <2>4. PeerStep(rf[v], rf'[v])
    OBVIOUS
  <2> QED
    BY <2>2, <2>3, <2>4, ConstantsOK DEF PeerStep
<1>2. GrantsUnique'
  BY DEF ElectionInv, GrantsUnique
<1>3. ElectionStep
  BY DEF ElectionStep
<1> QED
  BY <1>1, <1>2, <1>3 DEF ElectionInv

\* A step in which v grants its vote of term T to i.
LEMMA GrantStep ==
    ASSUME ElectionInv, ElectionTypes', LeaderElected',
           NEW v \in Server, NEW i \in Server, NEW T \in Nat,
           \A w, j \in Server, t \in Nat :
             Granted(w, j, t)' => Granted(w, j, t) \/ (w = v /\ j = i /\ t = T),
           \A w \in Server \ {v} : rf'[w] = rf[w],
           rf'[v].currentTerm = T, rf'[v].votedFor = i, PeerStep(rf[v], rf'[v]),
           \/ T > rf[v].currentTerm
           \/ T = rf[v].currentTerm /\ rf[v].votedFor \in {None, i}
    PROVE  ElectionInv' /\ ElectionStep
<1>1. \A w \in Server : rf[w].currentTerm \in Nat /\ rf'[w].currentTerm \in Nat
  BY DEF ElectionInv, ElectionTypes, PeerOK
<1>2. \A w, j \in Server, t \in Nat : Granted(w, j, t) =>
        \/ t < rf[w].currentTerm
        \/ t = rf[w].currentTerm /\ rf[w].votedFor = j
  BY Zenon DEF ElectionInv, GrantsHonoured
<1>3. ASSUME NEW j \in Server, Granted(v, j, T) PROVE j = i
  BY <1>1, <1>2, <1>3, ConstantsOK
<1>4. GrantsHonoured'
  <2> SUFFICES ASSUME NEW w \in Server, NEW j \in Server, NEW t \in Nat, Granted(w, j, t)'
               PROVE  \/ t < rf'[w].currentTerm
                      \/ t = rf'[w].currentTerm /\ rf'[w].votedFor = j
    BY DEF GrantsHonoured
  <2>1. CASE w # v
    <3>1. Granted(w, j, t) /\ rf'[w] = rf[w]
      BY <2>1
    <3> QED
      BY <1>2, <3>1
  <2>2. CASE w = v
    <3>1. CASE t = T /\ j = i
      BY <2>2, <3>1
    <3>2. CASE Granted(v, j, t)
      <4>1. \/ t < rf[v].currentTerm
            \/ t = rf[v].currentTerm /\ rf[v].votedFor = j
        BY <1>2, <3>2
      <4>2. t = T => j = i
        BY <1>3, <3>2
      <4> QED
        BY <1>1, <2>2, <4>1, <4>2
    <3> QED
      BY <2>2, <3>1, <3>2
  <2> QED
    BY <2>1, <2>2
<1>5. GrantsUnique'
  <2> SUFFICES ASSUME NEW w \in Server, NEW j \in Server, NEW k \in Server, NEW t \in Nat,
                      Granted(w, j, t)', Granted(w, k, t)'
               PROVE  j = k
    BY DEF GrantsUnique
  <2>1. Granted(w, j, t) /\ Granted(w, k, t) => j = k
    BY Zenon DEF ElectionInv, GrantsUnique
  <2>2. /\ Granted(w, j, t) \/ (w = v /\ j = i /\ t = T)
        /\ Granted(w, k, t) \/ (w = v /\ k = i /\ t = T)
    OBVIOUS
  <2> QED
    BY <1>3, <2>1, <2>2
<1>6. ElectionStep
  <2>1. \A w \in Server \ {v} : PeerStep(rf[w], rf'[w])
    BY <1>1 DEF PeerStep
  <2> QED
    BY <2>1 DEF ElectionStep
<1> QED
  BY <1>4, <1>5, <1>6 DEF ElectionInv

LEMMA CalmStep ==
    ASSUME ElectionInv, rf' = [j \in Server |-> rf'[j]],
           \A j \in Server : Calm(rf[j], rf'[j]),
           \A c \in calls' : c \in calls \/ Harmless(c)
    PROVE  ElectionInv' /\ ElectionStep
<1>1. ElectionTypes'
  BY DEF ElectionInv, ElectionTypes, Calm, Harmless
<1>2. ASSUME NEW v \in Server, NEW i \in Server, NEW t \in Nat, Granted(v, i, t)'
      PROVE  Granted(v, i, t)
  <2>1. CASE GrantOnItsWay(v, i, t)'
    BY <2>1 DEF GrantOnItsWay, Harmless, Granted
  <2>2. CASE GrantCounted(v, i, t)'
    <3>1. Calm(rf[i], rf'[i])
      OBVIOUS
    <3> QED
      BY <2>2, <3>1 DEF GrantCounted, Granted, Calm
  <2> QED
    BY <1>2, <2>1, <2>2 DEF Granted
<1>3. LeaderElected'
  <2> SUFFICES ASSUME NEW i \in Server, rf'[i].state = "LEADER"
               PROVE  Cardinality(rf'[i].votes) > Cardinality(Server) \div 2
    BY DEF LeaderElected
  <2>1. Calm(rf[i], rf'[i])
    OBVIOUS
  <2>2. rf[i].state = "LEADER" /\ rf'[i].votes = rf[i].votes
    BY <2>1 DEF Calm
  <2> QED
    BY <2>2 DEF ElectionInv, LeaderElected
<1>4. \A j \in Server : PeerStep(rf[j], rf'[j])
  BY DEF Calm, PeerStep, PeerOK, ElectionInv, ElectionTypes
<1> QED
  BY <1>1, <1>2, <1>3, <1>4, NoGrantStep

LEMMA OnePeer ==
    ASSUME ElectionInv, NEW i, NEW s, rf' = [rf EXCEPT ![i] = s],
           i \in Server => Calm(rf[i], s)
    PROVE  /\ rf' = [j \in Server |-> rf'[j]]
           /\ \A j \in Server : Calm(rf[j], rf'[j])
<1>1. \A j \in Server : Calm(rf[j], rf[j])
  BY ReplicationCalm DEF ElectionInv, ElectionTypes
<1> QED
  BY <1>1 DEF ElectionInv, ElectionTypes

LEMMA NoPeer ==
    ASSUME ElectionInv, UNCHANGED rf
    PROVE  /\ rf' = [j \in Server |-> rf'[j]]
           /\ \A j \in Server : Calm(rf[j], rf'[j])
<1>1. \A j \in Server : Calm(rf[j], rf[j])
  BY ReplicationCalm DEF ElectionInv, ElectionTypes
<1> QED
  BY <1>1 DEF ElectionInv, ElectionTypes

LEMMA InitElection == Init => ElectionInv
<1> SUFFICES ASSUME Init PROVE ElectionInv
  OBVIOUS
<1>1. \A i \in Server : rf[i].state = "FOLLOWER"
  BY DEF Init, Make
<1>2. ElectionTypes
  BY DEF Init, Make, Bootstrap, ElectionTypes, PeerOK, PeerFields
<1>3. \A v, i \in Server, t \in Nat : ~Granted(v, i, t)
  BY <1>1 DEF Init, Granted, GrantOnItsWay, GrantCounted
<1> QED
  BY <1>1, <1>2, <1>3 DEF ElectionInv, GrantsHonoured, GrantsUnique, LeaderElected

LEMMA RepliedHarmless ==
    ASSUME ElectionInv, NEW c \in calls, c.rpc # "RequestVote", NEW reply,
           reply # None => reply.term \in Nat
    PROVE  \A d \in Replied(c, reply) : d \in calls \/ Harmless(d)
<1>1. CallOK(c)
  BY DEF ElectionInv, ElectionTypes
<1>2. ASSUME NEW p PROVE Harmless([c EXCEPT !.reply = reply, !.pending = p])
  BY <1>1 DEF Harmless, CallOK, CallFields, Asks
<1> QED
  BY <1>2 DEF Replied

\* The caller of a failed call learns nothing.
LEMMA CallFailsElection ==
    ASSUME ElectionInv, NEW c \in calls, CallFails(c)
    PROVE  ElectionInv' /\ ElectionStep
<1>1. CallOK(c) /\ Asks(c) /\ c.from \in Server /\ PeerOK(rf[c.from])
  BY DEF ElectionInv, ElectionTypes, CallFails, CallOK
<1>2. /\ rf' = [j \in Server |-> rf'[j]]
      /\ \A j \in Server : Calm(rf[j], rf'[j])
  <2>1. CASE c.rpc = "AppendEntries"
    <3>1. Calm(rf[c.from], sendAndHandle(rf[c.from], c.from, c.to, c.args, c.latest, FALSE, None))
      BY <1>1, ReplyCalm
    <3>2. rf' = [rf EXCEPT ![c.from] =
                   sendAndHandle(rf[c.from], c.from, c.to, c.args, c.latest, FALSE, None)]
      BY <2>1, Zenon DEF CallFails
    <3> QED
      BY <3>1, <3>2, OnePeer
  <2>2. CASE c.rpc # "AppendEntries"
    BY <2>2, NoPeer DEF CallFails
  <2> QED
    BY <2>1, <2>2
<1>3. c.pending # "no" => Harmless([c EXCEPT !.from = None])
  BY <1>1 DEF Harmless, CallOK, CallFields, Asks
<1>4. \A d \in calls' : d \in calls \/ Harmless(d)
  BY <1>3 DEF CallFails
<1> QED
  BY <1>2, <1>4, CalmStep

LEMMA AppendEntriesElection ==
    ASSUME ElectionInv,
           \/ \E i, j \in Server : SendAppendEntries(i, j)
           \/ \E c \in calls : HandleAppendEntries(c) \/ AppendEntriesReturns(c)
    PROVE  ElectionInv' /\ ElectionStep
<1>1. ASSUME NEW i \in Server, NEW j \in Server, SendAppendEntries(i, j) PROVE ElectionInv' /\ ElectionStep
  <2>1. PeerOK(rf[i])
    BY DEF ElectionInv, ElectionTypes
  <2>2. ASSUME NEW f PROVE Calm(rf[i], [rf[i] EXCEPT !.inFlight = f])
    BY <2>1 DEF Calm, PeerOK, PeerFields
  <2>3. rf' = [rf EXCEPT ![i] = [rf[i] EXCEPT !.inFlight = [rf[i].inFlight EXCEPT ![j] = TRUE]]]
    BY <1>1, <2>1 DEF SendAppendEntries, PeerOK, PeerFields
  <2>4. /\ rf' = [k \in Server |-> rf'[k]]
        /\ \A k \in Server : Calm(rf[k], rf'[k])
    BY <2>2, <2>3, OnePeer
  <2>5. Harmless(Call("AppendEntries", i, j, AppendEntriesArgs(rf[i], j)))
    BY <2>1 DEF Harmless, Call, CallOK, CallFields, Asks, AppendEntriesArgs, PeerOK
  <2>6. ASSUME NEW c \in InFlight(i, j, "AppendEntries") PROVE Harmless([c EXCEPT !.latest = FALSE])
    <3>1. c \in calls /\ c.rpc = "AppendEntries"
      BY DEF InFlight
    <3>2. CallOK(c)
      BY <3>1 DEF ElectionInv, ElectionTypes
    <3> QED
      BY <3>1, <3>2 DEF Harmless, CallOK, CallFields, Asks
  <2>7. \A d \in calls' : d \in calls \/ Harmless(d)
    BY <1>1, <2>5, <2>6 DEF SendAppendEntries
  <2> QED
    BY <2>4, <2>7, CalmStep
<1>2. ASSUME NEW c \in calls, HandleAppendEntries(c) PROVE ElectionInv' /\ ElectionStep
  <2>1. CallOK(c) /\ c.to \in Server /\ PeerOK(rf[c.to]) /\ c.args.term \in Nat
    BY DEF ElectionInv, ElectionTypes, CallOK
  <2>2. rf' = [rf EXCEPT ![c.to] = AppendEntries(rf[c.to], c.args).rf]
    BY <1>2, Zenon DEF HandleAppendEntries
  <2>3. Calm(rf[c.to], AppendEntries(rf[c.to], c.args).rf)
    BY <2>1, ReplicationCalm
  <2>4. AppendEntries(rf[c.to], c.args).reply.term \in Nat
    <3> DEFINE r == rf[c.to]
               s == IF c.args.term > r.currentTerm \/ r.state = "CANDIDATE"
                    THEN stepDownToFollower(r, c.args.term) ELSE r
    <3>1. r.currentTerm \in Nat
      BY <2>1 DEF PeerOK
    <3>2. s.currentTerm \in Nat
      BY <2>1, <3>1, StepDownCalm DEF Calm, PeerOK
    <3> HIDE DEF r, s
    <3>3. ASSUME NEW t \in Nat, NEW b
          PROVE  /\ PlainReply(t, b).term \in Nat
                 /\ \A k : [PlainReply(t, b) EXCEPT !.conflictingLogLen = k].term \in Nat
                 /\ \A k, m : [PlainReply(t, b) EXCEPT !.conflictingTerm = k,
                                                       !.conflictingIndex = m].term \in Nat
      BY DEF PlainReply
    <3>4. \/ \E t \in Nat : \E b : AppendEntries(r, c.args).reply = PlainReply(t, b)
          \/ \E t \in Nat : \E b, k :
               AppendEntries(r, c.args).reply = [PlainReply(t, b) EXCEPT !.conflictingLogLen = k]
          \/ \E t \in Nat : \E b, k, m :
               AppendEntries(r, c.args).reply = [PlainReply(t, b) EXCEPT !.conflictingTerm = k,
                                                                         !.conflictingIndex = m]
      BY <3>1, <3>2, Zenon DEF AppendEntries, s
    <3> QED
      BY <3>3, <3>4 DEF r
  <2>5. calls' = Replied(c, AppendEntries(rf[c.to], c.args).reply) /\ c.rpc = "AppendEntries"
    BY <1>2, Zenon DEF HandleAppendEntries
  <2>6. /\ rf' = [k \in Server |-> rf'[k]]
        /\ \A k \in Server : Calm(rf[k], rf'[k])
    BY <2>1, <2>2, <2>3, OnePeer
  <2>7. \A d \in calls' : d \in calls \/ Harmless(d)
    BY <2>4, <2>5, RepliedHarmless
  <2> QED
    BY <2>6, <2>7, CalmStep
<1>3. ASSUME NEW c \in calls, AppendEntriesReturns(c) PROVE ElectionInv' /\ ElectionStep
  <2> DEFINE s == sendAndHandle(rf[c.from], c.from, c.to, c.args, c.latest, TRUE, c.reply)
  <2>1. c.reply # None /\ c.reply.term \in Nat
    BY <1>3 DEF AppendEntriesReturns, ElectionInv, ElectionTypes, CallOK
  <2>2. c.from \in Server => Calm(rf[c.from], s)
    BY <2>1, ReplyCalm DEF ElectionInv, ElectionTypes
  <2>3. rf' = [rf EXCEPT ![c.from] = s] /\ calls' = calls \ {c}
    BY <1>3, Zenon DEF AppendEntriesReturns
  <2> HIDE DEF s
  <2>4. /\ rf' = [k \in Server |-> rf'[k]]
        /\ \A k \in Server : Calm(rf[k], rf'[k])
    BY <2>2, <2>3, OnePeer
  <2> QED
    BY <2>3, <2>4, CalmStep
<1> QED
  BY <1>1, <1>2, <1>3

LEMMA InstallSnapshotElection ==
    ASSUME ElectionInv,
           \/ \E i, j \in Server : SendInstallSnapshot(i, j)
           \/ \E c \in calls : \/ HandleInstallSnapshot(c) \/ ReceiveSnapshot(c)
                               \/ FinishInstallSnapshot(c) \/ InstallSnapshotReturns(c)
    PROVE  ElectionInv' /\ ElectionStep
<1>1. ASSUME NEW i \in Server, NEW j \in Server, SendInstallSnapshot(i, j) PROVE ElectionInv' /\ ElectionStep
  <2>1. PeerOK(rf[i])
    BY DEF ElectionInv, ElectionTypes
  <2>2. Harmless(Call("InstallSnapshot", i, j, InstallSnapshotArgs(rf[i])))
    BY <2>1 DEF Harmless, Call, CallOK, CallFields, Asks, InstallSnapshotArgs, PeerOK
  <2>3. \A d \in calls' : d \in calls \/ Harmless(d)
    BY <1>1, <2>2 DEF SendInstallSnapshot
  <2>4. UNCHANGED rf
    BY <1>1 DEF SendInstallSnapshot
  <2> QED
    BY <2>3, <2>4, NoPeer, CalmStep
<1>2. ASSUME NEW c \in calls, HandleInstallSnapshot(c) PROVE ElectionInv' /\ ElectionStep
  <2> DEFINE reply == [term |-> rf[c.to].currentTerm]
  <2>1. CallOK(c) /\ c.to \in Server /\ PeerOK(rf[c.to])
    BY DEF ElectionInv, ElectionTypes, CallOK
  <2>2. reply.term \in Nat /\ c.rpc = "InstallSnapshot" /\ UNCHANGED rf
    BY <1>2, <2>1 DEF PeerOK, HandleInstallSnapshot
  <2>3. \/ calls' = (calls \ {c}) \union {[c EXCEPT !.reply = reply, !.pending = "send"]}
        \/ calls' = Replied(c, reply)
    BY <1>2, Zenon DEF HandleInstallSnapshot
  <2> HIDE DEF reply
  <2>4. Harmless([c EXCEPT !.reply = reply, !.pending = "send"])
    BY <2>1, <2>2 DEF Harmless, CallOK, CallFields, Asks
  <2>5. \A d \in Replied(c, reply) : d \in calls \/ Harmless(d)
    BY <2>2, RepliedHarmless
  <2>6. \A d \in calls' : d \in calls \/ Harmless(d)
    BY <2>3, <2>4, <2>5
  <2> QED
    BY <2>2, <2>6, NoPeer, CalmStep
<1>3. ASSUME NEW c \in calls, ReceiveSnapshot(c) PROVE ElectionInv' /\ ElectionStep
  <2>1. CallOK(c) /\ Asks(c) /\ c.pending = "send"
    BY <1>3 DEF ElectionInv, ElectionTypes, ReceiveSnapshot
  <2>2. Harmless([c EXCEPT !.pending = "sent"])
    BY <2>1 DEF Harmless, CallOK, CallFields, Asks
  <2>3. (\A d \in calls' : d \in calls \/ Harmless(d)) /\ UNCHANGED rf
    BY <1>3, <2>2 DEF ReceiveSnapshot
  <2> QED
    BY <2>3, NoPeer, CalmStep
<1>4. ASSUME NEW c \in calls, FinishInstallSnapshot(c) PROVE ElectionInv' /\ ElectionStep
  <2>1. CallOK(c) /\ Asks(c) /\ c.pending = "sent" /\ c.to \in Server /\ PeerOK(rf[c.to])
    BY <1>4 DEF ElectionInv, ElectionTypes, FinishInstallSnapshot, CallOK
  <2>2. c.rpc # "RequestVote" /\ (c.reply # None => c.reply.term \in Nat)
    BY <2>1 DEF Asks, CallOK
  <2>3. rf' = [rf EXCEPT ![c.to] = InstallSnapshot(rf[c.to], c.args)] /\ calls' = Replied(c, c.reply)
    BY <1>4, Zenon DEF FinishInstallSnapshot
  <2>4. Calm(rf[c.to], InstallSnapshot(rf[c.to], c.args))
    BY <2>1, SnapshotCalm
  <2>5. /\ rf' = [k \in Server |-> rf'[k]]
        /\ \A k \in Server : Calm(rf[k], rf'[k])
    BY <2>3, <2>4, OnePeer
  <2>6. \A d \in calls' : d \in calls \/ Harmless(d)
    BY <2>2, <2>3, RepliedHarmless
  <2> QED
    BY <2>5, <2>6, CalmStep
<1>5. ASSUME NEW c \in calls, InstallSnapshotReturns(c) PROVE ElectionInv' /\ ElectionStep
  <2> DEFINE s == handleSnapshotReply(rf[c.from], c.to, c.args, TRUE, c.reply)
  <2>1. c.reply # None /\ c.reply.term \in Nat
    BY <1>5 DEF InstallSnapshotReturns, ElectionInv, ElectionTypes, CallOK
  <2>2. c.from \in Server => Calm(rf[c.from], s)
    BY <2>1, ReplyCalm DEF ElectionInv, ElectionTypes
  <2>3. rf' = [rf EXCEPT ![c.from] = s] /\ calls' = calls \ {c}
    BY <1>5, Zenon DEF InstallSnapshotReturns
  <2> HIDE DEF s
  <2>4. /\ rf' = [k \in Server |-> rf'[k]]
        /\ \A k \in Server : Calm(rf[k], rf'[k])
    BY <2>2, <2>3, OnePeer
  <2> QED
    BY <2>3, <2>4, CalmStep
<1> QED
  BY <1>1, <1>2, <1>3, <1>4, <1>5

\* What a peer, its service and its persister do by themselves.
LEMMA LocalElection ==
    ASSUME ElectionInv, NEW i \in Server,
           \/ \E command \in Command : ClientStart(i, command)
           \/ CopyBatch(i) \/ ReceiveCommand(i) \/ FinishBatch(i) \/ TakeSnapshot(i)
           \/ BeginSave(i) \/ EndSave(i)
    PROVE  ElectionInv' /\ ElectionStep
<1>1. PeerOK(rf[i])
  BY DEF ElectionInv, ElectionTypes
<1>2. ASSUME NEW k PROVE Calm(rf[i], [rf[i] EXCEPT !.lastApplied = k])
  BY <1>1 DEF Calm, PeerOK, PeerFields
<1>3. Calm(rf[i], [rf[i] EXCEPT !.dirty = FALSE])
  BY <1>1 DEF Calm, PeerOK, PeerFields
<1>4. UNCHANGED calls
  BY DEF ClientStart, CopyBatch, ReceiveCommand, FinishBatch, TakeSnapshot, BeginSave, EndSave
<1>5. CASE \E command \in Command : ClientStart(i, command)
  <2>1. PICK command \in Command : rf' = [rf EXCEPT ![i] = Start(rf[i], i, command)]
    BY <1>5, Zenon DEF ClientStart
  <2>2. Calm(rf[i], Start(rf[i], i, command))
    BY <1>1, ReplicationCalm
  <2> QED
    BY <1>4, <2>1, <2>2, OnePeer, CalmStep
<1>6. CASE CopyBatch(i) \/ ReceiveCommand(i) \/ BeginSave(i)
  <2>1. UNCHANGED rf
    BY <1>6 DEF CopyBatch, ReceiveCommand, BeginSave
  <2> QED
    BY <1>4, <2>1, NoPeer, CalmStep
<1>7. CASE FinishBatch(i)
  <2>1. \E k : rf' = [rf EXCEPT ![i] = [rf[i] EXCEPT !.lastApplied = k]]
    BY <1>7, Zenon DEF FinishBatch
  <2> QED
    BY <1>2, <1>4, <2>1, OnePeer, CalmStep
<1>8. CASE TakeSnapshot(i)
  <2>1. \E index, snapshot : rf' = [rf EXCEPT ![i] = Snapshot(rf[i], index, snapshot)]
    BY <1>8, Zenon DEF TakeSnapshot
  <2>2. \A index, snapshot : Calm(rf[i], Snapshot(rf[i], index, snapshot))
    BY <1>1, SnapshotCalm
  <2> QED
    BY <1>4, <2>1, <2>2, OnePeer, CalmStep
<1>9. CASE EndSave(i)
  <2>1. rf' = [rf EXCEPT ![i] = [rf[i] EXCEPT !.dirty = FALSE]]
    BY <1>9, Zenon DEF EndSave
  <2> QED
    BY <1>3, <1>4, <2>1, OnePeer, CalmStep
<1> QED
  BY <1>5, <1>6, <1>7, <1>8, <1>9

-----------------------------------------------------------------------------
(* Steps about votes.                                                       *)

LEMMA CrashElection ==
    ASSUME CrashesWhenSaved = TRUE, ElectionInv, NEW i \in Server, CrashAndRestart(i)
    PROVE  ElectionInv' /\ ElectionStep
<1>1. PeerOK(rf[i])
  BY DEF ElectionInv, ElectionTypes
<1>2. rf' = [rf EXCEPT ![i] = Make(encodeState(rf[i]))]
  BY Zenon DEF CrashAndRestart
<1>3. Calm(rf[i], Make(encodeState(rf[i])))
  BY <1>1 DEF Calm, PeerOK, PeerFields, Make, encodeState
<1>4. ASSUME NEW d \in calls' PROVE d \in calls \/ Harmless(d)
  <2>1. \/ d \in calls
        \/ \E c \in calls : /\ c.reply = None \/ c.pending # "no"
                            /\ d = [c EXCEPT !.from = None]
    BY <1>4 DEF CrashAndRestart
  <2>2. ASSUME NEW c \in calls, c.reply = None \/ c.pending # "no"
        PROVE  Harmless([c EXCEPT !.from = None])
    <3>1. CallOK(c) /\ Asks(c)
      BY DEF ElectionInv, ElectionTypes
    <3> QED
      BY <2>2, <3>1 DEF Harmless, CallOK, CallFields, Asks
  <2> QED
    BY <2>1, <2>2
<1> QED
  BY <1>2, <1>3, <1>4, OnePeer, CalmStep

\* A candidate votes for itself, in a term in which it has not voted.
LEMMA AttemptElection ==
    ASSUME ElectionInv, NEW i \in Server, attemptElection(i)
    PROVE  ElectionInv' /\ ElectionStep
<1> DEFINE r == startElectionState(rf[i], i)
           T == rf[i].currentTerm + 1
<1>1. PeerOK(rf[i]) /\ rf = [j \in Server |-> rf[j]]
  BY DEF ElectionInv, ElectionTypes
<1>2. /\ PeerOK(r) /\ r.currentTerm = T /\ r.votedFor = i
      /\ r.votes = {i} /\ r.state = "CANDIDATE" /\ T \in Nat
  BY <1>1 DEF PeerOK, PeerFields, startElectionState
<1>3. ASSUME NEW d \in calls' PROVE d \in calls \/ Harmless(d)
  <2>1. d \in calls \/ \E j \in Server : d = Call("RequestVote", i, j, RequestVoteArgs(r, i))
    BY <1>3 DEF attemptElection
  <2>2. ASSUME NEW j \in Server PROVE Harmless(Call("RequestVote", i, j, RequestVoteArgs(r, i)))
    <3> HIDE DEF r
    <3> QED
      BY <1>2 DEF Harmless, Call, CallOK, CallFields, Asks, RequestVoteArgs, PeerOK
  <2> QED
    BY <2>1, <2>2
<1>4. rf' = [rf EXCEPT ![i] = r]
  BY Zenon DEF attemptElection
<1> HIDE DEF r
<1>5. rf' = [j \in Server |-> rf'[j]] /\ rf'[i] = r /\ \A j \in Server \ {i} : rf'[j] = rf[j]
  BY <1>1, <1>4
<1>6. ElectionTypes'
  BY <1>2, <1>3, <1>5 DEF ElectionInv, ElectionTypes, Harmless
<1>7. LeaderElected'
  BY <1>2, <1>5 DEF ElectionInv, LeaderElected
<1>8. ASSUME NEW w \in Server, NEW j \in Server, NEW t \in Nat, Granted(w, j, t)'
      PROVE  Granted(w, j, t) \/ (w = i /\ j = i /\ t = T)
  <2>1. CASE GrantOnItsWay(w, j, t)'
    BY <1>3, <2>1 DEF GrantOnItsWay, Harmless, Granted
  <2>2. CASE GrantCounted(w, j, t)'
    <3>1. CASE j = i
      BY <1>2, <1>5, <2>2, <3>1 DEF GrantCounted
    <3>2. CASE j # i
      BY <1>5, <2>2, <3>2 DEF GrantCounted, Granted
    <3> QED
      BY <3>1, <3>2
  <2> QED
    BY <1>8, <2>1, <2>2 DEF Granted
<1>9. /\ T > rf[i].currentTerm /\ rf'[i].currentTerm = T /\ rf'[i].votedFor = i
      /\ PeerStep(rf[i], rf'[i])
  BY <1>1, <1>2, <1>5 DEF PeerOK, PeerStep
<1> HIDE DEF T
<1> QED
  BY <1>2, <1>5, <1>6, <1>7, <1>8, <1>9, GrantStep

\* What RequestVote does to a peer that grants its vote, and to one that does not.
LEMMA RequestVoteOutcome ==
    ASSUME NEW r, PeerOK(r), NEW args, args.term \in Nat, args.candidateId \in Server
    PROVE  LET h == RequestVote(r, args)
           IN /\ h.reply.term \in Nat
              /\ ~h.reply.voteGranted => Calm(r, h.rf)
              /\ h.reply.voteGranted =>
                   /\ PeerOK(h.rf) /\ h.rf.currentTerm = args.term
                   /\ h.rf.votedFor = args.candidateId
                   /\ h.rf.state = "FOLLOWER" \/ (h.rf.state = r.state /\ h.rf.votes = r.votes
                                                    /\ h.rf.currentTerm = r.currentTerm)
                   /\ \/ args.term > r.currentTerm
                      \/ args.term = r.currentTerm /\ r.votedFor \in {None, args.candidateId}
<1> DEFINE s == IF args.term > r.currentTerm
                THEN stepDownToFollower(r, args.term) ELSE r
           granted == /\ args.term >= r.currentTerm
                      /\ mayVote(s.votedFor, args.candidateId)
                      /\ upToDate(r, args)
           g == [s EXCEPT !.votedFor = args.candidateId, !.dirty = TRUE]
<1>1. Calm(r, s) /\ PeerOK(s)
  BY StepDownCalm, ReplicationCalm DEF Calm
<1>2. args.term > r.currentTerm => s.currentTerm = args.term /\ s.state = "FOLLOWER"
  BY StepDownCalm
<1>3. ~(args.term > r.currentTerm) => s = r
  OBVIOUS
<1>4. /\ RequestVote(r, args).reply.term = s.currentTerm
      /\ RequestVote(r, args).reply.voteGranted = granted
      /\ RequestVote(r, args).rf = IF granted THEN g ELSE s
  BY Zenon DEF RequestVote
<1> HIDE DEF s
<1>5. /\ PeerOK(g) /\ g.currentTerm = s.currentTerm /\ g.votedFor = args.candidateId
      /\ g.state = s.state /\ g.votes = s.votes
  BY <1>1 DEF PeerOK, PeerFields
<1>6. granted => args.term >= r.currentTerm /\ s.votedFor \in {None, args.candidateId}
  BY DEF mayVote
<1> HIDE DEF g, granted
<1>7. r.currentTerm \in Nat /\ s.currentTerm \in Nat
  BY <1>1 DEF PeerOK
<1> QED
  BY <1>1, <1>2, <1>3, <1>4, <1>5, <1>6, <1>7

LEMMA HandleRequestVoteElection ==
    ASSUME ElectionInv, NEW c \in calls, HandleRequestVote(c)
    PROVE  ElectionInv' /\ ElectionStep
<1> DEFINE v == c.to
           i == c.args.candidateId
           h == RequestVote(rf[v], c.args)
           T == c.args.term
           answered == [c EXCEPT !.reply = h.reply, !.pending = "no"]
<1>1. /\ CallOK(c) /\ Asks(c) /\ c.rpc = "RequestVote" /\ v \in Server /\ i \in Server /\ T \in Nat
      /\ rf = [j \in Server |-> rf[j]]
  BY DEF HandleRequestVote, ElectionInv, ElectionTypes, CallOK, Asks
<1>2. PeerOK(rf[v])
  BY <1>1 DEF ElectionInv, ElectionTypes
<1>3. /\ rf' = [rf EXCEPT ![v] = h.rf]
      /\ calls' = Replied(c, h.reply)
  BY Zenon DEF HandleRequestVote
<1>4. /\ h.reply.term \in Nat
      /\ ~h.reply.voteGranted => Calm(rf[v], h.rf)
      /\ h.reply.voteGranted =>
           /\ PeerOK(h.rf) /\ h.rf.currentTerm = T /\ h.rf.votedFor = i
           /\ h.rf.state = "FOLLOWER" \/ (h.rf.state = rf[v].state /\ h.rf.votes = rf[v].votes
                                            /\ h.rf.currentTerm = rf[v].currentTerm)
           /\ \/ T > rf[v].currentTerm
              \/ T = rf[v].currentTerm /\ rf[v].votedFor \in {None, i}
  BY <1>1, <1>2, RequestVoteOutcome
<1> HIDE DEF h
<1>5. c.from # None => /\ CallOK(answered) /\ Asks(answered) /\ answered.reply = h.reply
                       /\ answered.to = v /\ answered.args = c.args
  BY <1>1, <1>4 DEF CallOK, CallFields, Asks
<1>6. \A d \in calls' : d \in calls \/ (c.from # None /\ d = answered)
  BY <1>3 DEF Replied
<1> HIDE DEF answered
<1>7. rf' = [j \in Server |-> rf'[j]] /\ rf'[v] = h.rf /\ \A j \in Server \ {v} : rf'[j] = rf[j]
  BY <1>1, <1>3
<1>8. PeerOK(h.rf)
  BY <1>4 DEF Calm
<1>9. ElectionTypes'
  BY <1>5, <1>6, <1>7, <1>8 DEF ElectionInv, ElectionTypes
<1>10. h.rf.state = "FOLLOWER" \/ (h.rf.state = rf[v].state /\ h.rf.votes = rf[v].votes
                                     /\ h.rf.currentTerm = rf[v].currentTerm)
  BY <1>4 DEF Calm
<1>11. LeaderElected'
  BY <1>7, <1>10 DEF ElectionInv, LeaderElected
<1>12. ASSUME NEW w \in Server, NEW j \in Server, NEW t \in Nat, Granted(w, j, t)'
       PROVE  Granted(w, j, t) \/ (h.reply.voteGranted /\ w = v /\ j = i /\ t = T)
  <2>1. CASE GrantOnItsWay(w, j, t)'
    <3>1. PICK d \in calls' :
            /\ d.rpc = "RequestVote" /\ d.args.candidateId = j /\ d.args.term = t
            /\ d.to = w /\ d.reply # None /\ d.reply.voteGranted
      BY <2>1 DEF GrantOnItsWay
    <3>2. CASE d \in calls
      BY <3>1, <3>2 DEF GrantOnItsWay, Granted
    <3>3. CASE c.from # None /\ d = answered
      BY <1>5, <3>1, <3>3
    <3> QED
      BY <1>6, <3>2, <3>3
  <2>2. CASE GrantCounted(w, j, t)'
    BY <1>7, <1>10, <2>2 DEF GrantCounted, Granted
  <2> QED
    BY <1>12, <2>1, <2>2 DEF Granted
<1> HIDE DEF v, i, T
<1>13. CASE h.reply.voteGranted
  <2>1. \A w, j \in Server, t \in Nat :
          Granted(w, j, t)' => Granted(w, j, t) \/ (w = v /\ j = i /\ t = T)
    BY <1>12
  <2>2. PeerStep(rf[v], rf'[v])
    BY <1>1, <1>2, <1>4, <1>7, <1>13 DEF PeerStep, PeerOK
  <2> QED
    BY <1>1, <1>4, <1>7, <1>9, <1>11, <1>13, <2>1, <2>2, GrantStep
<1>14. CASE ~h.reply.voteGranted
  <2>1. \A w, j \in Server, t \in Nat : Granted(w, j, t)' => Granted(w, j, t)
    BY <1>12, <1>14
  <2>2. \A j \in Server : PeerStep(rf[j], rf'[j])
    BY <1>4, <1>7, <1>14 DEF Calm, PeerStep, PeerOK, ElectionInv, ElectionTypes
  <2> QED
    BY <1>9, <1>11, <2>1, <2>2, NoGrantStep
<1> QED
  BY <1>13, <1>14

\* A vote that is counted was on its way; a new leader has counted a majority.
LEMMA CountVoteElection ==
    ASSUME ElectionInv, NEW c \in calls, CountVote(c)
    PROVE  ElectionInv' /\ ElectionStep
<1> DEFINE i == c.from
           r == rf[i]
           counted == IF c.reply.voteGranted THEN r.votes \union {c.to} ELSE r.votes
           s == [r EXCEPT !.votes = counted]
           n == handleVoteReply(r, i, c.to, c.args, c.reply)
<1>1. /\ CallOK(c) /\ Asks(c) /\ c.rpc = "RequestVote" /\ c.reply # None
      /\ rf = [j \in Server |-> rf[j]]
  BY DEF CountVote, ElectionInv, ElectionTypes
<1>2. i = c.args.candidateId /\ i \in Server /\ c.to \in Server /\ c.reply.term \in Nat
  BY <1>1 DEF CallOK, Asks
<1>3. PeerOK(r)
  BY <1>2 DEF ElectionInv, ElectionTypes
<1>4. rf' = [rf EXCEPT ![i] = n] /\ calls' = calls \ {c}
  BY Zenon DEF CountVote
<1>5. CASE r.currentTerm # c.args.term \/ r.state # "CANDIDATE" \/ c.reply.term > r.currentTerm
  <2>1. n \in {r, stepDownToFollower(r, c.reply.term)}
    BY <1>5, Zenon DEF handleVoteReply
  <2>2. Calm(r, n)
    BY <1>2, <1>3, <2>1, StepDownCalm, ReplicationCalm
  <2> HIDE DEF n
  <2>3. /\ rf' = [j \in Server |-> rf'[j]]
        /\ \A j \in Server : Calm(rf[j], rf'[j])
    BY <1>4, <2>2, OnePeer
  <2> QED
    BY <1>4, <2>3, CalmStep
<1>6. CASE ~(r.currentTerm # c.args.term \/ r.state # "CANDIDATE" \/ c.reply.term > r.currentTerm)
  <2>1. n = IF Cardinality(counted) > Cardinality(Server) \div 2 THEN becomeLeader(s, i) ELSE s
    BY <1>6, Zenon DEF handleVoteReply
  <2>2. counted \subseteq Server
    BY <1>2, <1>3 DEF PeerOK
  <2>3. \A v \in counted : v \in r.votes \/ (v = c.to /\ c.reply.voteGranted)
    OBVIOUS
  <2> HIDE DEF counted
  <2>4. /\ PeerOK(s) /\ s.currentTerm = r.currentTerm /\ s.votedFor = r.votedFor
        /\ s.votes = counted /\ s.state = r.state
    BY <1>3, <2>2 DEF PeerOK, PeerFields
  <2> HIDE DEF s
  <2>5. LET b == becomeLeader(s, i)
        IN /\ PeerOK(b) /\ b.currentTerm = s.currentTerm /\ b.votedFor = s.votedFor
           /\ b.votes = s.votes /\ b.state = "LEADER"
    BY <2>4 DEF PeerOK, PeerFields, becomeLeader
  <2>6. /\ PeerOK(n) /\ n.currentTerm = r.currentTerm /\ n.votedFor = r.votedFor /\ n.votes = counted
        /\ n.state = "LEADER" => Cardinality(counted) > Cardinality(Server) \div 2
    BY <1>6, <2>1, <2>4, <2>5
  <2> HIDE DEF n
  <2>7. rf' = [j \in Server |-> rf'[j]] /\ rf'[i] = n /\ \A j \in Server \ {i} : rf'[j] = rf[j]
    BY <1>1, <1>2, <1>4
  <2>8. ElectionTypes'
    BY <1>4, <2>6, <2>7 DEF ElectionInv, ElectionTypes
  <2>9. LeaderElected'
    BY <2>6, <2>7 DEF ElectionInv, LeaderElected
  <2>10. ASSUME NEW v \in Server, NEW j \in Server, NEW t \in Nat, Granted(v, j, t)'
         PROVE  Granted(v, j, t)
    <3>1. CASE GrantOnItsWay(v, j, t)'
      BY <1>4, <3>1 DEF GrantOnItsWay, Granted
    <3>2. CASE GrantCounted(v, j, t)' /\ j # i
      BY <2>7, <3>2 DEF GrantCounted, Granted
    <3>3. CASE GrantCounted(v, j, t)' /\ j = i
      <4>1. v \in counted /\ t = r.currentTerm /\ t = c.args.term
        BY <1>6, <2>6, <2>7, <3>3 DEF GrantCounted
      <4>2. CASE v \in r.votes
        BY <1>6, <3>3, <4>1, <4>2 DEF GrantCounted, Granted
      <4>3. CASE v = c.to /\ c.reply.voteGranted
        BY <1>1, <1>2, <3>3, <4>1, <4>3 DEF GrantOnItsWay, Granted
      <4> QED
        BY <2>3, <4>1, <4>2, <4>3
    <3> QED
      BY <2>10, <3>1, <3>2, <3>3 DEF Granted
  <2>11. \A j \in Server : PeerStep(rf[j], rf'[j])
    BY <1>6, <2>6, <2>7 DEF PeerStep, PeerOK, ElectionInv, ElectionTypes
  <2> QED
    BY <2>8, <2>9, <2>10, <2>11, NoGrantStep
<1> QED
  BY <1>5, <1>6

-----------------------------------------------------------------------------
(* The theorem.                                                             *)

LEMMA NextElection ==
    ASSUME CrashesWhenSaved = TRUE, ElectionInv, [Next]_vars
    PROVE  ElectionInv' /\ ElectionStep
<1>1. CASE UNCHANGED vars
  BY <1>1, NoPeer, CalmStep DEF vars
<1>2. ASSUME NEW i \in Server, attemptElection(i) PROVE ElectionInv' /\ ElectionStep
  BY <1>2, AttemptElection
<1>3. ASSUME NEW i \in Server,
             \/ \E command \in Command : ClientStart(i, command)
             \/ CopyBatch(i) \/ ReceiveCommand(i) \/ FinishBatch(i) \/ TakeSnapshot(i)
             \/ BeginSave(i) \/ EndSave(i)
      PROVE  ElectionInv' /\ ElectionStep
  BY <1>3, LocalElection
<1>4. ASSUME NEW i \in Server, CrashAndRestart(i) PROVE ElectionInv' /\ ElectionStep
  BY <1>4, CrashElection
<1>5. ASSUME NEW c \in calls, HandleRequestVote(c) PROVE ElectionInv' /\ ElectionStep
  BY <1>5, HandleRequestVoteElection
<1>6. ASSUME NEW c \in calls, CountVote(c) PROVE ElectionInv' /\ ElectionStep
  BY <1>6, CountVoteElection
<1>7. ASSUME NEW c \in calls, CallFails(c) PROVE ElectionInv' /\ ElectionStep
  BY <1>7, CallFailsElection
<1> QED
  BY <1>1, <1>2, <1>3, <1>4, <1>5, <1>6, <1>7, AppendEntriesElection,
     InstallSnapshotElection, Zenon DEF Next

LEMMA InvariantIsSafe == ElectionInv => ElectionSafety
<1> SUFFICES ASSUME ElectionInv, NEW i \in Server, NEW j \in Server,
                    rf[i].state = "LEADER", rf[j].state = "LEADER",
                    rf[i].currentTerm = rf[j].currentTerm
             PROVE  i = j
  BY DEF ElectionSafety
<1>1. PeerOK(rf[i]) /\ PeerOK(rf[j])
  BY DEF ElectionInv, ElectionTypes
<1>2. PICK v \in Server : v \in rf[i].votes /\ v \in rf[j].votes
  BY <1>1, MajoritiesMeet DEF PeerOK, ElectionInv, LeaderElected
<1> DEFINE t == rf[i].currentTerm
<1>3. Granted(v, i, t) /\ Granted(v, j, t) /\ t \in Nat
  BY <1>1, <1>2 DEF Granted, GrantCounted, PeerOK
<1> HIDE DEF t
<1> QED
  BY <1>3, Zenon DEF ElectionInv, GrantsUnique

\* No two peers are leaders in one term, whatever messages are lost, delayed or
\* reordered, whoever crashes and whenever snapshots are taken: what checkOneLeader
\* asserts in the tests (attemptElection, RequestVote and the closure that counts
\* votes, raft.go).  The hypothesis is needed: a peer that crashes before its batch
\* persister has run forgets its vote, and Raft_double_vote.cfg shows two leaders.
THEOREM OneLeaderPerTerm ==
    ASSUME CrashesWhenSaved = TRUE
    PROVE  Spec => []ElectionSafety
<1>1. ElectionInv /\ [Next]_vars => ElectionInv'
  BY NextElection
<1> QED
  BY <1>1, InvariantIsSafe, InitElection, PTL DEF Spec

-----------------------------------------------------------------------------
(* Fragments of logs.                                                       *)

\* A run of entries from index lo to hi.  Only the term is known of the entry at
\* lo: it is the one a log starts after, or the one that an AppendEntries call
\* has to find in the follower's log.
LogFrag(log) ==
    [lo |-> 0, hi |-> Len(log) - 1, at |-> [k \in 0 .. Len(log) - 1 |-> log[k + 1]]]
ArgsFrag(args) ==
    LET prev == args.prevLogIndex
    IN [lo |-> prev, hi |-> prev + Len(args.entries),
        at |-> [k \in prev .. prev + Len(args.entries) |->
                  IF k = prev THEN [term |-> args.prevLogTerm, command |-> None]
                  ELSE args.entries[k - prev]]]

Within(F) == F.lo .. F.hi

\* Two fragments that agree on the term of an entry agree on it and on all
\* entries before it that both have.
Match(F, G) ==
    \A k \in Within(F) \intersect Within(G) : F.at[k].term = G.at[k].term =>
      \A m \in Within(F) \intersect Within(G) : m <= k =>
        /\ F.at[m].term = G.at[m].term
        /\ m > F.lo /\ m > G.lo => F.at[m] = G.at[m]

FragOK(F) == F.lo \in Nat /\ F.hi \in Int

\* The calls by which a leader has sent a part of its log.
Appends == {c \in calls : c.rpc = "AppendEntries"}

\* All fragments there are: the logs, and what is in the network.
Frags == {LogFrag(rf[i].log) : i \in Server} \union {ArgsFrag(c.args) : c \in Appends}

FragsMatch == \A F, G \in Frags : Match(F, G)

-----------------------------------------------------------------------------
(* The leaders of the past.                                                 *)

\* l has been elected in term t and nobody else can be: a majority has voted for
\* it, and l is no longer a candidate.
TakenBy(l, t) ==
    /\ rf[l].currentTerm >= t
    /\ rf[l].currentTerm = t => rf[l].state # "CANDIDATE"
    /\ \E Q \in SUBSET Server :
         /\ Cardinality(Q) > Cardinality(Server) \div 2
         /\ \A v \in Q :
              /\ \A i \in Server : Granted(v, i, t) => i = l
              /\ \/ rf[v].currentTerm > t
                 \/ rf[v].currentTerm = t /\ rf[v].votedFor = l

\* Every entry was made by the leader of its term.
TermsTaken ==
    \A F \in Frags : \A k \in Within(F) :
      k > F.lo => \E l \in Server : TakenBy(l, F.at[k].term)

\* AppendEntries is called by the leader of the term, and not on itself.
SendersTaken ==
    \A c \in Appends : \E l \in Server : l # c.to /\ TakenBy(l, c.args.term)

\* A leader's log goes as far as any entry of its term.
LeaderOwns ==
    \A i \in Server : rf[i].state = "LEADER" =>
      \A F \in Frags : \A k \in Within(F) :
        k > F.lo /\ F.at[k].term = rf[i].currentTerm => k < Len(rf[i].log)

\* The types of what replication reads.
LogOK(r) ==
    /\ r.log \in Seq(Entry) /\ r.log # << >>
    /\ r.nextIndex \in [Server -> Int] /\ r.matchIndex \in [Server -> Int]
ArgsOK(args) == args.prevLogIndex \in Nat /\ args.entries \in Seq(Entry)
ReplyOK(reply) == reply.conflictingIndex \in Int /\ reply.conflictingLogLen \in Int

LogTypes ==
    /\ \A i \in Server : LogOK(rf[i])
    /\ \A c \in Appends : ArgsOK(c.args) /\ (c.reply # None => ReplyOK(c.reply))

LogInv == LogTypes /\ FragsMatch /\ TermsTaken /\ SendersTaken /\ LeaderOwns

\* No peer has discarded a part of its log.
NoSnapshot == \A i \in Server : rf[i].snapshotIndex = 0

-----------------------------------------------------------------------------
LEMMA FragTypes ==
    ASSUME LogTypes
    PROVE  \A F \in Frags : FragOK(F)
<1>1. \A i \in Server : FragOK(LogFrag(rf[i].log))
  BY DEF LogTypes, LogOK, FragOK, LogFrag
<1>2. \A c \in Appends : FragOK(ArgsFrag(c.args))
  BY DEF LogTypes, ArgsOK, FragOK, ArgsFrag
<1> QED
  BY <1>1, <1>2 DEF Frags

LEMMA EntryTerms ==
    ASSUME LogTypes, NEW F \in Frags, NEW k \in Within(F), k > F.lo
    PROVE  F.at[k].term \in Nat
<1>1. ASSUME NEW i \in Server, F = LogFrag(rf[i].log) PROVE F.at[k].term \in Nat
  <2>1. k \in Int /\ k >= 0 /\ k <= Len(rf[i].log) - 1 /\ rf[i].log \in Seq(Entry)
    BY <1>1 DEF LogFrag, Within, LogTypes, LogOK
  <2>2. F.at[k] = rf[i].log[k + 1]
    BY <1>1, <2>1 DEF LogFrag
  <2>3. rf[i].log[k + 1] \in Entry
    BY <2>1
  <2> QED
    BY <2>2, <2>3 DEF Entry
<1>2. ASSUME NEW c \in Appends, F = ArgsFrag(c.args) PROVE F.at[k].term \in Nat
  <2>1. /\ c.args.prevLogIndex \in Nat /\ c.args.entries \in Seq(Entry)
        /\ k \in Int /\ k > c.args.prevLogIndex /\ k <= c.args.prevLogIndex + Len(c.args.entries)
    BY <1>2 DEF ArgsFrag, Within, LogTypes, ArgsOK
  <2>2. F.at[k] = c.args.entries[k - c.args.prevLogIndex]
    BY <1>2, <2>1 DEF ArgsFrag
  <2>3. c.args.entries[k - c.args.prevLogIndex] \in Entry
    BY <2>1
  <2> QED
    BY <2>2, <2>3 DEF Entry
<1> QED
  BY <1>1, <1>2 DEF Frags

LEMMA MatchReflexive == \A F : Match(F, F)
  BY DEF Match

LEMMA MatchSymmetric == \A F, G : Match(F, G) => Match(G, F)
  BY DEF Match

\* A part of a fragment matches what the whole matches.
LEMMA PartMatches ==
    ASSUME NEW L, NEW M, NEW G, FragOK(L), FragOK(M), FragOK(G), Match(L, G),
           L.lo <= M.lo,
           \A k \in Within(M) : k > M.lo => k \in Within(L) /\ M.at[k] = L.at[k],
           M.lo \in Within(L) => M.at[M.lo].term = L.at[M.lo].term
    PROVE  Match(M, G)
<1> SUFFICES ASSUME NEW k \in Within(M) \intersect Within(G), M.at[k].term = G.at[k].term,
                    NEW m \in Within(M) \intersect Within(G), m <= k
             PROVE  /\ M.at[m].term = G.at[m].term
                    /\ m > M.lo /\ m > G.lo => M.at[m] = G.at[m]
  BY DEF Match
<1>1. M.lo <= m /\ k \in Int /\ m \in Int /\ M.lo \in Nat
  BY DEF Within, FragOK
<1>2. CASE k = M.lo
  BY <1>1, <1>2
<1>3. CASE k > M.lo
  <2>1. k \in Within(L) /\ M.lo \in Within(L)
    BY <1>1, <1>3 DEF Within, FragOK
  <2>2. m \in Within(L) /\ M.at[m].term = L.at[m].term /\ (m > M.lo => M.at[m] = L.at[m])
    BY <1>1, <2>1 DEF Within, FragOK
  <2>3. M.at[k] = L.at[k]
    BY <1>3
  <2>4. /\ L.at[m].term = G.at[m].term
        /\ m > L.lo /\ m > G.lo => L.at[m] = G.at[m]
    BY <2>1, <2>2, <2>3 DEF Match
  <2> QED
    BY <1>1, <2>2, <2>4 DEF FragOK
<1> QED
  BY <1>1, <1>2, <1>3

\* A log with an entry more matches a fragment that has no entry of the same term
\* there.
LEMMA LongerMatches ==
    ASSUME NEW L, NEW N, NEW G, FragOK(L), FragOK(N), FragOK(G), Match(L, G),
           N.lo = L.lo, N.hi = L.hi + 1,
           \A k \in Within(L) : N.at[k] = L.at[k],
           N.hi \in Within(G) /\ N.hi > G.lo => G.at[N.hi].term # N.at[N.hi].term
    PROVE  Match(N, G)
<1> SUFFICES ASSUME NEW k \in Within(N) \intersect Within(G), N.at[k].term = G.at[k].term,
                    NEW m \in Within(N) \intersect Within(G), m <= k
             PROVE  /\ N.at[m].term = G.at[m].term
                    /\ m > N.lo /\ m > G.lo => N.at[m] = G.at[m]
  BY DEF Match
<1>1. k \in Int /\ m \in Int /\ G.lo <= m /\ m <= N.hi /\ N.lo <= m /\ k <= N.hi /\ N.lo <= k
  BY DEF Within, FragOK
<1>2. CASE k = N.hi
  <2>1. k = G.lo
    BY <1>1, <1>2 DEF FragOK, Within
  <2> QED
    BY <1>1, <2>1 DEF FragOK
<1>3. CASE k < N.hi
  <2>1. k \in Within(L) /\ m \in Within(L)
    BY <1>1, <1>3 DEF Within, FragOK
  <2> QED
    BY <2>1 DEF Match
<1> QED
  BY <1>1, <1>2, <1>3 DEF FragOK

\* A log L that agrees with the fragment M up to index q, and is continued by
\* M from there on, matches what both match.
LEMMA JoinedMatches ==
    ASSUME NEW L, NEW M, NEW N, NEW G, FragOK(L), FragOK(M), FragOK(N), FragOK(G),
           Match(L, M), Match(L, G), Match(M, G),
           L.lo = 0, N.lo = 0, N.hi = M.hi, M.lo \in Within(L),
           NEW q \in Within(M) \intersect Within(L),
           \A k \in M.lo .. q : L.at[k].term = M.at[k].term,
           \A k \in 0 .. q : N.at[k] = L.at[k],
           \A k \in q + 1 .. M.hi : N.at[k] = M.at[k]
    PROVE  Match(N, G)
<1> DEFINE p == M.lo
<1>0. /\ p \in Nat /\ q \in Int /\ p <= q /\ q <= M.hi /\ M.hi \in Int /\ L.hi \in Int /\ p <= L.hi
      /\ G.lo \in Nat /\ G.hi \in Int /\ q <= L.hi
  BY DEF FragOK, Within
<1>1. \A k \in p + 1 .. M.hi : N.at[k] = M.at[k]
  <2> TAKE k \in p + 1 .. M.hi
  <2>1. CASE k > q
    BY <1>0, <2>1
  <2>2. CASE k <= q
    <3>1. L.at[q].term = M.at[q].term /\ q \in Within(L) \intersect Within(M)
      BY <1>0
    <3>2. k \in Within(L) \intersect Within(M) /\ k > L.lo /\ k > M.lo
      BY <1>0, <2>2 DEF Within
    <3>3. L.at[k] = M.at[k]
      BY <2>2, <3>1, <3>2 DEF Match
    <3> QED
      BY <1>0, <2>2, <3>3
  <2> QED
    BY <1>0, <2>1, <2>2
<1>2. (\A k \in 0 .. p : N.at[k] = L.at[k]) /\ L.at[p].term = M.at[p].term
  BY <1>0
<1> SUFFICES ASSUME NEW k \in Within(N) \intersect Within(G), N.at[k].term = G.at[k].term,
                    NEW m \in Within(N) \intersect Within(G), m <= k
             PROVE  /\ N.at[m].term = G.at[m].term
                    /\ m > N.lo /\ m > G.lo => N.at[m] = G.at[m]
  BY DEF Match
<1>3. /\ k \in Int /\ m \in Int /\ 0 <= m /\ k <= M.hi /\ G.lo <= m /\ k <= G.hi
  BY DEF Within, FragOK
<1>4. CASE k <= p
  <2>1. k \in Within(L) \intersect Within(G) /\ m \in Within(L) \intersect Within(G)
    BY <1>0, <1>3, <1>4 DEF Within
  <2>2. N.at[k] = L.at[k] /\ N.at[m] = L.at[m]
    BY <1>2, <1>3, <1>4, <1>0
  <2> QED
    BY <2>1, <2>2 DEF Match
<1>5. CASE k > p
  <2>1. k \in Within(M) \intersect Within(G) /\ M.at[k].term = G.at[k].term
    BY <1>0, <1>1, <1>3, <1>5 DEF Within
  <2>2. CASE m > p
    <3>1. m \in Within(M) \intersect Within(G) /\ N.at[m] = M.at[m]
      BY <1>0, <1>1, <1>3, <2>2 DEF Within
    <3> QED
      BY <2>1, <2>2, <3>1 DEF Match
  <2>3. CASE m <= p
    <3>1. p \in Within(M) \intersect Within(G) /\ p \in Within(L)
      BY <1>0, <1>3, <1>5, <2>3 DEF Within
    <3>2. M.at[p].term = G.at[p].term
      BY <1>0, <1>3, <1>5, <2>1, <3>1 DEF Match
    <3>3. L.at[p].term = G.at[p].term
      BY <1>2, <3>2
    <3>4. m \in Within(L) \intersect Within(G)
      BY <1>0, <1>3, <2>3 DEF Within
    <3>5. /\ L.at[m].term = G.at[m].term
          /\ m > L.lo /\ m > G.lo => L.at[m] = G.at[m]
      BY <2>3, <3>1, <3>3, <3>4 DEF Match
    <3>6. N.at[m] = L.at[m]
      BY <1>0, <1>2, <1>3, <2>3
    <3> QED
      BY <3>5, <3>6
  <2> QED
    BY <1>0, <1>3, <2>2, <2>3
<1> QED
  BY <1>0, <1>3, <1>4, <1>5

-----------------------------------------------------------------------------
(* Elections of the past are settled.                                       *)

LEMMA TakenKept ==
    ASSUME ElectionInv, ElectionInv', ElectionStep,
           NEW l \in Server, NEW t \in Nat, TakenBy(l, t)
    PROVE  TakenBy(l, t)'
<1>1. \A v \in Server : /\ rf[v].currentTerm \in Nat /\ rf'[v].currentTerm \in Nat
                        /\ PeerStep(rf[v], rf'[v])
  BY DEF ElectionInv, ElectionTypes, PeerOK, ElectionStep
<1>2. PICK Q \in SUBSET Server :
         /\ Cardinality(Q) > Cardinality(Server) \div 2
         /\ \A v \in Q :
              /\ \A i \in Server : Granted(v, i, t) => i = l
              /\ \/ rf[v].currentTerm > t
                 \/ rf[v].currentTerm = t /\ rf[v].votedFor = l
  BY DEF TakenBy
<1>3. ASSUME NEW v \in Q
      PROVE  \/ rf'[v].currentTerm > t
             \/ rf'[v].currentTerm = t /\ rf'[v].votedFor = l
  BY <1>1, <1>2, ConstantsOK DEF PeerStep
<1>4. ASSUME NEW v \in Q, NEW i \in Server, Granted(v, i, t)' PROVE i = l
  <2>1. Granted(v, i, t) => i = l
    BY <1>2
  <2>2. Granted(v, i, t) \/ t = rf'[v].currentTerm
    BY <1>4 DEF ElectionStep
  <2>3. \/ t < rf'[v].currentTerm
        \/ t = rf'[v].currentTerm /\ rf'[v].votedFor = i
    BY <1>4 DEF ElectionInv, GrantsHonoured
  <2> QED
    BY <1>1, <1>3, <2>1, <2>2, <2>3
<1>5. /\ rf'[l].currentTerm >= t
      /\ rf'[l].currentTerm = t => rf'[l].state # "CANDIDATE"
  BY <1>1 DEF TakenBy, PeerStep
<1> QED
  BY <1>2, <1>3, <1>4, <1>5 DEF TakenBy

\* A leader has been elected by its voters.
LeadersElected ==
    \A i \in Server : rf[i].state = "LEADER" => TakenBy(i, rf[i].currentTerm)

LEMMA LeaderTakes == ElectionInv => LeadersElected
<1> SUFFICES ASSUME ElectionInv, NEW i \in Server, rf[i].state = "LEADER"
             PROVE  TakenBy(i, rf[i].currentTerm)
  BY DEF LeadersElected
<1>1. PICK t \in Nat : t = rf[i].currentTerm
  BY DEF ElectionInv, ElectionTypes, PeerOK
<1>2. PICK Q \in SUBSET Server : Q = rf[i].votes
  BY DEF ElectionInv, ElectionTypes, PeerOK
<1>3. Cardinality(Q) > Cardinality(Server) \div 2
  BY <1>2 DEF ElectionInv, LeaderElected
<1>4. ASSUME NEW v \in Q
      PROVE  /\ \A j \in Server : Granted(v, j, t) => j = i
             /\ \/ rf[v].currentTerm > t
                \/ rf[v].currentTerm = t /\ rf[v].votedFor = i
  <2>1. Granted(v, i, t) /\ v \in Server
    BY <1>1, <1>2 DEF Granted, GrantCounted
  <2>2. \A j \in Server : Granted(v, j, t) => j = i
    BY <2>1, Zenon DEF ElectionInv, GrantsUnique
  <2>3. \/ t < rf[v].currentTerm
        \/ t = rf[v].currentTerm /\ rf[v].votedFor = i
    BY <2>1, Zenon DEF ElectionInv, GrantsHonoured
  <2>4. rf[v].currentTerm \in Nat
    BY <2>1 DEF ElectionInv, ElectionTypes, PeerOK
  <2> QED
    BY <2>2, <2>3, <2>4
<1>5. rf[i].currentTerm >= t /\ rf[i].state # "CANDIDATE"
  BY <1>1
<1>6. TakenBy(i, t)
  BY <1>3, <1>4, <1>5 DEF TakenBy
<1> QED
  BY <1>1, <1>6

\* The leader of a term is the only one that has been elected in it.
TakenOnce ==
    \A i, l \in Server :
      rf[i].state = "LEADER" /\ TakenBy(l, rf[i].currentTerm) => l = i

LEMMA TakenLeader == ElectionInv => TakenOnce
<1> SUFFICES ASSUME ElectionInv, NEW i \in Server, NEW l \in Server, rf[i].state = "LEADER",
                    TakenBy(l, rf[i].currentTerm)
             PROVE  l = i
  BY DEF TakenOnce
<1>1. PICK t \in Nat : t = rf[i].currentTerm
  BY DEF ElectionInv, ElectionTypes, PeerOK
<1>2. PICK Q \in SUBSET Server :
         /\ Cardinality(Q) > Cardinality(Server) \div 2
         /\ \A v \in Q : \A j \in Server : Granted(v, j, t) => j = l
  BY <1>1 DEF TakenBy
<1>3. rf[i].votes \subseteq Server /\ Cardinality(rf[i].votes) > Cardinality(Server) \div 2
  BY DEF ElectionInv, ElectionTypes, PeerOK, LeaderElected
<1>4. PICK v \in Server : v \in Q /\ v \in rf[i].votes
  BY <1>2, <1>3, MajoritiesMeet
<1>5. Granted(v, i, t)
  BY <1>1, <1>4 DEF Granted, GrantCounted
<1> QED
  BY <1>2, <1>4, <1>5

-----------------------------------------------------------------------------
(* What a step has to keep.                                                 *)

\* The step adds no fragments but those of New, which match all others, are made
\* of entries of elected leaders, and do not go beyond the log of the leader of
\* their term.
LEMMA LogStep ==
    ASSUME ElectionInv, ElectionInv', ElectionStep, LogInv, LogTypes', SendersTaken',
           NEW New,
           \A F \in Frags' : F \in Frags \/ F \in New,
           \A N \in New : \A G \in Frags \union New : Match(N, G),
           \A N \in New : \A k \in Within(N) :
             k > N.lo => \E l \in Server : TakenBy(l, N.at[k].term)',
           \A i \in Server : rf'[i].state = "LEADER" =>
             /\ Len(rf'[i].log) >= Len(rf[i].log)
             /\ \A N \in New : \A k \in Within(N) :
                  k > N.lo /\ N.at[k].term = rf'[i].currentTerm => k < Len(rf'[i].log)
    PROVE  LogInv'
<1>1. FragsMatch'
  <2> SUFFICES ASSUME NEW F \in Frags', NEW G \in Frags' PROVE Match(F, G)
    BY DEF FragsMatch
  <2>1. F \in Frags /\ G \in Frags => Match(F, G)
    BY DEF LogInv, FragsMatch
  <2>2. Match(F, G) <=> Match(G, F)
    BY MatchSymmetric
  <2> QED
    BY <2>1, <2>2
<1>2. ASSUME NEW F \in Frags, NEW k \in Within(F), k > F.lo
      PROVE  \E l \in Server : TakenBy(l, F.at[k].term) /\ TakenBy(l, F.at[k].term)'
  <2>1. PICK l \in Server : TakenBy(l, F.at[k].term)
    BY <1>2 DEF LogInv, TermsTaken
  <2>2. PICK t \in Nat : t = F.at[k].term
    BY <1>2, EntryTerms DEF LogInv
  <2>3. TakenBy(l, t)'
    BY <2>1, <2>2, TakenKept
  <2> QED
    BY <2>1, <2>2, <2>3
<1>3. TermsTaken'
  <2> SUFFICES ASSUME NEW F \in Frags', NEW k \in Within(F), k > F.lo
               PROVE  \E l \in Server : TakenBy(l, F.at[k].term)'
    BY DEF TermsTaken
  <2> QED
    BY <1>2
<1>4. LeaderOwns'
  <2> SUFFICES ASSUME NEW i \in Server, rf'[i].state = "LEADER",
                      NEW F \in Frags', NEW k \in Within(F), k > F.lo,
                      F.at[k].term = rf'[i].currentTerm
               PROVE  k < Len(rf'[i].log)
    BY DEF LeaderOwns
  <2>1. CASE F \in New
    BY <2>1
  <2>2. CASE F \in Frags
    <3>1. PeerStep(rf[i], rf'[i]) /\ rf'[i].currentTerm = rf[i].currentTerm
      BY DEF ElectionStep, PeerStep
    <3>2. PICK l \in Server : TakenBy(l, F.at[k].term) /\ TakenBy(l, F.at[k].term)'
      BY <1>2, <2>2
    <3>3. l = i
      <4>1. TakenOnce'
        BY TakenLeader, PTL
      <4> QED
        BY <3>2, <4>1 DEF TakenOnce
    <3>4. rf[i].state = "LEADER"
      BY <3>1, <3>2, <3>3 DEF TakenBy, PeerStep
    <3>5. k < Len(rf[i].log)
      BY <2>2, <3>1, <3>4 DEF LogInv, LeaderOwns
    <3>6. FragOK(F) /\ k \in Int
      BY <2>2, FragTypes DEF LogInv, FragOK, Within
    <3>7. Len(rf[i].log) \in Nat /\ Len(rf'[i].log) \in Nat
      BY DEF LogInv, LogTypes, LogOK
    <3> QED
      BY <3>5, <3>6, <3>7
  <2> QED
    BY <2>1, <2>2
<1> QED
  BY <1>1, <1>3, <1>4 DEF LogInv

LEMMA SendersKept ==
    ASSUME ElectionInv, ElectionInv', ElectionStep, LogInv,
           \A c \in Appends' :
             \/ \E d \in Appends : c.to = d.to /\ c.args = d.args
             \/ \E l \in Server : l # c.to /\ TakenBy(l, c.args.term)'
    PROVE  SendersTaken'
<1> SUFFICES ASSUME NEW c \in Appends', NEW d \in Appends, c.to = d.to /\ c.args = d.args
             PROVE  \E l \in Server : l # c.to /\ TakenBy(l, c.args.term)'
  BY DEF SendersTaken
<1>1. PICK l \in Server : l # d.to /\ TakenBy(l, d.args.term)
  BY DEF LogInv, SendersTaken
<1>2. PICK t \in Nat : t = d.args.term
  BY DEF Appends, ElectionInv, ElectionTypes, CallOK
<1>3. TakenBy(l, t)'
  BY <1>1, <1>2, TakenKept
<1> QED
  BY <1>1, <1>2, <1>3

\* The logs stay as they are, and so do the calls in the network.
LEMMA QuietStep ==
    ASSUME ElectionInv, ElectionInv', ElectionStep, LogInv, LogTypes',
           \A j \in Server : rf'[j].log = rf[j].log,
           \A c \in Appends' : \E d \in Appends : c.to = d.to /\ c.args = d.args
    PROVE  LogInv'
<1>1. SendersTaken'
  BY SendersKept
<1>2. \A F \in Frags' : F \in Frags
  BY DEF Frags
<1>3. \A i \in Server : Len(rf'[i].log) >= Len(rf[i].log)
  BY DEF LogInv, LogTypes, LogOK
<1>4. PICK New : New = {}
  OBVIOUS
<1>5. /\ \A F \in Frags' : F \in Frags \/ F \in New
      /\ \A N \in New : \A G \in Frags \union New : Match(N, G)
      /\ \A N \in New : \A k \in Within(N) :
           k > N.lo => \E l \in Server : TakenBy(l, N.at[k].term)'
      /\ \A i \in Server : rf'[i].state = "LEADER" =>
           /\ Len(rf'[i].log) >= Len(rf[i].log)
           /\ \A N \in New : \A k \in Within(N) :
                k > N.lo /\ N.at[k].term = rf'[i].currentTerm => k < Len(rf'[i].log)
  BY <1>2, <1>3, <1>4
<1> QED
  BY <1>1, <1>5, LogStep

-----------------------------------------------------------------------------
(* What the code of a peer does to its log and its indices.                 *)

LEMMA FewInts ==
    /\ \A a, b \in Int : Max({a, b}) \in {a, b} /\ Max({a, b}) >= a /\ Max({a, b}) >= b
    /\ \A a, b, d \in Int : Max({a, b, d}) \in Int
<1>1. ASSUME NEW a \in Int, NEW b \in Int
      PROVE  Max({a, b}) \in {a, b} /\ Max({a, b}) >= a /\ Max({a, b}) >= b
  <2>1. \E x \in {a, b} : \A y \in {a, b} : x >= y
    OBVIOUS
  <2> QED
    BY <2>1, Zenon DEF Max
<1>2. ASSUME NEW a \in Int, NEW b \in Int, NEW d \in Int PROVE Max({a, b, d}) \in Int
  <2>1. \E x \in {a, b, d} : \A y \in {a, b, d} : x >= y
    OBVIOUS
  <2>2. Max({a, b, d}) \in {a, b, d}
    BY <2>1, Zenon DEF Max
  <2> QED
    BY <2>2
<1> QED
  BY <1>1, <1>2

LEMMA SmallestOf ==
    ASSUME NEW T, T \subseteq Nat, T # {}
    PROVE  Min(T) \in T /\ \A y \in T : Min(T) <= y
<1>1. PICK x \in T : \A y \in T : ~(<<y, x>> \in OpToRel(<, Nat))
  BY NatLessThanWellFounded, WFMin
<1>2. \A y \in T : ~(y < x)
  BY <1>1 DEF OpToRel
<1>3. \E z \in T : \A y \in T : z <= y
  BY <1>2
<1> QED
  BY <1>3, Zenon DEF Min

LEMMA LargestOf ==
    ASSUME NEW T, T \subseteq Nat, T # {}, NEW h \in Nat, \A x \in T : x <= h
    PROVE  Max(T) \in T
<1> DEFINE U == {h - x : x \in T}
<1>1. U \subseteq Nat /\ U # {}
  <2>1. \A x \in T : h - x \in Nat
    OBVIOUS
  <2> QED
    BY <2>1
<1>2. PICK m \in U : \A y \in U : m <= y
  <2> HIDE DEF U
  <2> QED
    BY <1>1, SmallestOf
<1>3. PICK x \in T : m = h - x
  OBVIOUS
<1>4. ASSUME NEW y \in T PROVE x >= y
  <2>1. h - y \in U
    OBVIOUS
  <2>2. h - x <= h - y /\ x \in Nat /\ y \in Nat
    BY <1>2, <1>3, <2>1
  <2> QED
    BY <2>2
<1> QED
  BY <1>4, Zenon DEF Max

\* A peer keeps its log, and its indices stay integers.
Keeps(r, s) == s.log = r.log /\ LogOK(s)

LEMMA ElectionKeeps ==
    ASSUME NEW r, PeerOK(r), LogOK(r), r.snapshotIndex = 0
    PROVE  /\ Keeps(r, r)
           /\ \A term : Keeps(r, stepDownToFollower(r, term))
           /\ \A me : Keeps(r, startElectionState(r, me)) /\ Keeps(r, becomeLeader(r, me))
           /\ \A args : Keeps(r, RequestVote(r, args).rf)
           /\ Keeps(r, Make(encodeState(r)))
<1>1. Keeps(r, r)
  BY DEF Keeps
<1>2. ASSUME NEW s, Keeps(r, s), PeerOK(s), NEW a1, NEW a2, NEW a3, NEW a4
      PROVE  /\ Keeps(r, [s EXCEPT !.currentTerm = a1, !.votedFor = a2, !.dirty = a3, !.state = a4])
             /\ Keeps(r, [s EXCEPT !.state = a1])
             /\ Keeps(r, [s EXCEPT !.votedFor = a1, !.dirty = a2])
  BY <1>2 DEF Keeps, LogOK, PeerOK, PeerFields
<1>3. ASSUME NEW term PROVE Keeps(r, stepDownToFollower(r, term))
  BY <1>1, <1>2, Zenon DEF stepDownToFollower
<1>4. ASSUME NEW me PROVE Keeps(r, startElectionState(r, me))
  BY DEF startElectionState, Keeps, LogOK, PeerOK, PeerFields
<1>5. ASSUME NEW me PROVE Keeps(r, becomeLeader(r, me))
  <2>1. Len(r.log) \in Int /\ LogEnd(r) \in Int /\ LastIndex(r) \in Int
    BY DEF LogEnd, LastIndex, LogOK
  <2>2. ASSUME NEW n \in [Server -> Int], NEW m \in [Server -> Int], NEW f
        PROVE  Keeps(r, [r EXCEPT !.state = "LEADER", !.nextIndex = n, !.matchIndex = m, !.inFlight = f])
    BY DEF Keeps, LogOK, PeerOK, PeerFields
  <2>3. /\ [s \in Server |-> IF s = me THEN r.nextIndex[s] ELSE LogEnd(r)] \in [Server -> Int]
        /\ [s \in Server |-> IF s = me THEN LastIndex(r) ELSE 0] \in [Server -> Int]
    BY <2>1 DEF LogOK
  <2> QED
    BY <2>2, <2>3, Zenon DEF becomeLeader
<1>6. ASSUME NEW args PROVE Keeps(r, RequestVote(r, args).rf)
  <2> DEFINE s == IF args.term > r.currentTerm
                  THEN stepDownToFollower(r, args.term) ELSE r
  <2>1. Keeps(r, s)
    BY <1>1, <1>3
  <2>2. DOMAIN s = PeerFields
    BY DEF stepDownToFollower, PeerOK, PeerFields
  <2> HIDE DEF s
  <2>3. ASSUME NEW a1, NEW a2 PROVE Keeps(r, [s EXCEPT !.votedFor = a1, !.dirty = a2])
    BY <2>1, <2>2 DEF Keeps, LogOK, PeerFields
  <2> QED
    BY <2>1, <2>3, Zenon DEF RequestVote, s
<1>7. Keeps(r, Make(encodeState(r)))
  BY DEF Make, encodeState, Keeps, LogOK
<1> QED
  BY <1>1, <1>3, <1>4, <1>5, <1>6, <1>7

LEMMA VoteReplyKeeps ==
    ASSUME NEW r, PeerOK(r), LogOK(r), r.snapshotIndex = 0,
           NEW me, NEW voter \in Server, NEW args, NEW reply
    PROVE  Keeps(r, handleVoteReply(r, me, voter, args, reply))
<1> DEFINE counted == IF reply.voteGranted THEN r.votes \union {voter} ELSE r.votes
           s == [r EXCEPT !.votes = counted]
<1>1. counted \subseteq Server
  BY DEF PeerOK
<1> HIDE DEF counted
<1>2. PeerOK(s) /\ LogOK(s) /\ s.snapshotIndex = 0 /\ s.log = r.log
  BY <1>1 DEF PeerOK, PeerFields, LogOK
<1> HIDE DEF s
<1>3. Keeps(s, becomeLeader(s, me)) /\ Keeps(r, s)
  BY <1>2, ElectionKeeps DEF Keeps
<1>4. Keeps(r, becomeLeader(s, me))
  BY <1>2, <1>3 DEF Keeps
<1>5. Keeps(r, r) /\ Keeps(r, stepDownToFollower(r, reply.term))
  BY ElectionKeeps
<1> QED
  BY <1>3, <1>4, <1>5, Zenon DEF handleVoteReply, s, counted

LEMMA BackedUpInt ==
    ASSUME NEW r, LogOK(r), r.snapshotIndex = 0, NEW reply, ReplyOK(reply)
    PROVE  backedUp(r, reply) \in Int
<1> DEFINE same == {k \in r.snapshotIndex + 1 .. LastIndex(r) :
                      At(r, k).term = reply.conflictingTerm}
<1>1. Len(r.log) \in Nat /\ LastIndex(r) = Len(r.log) - 1
  BY DEF LogOK, LastIndex, LogEnd
<1>2. same \subseteq Nat /\ \A x \in same : x <= Len(r.log)
  BY <1>1
<1> HIDE DEF same
<1>3. ASSUME same # {} PROVE Max(same) + 1 \in Int
  <2>1. Max(same) \in same
    BY <1>1, <1>2, <1>3, LargestOf
  <2>2. Max(same) \in Nat
    BY <1>2, <2>1, Zenon
  <2> QED
    BY <2>2
<1> QED
  BY <1>3, Zenon DEF ReplyOK, backedUp, same

LEMMA ReplyKeeps ==
    ASSUME NEW r, PeerOK(r), LogOK(r), r.snapshotIndex = 0, NEW me, NEW server \in Server,
           NEW args, NEW latest, NEW ok, NEW reply
    PROVE  /\ ~ok \/ (ArgsOK(args) /\ ReplyOK(reply)) =>
                Keeps(r, sendAndHandle(r, me, server, args, latest, ok, reply))
           /\ Keeps(r, handleSnapshotReply(r, server, args, ok, reply))
<1>1. ASSUME NEW s, PeerOK(s), LogOK(s), s.snapshotIndex = 0, ArgsOK(args), ReplyOK(reply)
      PROVE  Keeps(s, handleAppendEntriesResponse(s, me, server, args, reply))
  <2> DEFINE match == args.prevLogIndex + Len(args.entries)
             m == [s EXCEPT !.matchIndex[server] = match]
             u == IF match > s.matchIndex[server] THEN updateCommitIndex(m, me) ELSE s
  <2>1. match \in Int /\ s.matchIndex[server] \in Int /\ s.nextIndex[server] \in Int
    BY <1>1 DEF ArgsOK, LogOK
  <2> HIDE DEF match
  <2>2. Keeps(s, s) /\ Keeps(s, m) /\ DOMAIN m = PeerFields /\ DOMAIN s = PeerFields
    BY <1>1, <2>1 DEF Keeps, LogOK, PeerOK, PeerFields
  <2> HIDE DEF m
  <2>3. ASSUME NEW k PROVE Keeps(s, [m EXCEPT !.commitIndex = k]) /\ DOMAIN [m EXCEPT !.commitIndex = k] = PeerFields
    BY <2>2 DEF Keeps, LogOK, PeerFields
  <2>4. Keeps(s, u) /\ DOMAIN u = PeerFields
    BY <2>2, <2>3, Zenon DEF updateCommitIndex, u
  <2> HIDE DEF u
  <2>5. ASSUME NEW w, Keeps(s, w), DOMAIN w = PeerFields, NEW n \in Int
        PROVE  Keeps(s, [w EXCEPT !.nextIndex[server] = n])
    BY <2>5 DEF Keeps, LogOK, PeerFields
  <2>6. Max({u.nextIndex[server], u.matchIndex[server] + 1}) \in Int
    <3>1. u.nextIndex[server] \in Int /\ u.matchIndex[server] + 1 \in Int
      BY <2>4 DEF Keeps, LogOK
    <3> QED
      BY <3>1, FewInts
  <2>7. Max({backedUp(s, reply), s.matchIndex[server] + 1, 1}) \in Int
    <3>1. backedUp(s, reply) \in Int
      BY <1>1, BackedUpInt
    <3>2. s.matchIndex[server] + 1 \in Int
      BY <2>1
    <3> QED
      BY <3>1, <3>2, FewInts
  <2>8. /\ Keeps(s, [u EXCEPT !.nextIndex[server] = Max({u.nextIndex[server], u.matchIndex[server] + 1})])
        /\ Keeps(s, [s EXCEPT !.nextIndex[server] = Max({backedUp(s, reply), s.matchIndex[server] + 1, 1})])
        /\ Keeps(s, stepDownToFollower(s, reply.term))
    BY <1>1, <2>2, <2>4, <2>5, <2>6, <2>7, ElectionKeeps
  <2> QED
    BY <2>2, <2>8, Zenon DEF handleAppendEntriesResponse, u, m, match
<1>2. ~ok \/ (ArgsOK(args) /\ ReplyOK(reply)) =>
        Keeps(r, sendAndHandle(r, me, server, args, latest, ok, reply))
  <2> DEFINE s == IF latest THEN [r EXCEPT !.inFlight[server] = FALSE] ELSE r
  <2>1. PeerOK(s) /\ LogOK(s) /\ s.snapshotIndex = 0 /\ Keeps(r, s)
    BY DEF Keeps, LogOK, PeerOK, PeerFields
  <2> HIDE DEF s
  <2>2. CASE ~ok
    <3>1. sendAndHandle(r, me, server, args, latest, ok, reply) = s
      BY <2>2, Zenon DEF sendAndHandle, s
    <3> QED
      BY <2>1, <2>2, <3>1
  <2>3. CASE ArgsOK(args) /\ ReplyOK(reply)
    <3>1. Keeps(s, handleAppendEntriesResponse(s, me, server, args, reply))
      BY <1>1, <2>1, <2>3
    <3>2. Keeps(r, handleAppendEntriesResponse(s, me, server, args, reply))
      BY <2>1, <3>1 DEF Keeps
    <3> QED
      BY <2>1, <3>2, Zenon DEF sendAndHandle, s
  <2> QED
    BY <2>2, <2>3
<1>3. Keeps(r, handleSnapshotReply(r, server, args, ok, reply))
  <2>1. ASSUME NEW n \in Int, NEW k \in Int
        PROVE  Keeps(r, [r EXCEPT !.nextIndex[server] = n, !.matchIndex[server] = k])
    BY DEF Keeps, LogOK, PeerOK, PeerFields
  <2>2. r.nextIndex[server] \in Int /\ r.snapshotIndex + 1 \in Int /\ r.matchIndex[server] \in Int
        /\ r.snapshotIndex \in Int
    BY DEF LogOK
  <2>3. Max({r.nextIndex[server], r.snapshotIndex + 1}) \in Int /\ Max({r.matchIndex[server], r.snapshotIndex}) \in Int
    BY <2>2, FewInts
  <2>4. Keeps(r, r) /\ Keeps(r, stepDownToFollower(r, reply.term))
    BY ElectionKeeps
  <2> QED
    BY <2>1, <2>3, <2>4, Zenon DEF handleSnapshotReply
<1> QED
  BY <1>2, <1>3

\* The log has entries with the terms of E after index p.
Holds(log, p, E) == \A m \in 1 .. Len(E) : p + m < Len(log) /\ log[p + m + 1].term = E[m].term

\* N is the log kept through an index q, the last up to which it has the terms of
\* the entries E that follow index p, and continued with the rest of E.
Joined(N, log, p, E) ==
    /\ N \in Seq(Entry) /\ Len(N) = p + Len(E) + 1
    /\ \E q \in p .. p + Len(E) :
         /\ q < Len(log) /\ q < p + Len(E)
         /\ \A k \in p + 1 .. q : log[k + 1].term = E[k - p].term
         /\ q + 1 < Len(log) => log[q + 2].term # E[(q + 1) - p].term
         /\ \A k \in 0 .. q : N[k + 1] = log[k + 1]
         /\ \A k \in q + 1 .. p + Len(E) : N[k + 1] = E[k - p]

LEMMA AppendedLog ==
    ASSUME NEW r, r.log \in Seq(Entry), r.snapshotIndex = 0,
           NEW p \in Nat, p < Len(r.log), NEW E \in Seq(Entry)
    PROVE  \/ appended(r, p, E) = r.log /\ Holds(r.log, p, E)
           \/ Joined(appended(r, p, E), r.log, p, E)
<1> DEFINE new == {m \in 1 .. Len(E) : \/ p + m > LastIndex(r)
                                       \/ At(r, p + m).term # E[m].term}
           keep == p - r.snapshotIndex
<1>1. appended(r, p, E) = IF new = {} THEN r.log
                          ELSE SubSeq(r.log, 1, keep + Min(new)) \o SubSeq(E, Min(new), Len(E))
  BY DEF appended
<1>2. CASE new = {}
  <2>1. LastIndex(r) = Len(r.log) - 1 /\ \A m \in 1 .. Len(E) : At(r, p + m) = r.log[p + m + 1]
    BY DEF LastIndex, LogEnd, At
  <2>2. Len(E) \in Nat /\ Len(r.log) \in Nat
    OBVIOUS
  <2>3. \A m \in 1 .. Len(E) : ~(p + m > LastIndex(r)) /\ At(r, p + m).term = E[m].term
    BY <1>2
  <2>4. Holds(r.log, p, E)
    BY <2>1, <2>2, <2>3 DEF Holds
  <2> QED
    BY <1>1, <1>2, <2>4
<1>3. CASE new # {}
  <2>1. new \subseteq Nat /\ new \subseteq 1 .. Len(E) /\ Len(E) \in Nat /\ Len(r.log) \in Nat
    OBVIOUS
  <2>2. /\ keep = p /\ LastIndex(r) = Len(r.log) - 1
        /\ \A m \in 1 .. Len(E) : At(r, p + m) = r.log[p + m + 1]
    BY DEF LastIndex, LogEnd, At
  <2>3. \A m \in 1 .. Len(E) :
          m \notin new => p + m < Len(r.log) /\ r.log[p + m + 1].term = E[m].term
    BY <2>1, <2>2
  <2>3a. \A m \in new : p + m < Len(r.log) => r.log[p + m + 1].term # E[m].term
    BY <2>1, <2>2
  <2> HIDE DEF new, keep
  <2>4. PICK n \in new : n = Min(new) /\ \A y \in new : n <= y
    BY <1>3, <2>1, SmallestOf
  <2>5. n \in 1 .. Len(E)
    BY <2>1
  <2>6. \A m \in 1 .. n - 1 : p + m < Len(r.log) /\ r.log[p + m + 1].term = E[m].term
    BY <2>1, <2>3, <2>4, <2>5
  <2> DEFINE q == p + n - 1
             A == SubSeq(r.log, 1, p + n)
             B == SubSeq(E, n, Len(E))
  <2>7. q \in p .. p + Len(E) /\ q < Len(r.log) /\ q \in Nat
    <3>1. CASE n = 1
      BY <2>1, <3>1
    <3>2. CASE n > 1
      <4>1. n - 1 \in 1 .. n - 1 /\ p + (n - 1) = q
        BY <2>5, <3>2
      <4>2. p + (n - 1) < Len(r.log)
        BY <2>6, <4>1
      <4> QED
        BY <2>1, <2>5, <4>1, <4>2
    <3> QED
      BY <2>5, <3>1, <3>2
  <2>8. \A k \in p + 1 .. q : r.log[k + 1].term = E[k - p].term
    <3> TAKE k \in p + 1 .. q
    <3>1. k - p \in 1 .. n - 1 /\ p + (k - p) + 1 = k + 1
      BY <2>5
    <3> QED
      BY <2>6, <3>1
  <2>9. A \in Seq(Entry) /\ Len(A) = p + n /\ \A i \in 1 .. p + n : A[i] = r.log[i]
    <3>1. 1 \in Int /\ p + n \in Int /\ 1 <= p + n /\ \A i \in 1 .. p + n : r.log[i] \in Entry
      BY <2>1, <2>5, <2>7
    <3> QED
      BY <3>1, SubSeqProperties
  <2>10. B \in Seq(Entry) /\ Len(B) = Len(E) - n + 1 /\ \A i \in 1 .. Len(E) - n + 1 : B[i] = E[n + i - 1]
    <3>1. n \in Int /\ Len(E) \in Int /\ n <= Len(E) /\ \A i \in n .. Len(E) : E[i] \in Entry
      BY <2>1, <2>5
    <3> QED
      BY <3>1, SubSeqProperties
  <2> HIDE DEF A, B
  <2>11. appended(r, p, E) = A \o B
    BY <1>1, <1>3, <2>2, <2>4 DEF A, B
  <2>12. /\ A \o B \in Seq(Entry) /\ Len(A \o B) = Len(A) + Len(B)
         /\ \A i \in 1 .. Len(A) + Len(B) : (A \o B)[i] = IF i <= Len(A) THEN A[i] ELSE B[i - Len(A)]
    <3>1. A \in Seq(Entry) /\ B \in Seq(Entry)
      BY <2>9, <2>10
    <3> QED
      BY <3>1, ConcatProperties
  <2> DEFINE N == A \o B
  <2>13. N \in Seq(Entry) /\ Len(N) = p + Len(E) + 1
    BY <2>1, <2>5, <2>9, <2>10, <2>12
  <2>14. ASSUME NEW k \in 0 .. q PROVE N[k + 1] = r.log[k + 1]
    <3>1. k + 1 \in 1 .. p + n /\ k + 1 \in 1 .. Len(A) + Len(B)
      BY <2>1, <2>5, <2>7, <2>9, <2>10
    <3> QED
      BY <2>9, <2>12, <3>1
  <2>15. ASSUME NEW k \in q + 1 .. p + Len(E) PROVE N[k + 1] = E[k - p]
    <3>1. /\ k + 1 \in 1 .. Len(A) + Len(B) /\ ~(k + 1 <= Len(A))
          /\ k + 1 - Len(A) \in 1 .. Len(E) - n + 1 /\ n + (k + 1 - Len(A)) - 1 = k - p
      BY <2>1, <2>5, <2>7, <2>9, <2>10
    <3>2. N[k + 1] = B[k + 1 - Len(A)]
      BY <2>12, <3>1
    <3>3. B[k + 1 - Len(A)] = E[n + (k + 1 - Len(A)) - 1]
      BY <2>10, <3>1
    <3> QED
      BY <3>1, <3>2, <3>3
  <2>17. q < p + Len(E) /\ (q + 1 < Len(r.log) => r.log[q + 2].term # E[(q + 1) - p].term)
    <3>1. q + 1 = p + n /\ q + 2 = p + n + 1 /\ (q + 1) - p = n /\ q < p + Len(E)
      BY <2>1, <2>5
    <3> QED
      BY <2>4, <2>3a, <3>1
  <2> HIDE DEF N, q
  <2> QED
    BY <2>7, <2>8, <2>11, <2>13, <2>14, <2>15, <2>17, ZenonT(60) DEF N, Joined
<1> QED
  BY <1>2, <1>3

\* The peer that handles an AppendEntries of its term or a later one, before it
\* looks at the log.
Follower(r, args) ==
    IF args.term > r.currentTerm \/ r.state = "CANDIDATE"
    THEN stepDownToFollower(r, args.term) ELSE r

\* The ways AppendEntries ends when nothing of the log has been discarded: the term
\* is old, the log is too short, it has another entry before the new ones, or the
\* entries are taken.
AppendStale(r, args, h) ==
    args.term < r.currentTerm /\ h = [rf |-> r, reply |-> PlainReply(r.currentTerm, FALSE)]
AppendTooFar(r, args, h) ==
    LET s == Follower(r, args)
    IN /\ args.prevLogIndex >= Len(r.log)
       /\ h = [rf |-> s, reply |-> [PlainReply(s.currentTerm, FALSE) EXCEPT !.conflictingLogLen = Len(r.log)]]
AppendDiffers(r, args, h) ==
    LET s == Follower(r, args)
    IN \E k \in 0 .. args.prevLogIndex :
         h = [rf |-> s,
              reply |-> [PlainReply(s.currentTerm, FALSE) EXCEPT
                           !.conflictingTerm = r.log[args.prevLogIndex + 1].term,
                           !.conflictingIndex = k]]
AppendTakes(r, args, h) ==
    LET s == Follower(r, args)
        N == appended(s, args.prevLogIndex, args.entries)
        k == followerCommit(s, args.leaderCommit, args.prevLogIndex + Len(args.entries))
    IN /\ args.prevLogIndex < Len(r.log) /\ r.log[args.prevLogIndex + 1].term = args.prevLogTerm
       /\ h = [rf |-> [s EXCEPT !.log = N, !.dirty = @ \/ N # s.log, !.commitIndex = k],
               reply |-> PlainReply(s.currentTerm, TRUE)]

LEMMA AppendBranches ==
    ASSUME NEW r, PeerOK(r), LogOK(r), r.snapshotIndex = 0,
           NEW args, args.term \in Nat, ArgsOK(args)
    PROVE  LET h == AppendEntries(r, args)
           IN \/ AppendStale(r, args, h)
              \/ /\ args.term >= r.currentTerm
                 /\ AppendTooFar(r, args, h) \/ AppendDiffers(r, args, h) \/ AppendTakes(r, args, h)
<1> DEFINE s == Follower(r, args)
           skip == Max({0, r.snapshotIndex - args.prevLogIndex})
           prev == args.prevLogIndex + skip
           prevTerm == IF skip > 0 THEN r.snapshotTerm ELSE args.prevLogTerm
           entries == SubSeq(args.entries, skip + 1, Len(args.entries))
           newLog == appended(s, prev, entries)
           fail == PlainReply(s.currentTerm, FALSE)
           commit == followerCommit(s, args.leaderCommit, prev + Len(entries))
           f == [s EXCEPT !.log = newLog, !.dirty = @ \/ newLog # s.log, !.commitIndex = commit]
           c1 == [fail EXCEPT !.conflictingLogLen = LogEnd(s)]
           c2 == [fail EXCEPT !.conflictingTerm = At(s, prev).term,
                              !.conflictingIndex = conflictingIndex(s, prev)]
           h == AppendEntries(r, args)
<1>1. h = IF args.term < r.currentTerm
          THEN [rf |-> r, reply |-> PlainReply(r.currentTerm, FALSE)]
          ELSE IF skip > Len(args.entries)
          THEN [rf |-> s, reply |-> PlainReply(s.currentTerm, TRUE)]
          ELSE IF prev > LastIndex(s) THEN [rf |-> s, reply |-> c1]
          ELSE IF At(s, prev).term # prevTerm THEN [rf |-> s, reply |-> c2]
          ELSE [rf |-> f, reply |-> PlainReply(s.currentTerm, TRUE)]
  BY DEF AppendEntries, Follower
<1>2. /\ args.prevLogIndex \in Nat /\ args.entries \in Seq(Entry) /\ r.log \in Seq(Entry)
      /\ Len(r.log) \in Nat /\ Len(args.entries) \in Nat /\ r.currentTerm \in Nat
  BY DEF ArgsOK, LogOK, PeerOK
<1>3. skip = 0
  <2>1. PICK a \in Int : a = r.snapshotIndex - args.prevLogIndex /\ a <= 0
    BY <1>2
  <2>2. Max({0, a}) \in {0, a} /\ Max({0, a}) >= 0
    BY FewInts
  <2>3. Max({0, a}) = 0
    BY <2>1, <2>2
  <2> QED
    BY <2>1, <2>3
<1> HIDE DEF skip
<1>4. prev = args.prevLogIndex /\ prevTerm = args.prevLogTerm
  BY <1>2, <1>3
<1>5. entries = args.entries
  <2>1. skip + 1 = 1
    BY <1>3
  <2> QED
    BY <1>2, <2>1, SubSeqFull
<1>6. s.log = r.log /\ s.snapshotIndex = 0
  BY DEF Follower, stepDownToFollower, PeerOK, PeerFields
<1> HIDE DEF s, prev, prevTerm, entries
<1>7. LastIndex(s) = Len(r.log) - 1 /\ LogEnd(s) = Len(r.log)
  BY <1>2, <1>6 DEF LastIndex, LogEnd
<1>8. At(s, prev) = r.log[args.prevLogIndex + 1]
  BY <1>2, <1>4, <1>6 DEF At
<1>9. conflictingIndex(s, prev) \in 0 .. args.prevLogIndex
  <2> DEFINE T == {k \in s.snapshotIndex .. prev : \A j \in k .. prev : At(s, j).term = At(s, prev).term}
  <2>1. T \subseteq Nat /\ T \subseteq 0 .. args.prevLogIndex /\ prev \in T
    BY <1>2, <1>4, <1>6
  <2> HIDE DEF T
  <2>2. Min(T) \in T
    BY <2>1, SmallestOf
  <2>3. conflictingIndex(s, prev) = Min(T)
    BY DEF conflictingIndex, T
  <2> QED
    BY <2>1, <2>2, <2>3, Zenon
<1>10. CASE args.term < r.currentTerm
  BY <1>1, <1>10 DEF AppendStale
<1>11. CASE ~(args.term < r.currentTerm)
  <2>1. args.term >= r.currentTerm /\ ~(skip > Len(args.entries))
    BY <1>2, <1>3, <1>11
  <2>2. CASE prev > LastIndex(s)
    <3>1. args.prevLogIndex >= Len(r.log)
      BY <1>2, <1>4, <1>7, <2>2
    <3>2. h = [rf |-> s, reply |-> c1]
      BY <1>1, <1>11, <2>1, <2>2, Zenon
    <3>3. AppendTooFar(r, args, h)
      BY <1>7, <3>1, <3>2 DEF AppendTooFar, s
    <3> QED
      BY <2>1, <3>3
  <2>3. CASE ~(prev > LastIndex(s)) /\ At(s, prev).term # prevTerm
    <3>1. h = [rf |-> s, reply |-> c2]
      BY <1>1, <1>11, <2>1, <2>3, Zenon
    <3>2. AppendDiffers(r, args, h)
      BY <1>8, <1>9, <3>1 DEF AppendDiffers, s
    <3> QED
      BY <2>1, <3>2
  <2>4. CASE ~(prev > LastIndex(s)) /\ At(s, prev).term = prevTerm
    <3>1. args.prevLogIndex < Len(r.log) /\ r.log[args.prevLogIndex + 1].term = args.prevLogTerm
      BY <1>2, <1>4, <1>7, <1>8, <2>4
    <3>2. h = [rf |-> f, reply |-> PlainReply(s.currentTerm, TRUE)]
      BY <1>1, <1>11, <2>1, <2>4, Zenon
    <3>3. AppendTakes(r, args, h)
      BY <1>4, <1>5, <3>1, <3>2 DEF AppendTakes, s
    <3> QED
      BY <2>1, <3>3
  <2> QED
    BY <2>2, <2>3, <2>4
<1> QED
  BY <1>10, <1>11

\* The follower of a call of its term or a later one: the log and the indices stay.
LEMMA FollowerIs ==
    ASSUME NEW r, PeerOK(r), LogOK(r), NEW args, args.term \in Nat, args.term >= r.currentTerm
    PROVE  LET s == Follower(r, args)
           IN /\ DOMAIN s = PeerFields /\ LogOK(s)
              /\ s.currentTerm = args.term
              /\ s.state = "FOLLOWER" \/ (s.state = "LEADER" /\ r.state = "LEADER" /\ args.term = r.currentTerm)
              /\ s.log = r.log /\ s.nextIndex = r.nextIndex /\ s.matchIndex = r.matchIndex
              /\ s.commitIndex = r.commitIndex /\ s.lastApplied = r.lastApplied
              /\ s.snapshotIndex = r.snapshotIndex /\ s.snapshotTerm = r.snapshotTerm
              /\ s.snapshot = r.snapshot
<1>1. r.currentTerm \in Nat /\ r.state \in {"FOLLOWER", "CANDIDATE", "LEADER"}
  BY DEF PeerOK
<1>2. CASE args.term > r.currentTerm
  BY <1>1, <1>2 DEF Follower, stepDownToFollower, PeerOK, PeerFields, LogOK
<1>3. CASE ~(args.term > r.currentTerm) /\ r.state = "CANDIDATE"
  BY <1>1, <1>3 DEF Follower, stepDownToFollower, PeerOK, PeerFields, LogOK
<1>4. CASE ~(args.term > r.currentTerm) /\ r.state # "CANDIDATE"
  BY <1>1, <1>4 DEF Follower, PeerOK
<1> QED
  BY <1>2, <1>3, <1>4

\* AppendEntries answers with integers, and leaves the log as it is or joins the
\* entries to it.
LEMMA AppendOutcome ==
    ASSUME NEW r, PeerOK(r), LogOK(r), r.snapshotIndex = 0,
           NEW args, args.term \in Nat, ArgsOK(args)
    PROVE  LET h == AppendEntries(r, args)
               p == args.prevLogIndex
           IN /\ ReplyOK(h.reply) /\ LogOK(h.rf)
              /\ \/ h.rf.log = r.log
                 \/ /\ h.rf.state = "LEADER" => r.state = "LEADER" /\ args.term = r.currentTerm
                    /\ p < Len(r.log) /\ r.log[p + 1].term = args.prevLogTerm
                    /\ Joined(h.rf.log, r.log, p, args.entries)
<1> DEFINE h == AppendEntries(r, args)
           s == Follower(r, args)
           p == args.prevLogIndex
           E == args.entries
           N == appended(s, p, E)
<1>1. p \in Nat /\ E \in Seq(Entry) /\ r.log \in Seq(Entry) /\ Len(r.log) \in Nat
  BY DEF ArgsOK, LogOK
<1>2. \/ AppendStale(r, args, h)
      \/ /\ args.term >= r.currentTerm
         /\ AppendTooFar(r, args, h) \/ AppendDiffers(r, args, h) \/ AppendTakes(r, args, h)
  BY AppendBranches
<1> HIDE DEF h
<1>3. CASE AppendStale(r, args, h)
  BY <1>3 DEF AppendStale, PlainReply, ReplyOK, h
<1>4. CASE args.term >= r.currentTerm /\ AppendTooFar(r, args, h)
  <2>1. LogOK(s) /\ s.log = r.log
    BY <1>4, FollowerIs
  <2> QED
    BY <1>1, <1>4, <2>1 DEF AppendTooFar, PlainReply, ReplyOK, h
<1>5. CASE args.term >= r.currentTerm /\ AppendDiffers(r, args, h)
  <2>1. LogOK(s) /\ s.log = r.log
    BY <1>5, FollowerIs
  <2>2. PICK k \in 0 .. p :
         h = [rf |-> s, reply |-> [PlainReply(s.currentTerm, FALSE) EXCEPT
                                     !.conflictingTerm = r.log[p + 1].term, !.conflictingIndex = k]]
    BY <1>5 DEF AppendDiffers
  <2> QED
    <3>1. k \in Int
      BY <1>1
    <3>2. \A t, u : ReplyOK([PlainReply(t, FALSE) EXCEPT !.conflictingTerm = u, !.conflictingIndex = k])
      BY <3>1 DEF PlainReply, ReplyOK
    <3>3. ReplyOK(h.reply) /\ h.rf = s
      BY <2>2, <3>2
    <3> QED
      BY <2>1, <3>3 DEF h
<1>6. CASE args.term >= r.currentTerm /\ AppendTakes(r, args, h)
  <2>1. /\ DOMAIN s = PeerFields /\ LogOK(s) /\ s.log = r.log /\ s.snapshotIndex = 0
        /\ s.state = "LEADER" => r.state = "LEADER" /\ args.term = r.currentTerm
    BY <1>6, FollowerIs
  <2> HIDE DEF s
  <2>2. p < Len(r.log) /\ r.log[p + 1].term = args.prevLogTerm
    BY <1>6 DEF AppendTakes
  <2>3. N = r.log \/ Joined(N, r.log, p, E)
    <3> HIDE DEF p, E
    <3>1. appended(s, p, E) = s.log \/ Joined(appended(s, p, E), s.log, p, E)
      BY <1>1, <2>1, <2>2, AppendedLog DEF p
    <3> QED
      BY <2>1, <3>1, Zenon
  <2> HIDE DEF N
  <2>4. h.rf.log = N /\ h.rf.state = s.state /\ h.rf.nextIndex = s.nextIndex /\ h.rf.matchIndex = s.matchIndex
        /\ ReplyOK(h.reply)
    <3> DEFINE k == followerCommit(s, args.leaderCommit, p + Len(E))
               f == [s EXCEPT !.log = N, !.dirty = @ \/ N # s.log, !.commitIndex = k]
    <3>1. h = [rf |-> f, reply |-> PlainReply(s.currentTerm, TRUE)]
      BY <1>6 DEF AppendTakes, s, N
    <3> HIDE DEF k
    <3>2. f.log = N /\ f.state = s.state /\ f.nextIndex = s.nextIndex /\ f.matchIndex = s.matchIndex
      BY <2>1 DEF PeerFields
    <3>3. ReplyOK(PlainReply(s.currentTerm, TRUE))
      BY DEF ReplyOK, PlainReply
    <3> HIDE DEF f
    <3> QED
      BY <3>1, <3>2, <3>3
  <2>5. N \in Seq(Entry) /\ N # << >>
    BY <1>1, <2>1, <2>3 DEF LogOK, Joined
  <2>6. LogOK(h.rf)
    BY <2>1, <2>4, <2>5 DEF LogOK
  <2> QED
    BY <2>1, <2>2, <2>3, <2>4, <2>6 DEF h
<1> QED
  BY <1>2, <1>3, <1>4, <1>5, <1>6

-----------------------------------------------------------------------------
(* The actions that change a log, or send a part of one.                    *)

LEMMA HandleAppendLog ==
    ASSUME ElectionInv, ElectionInv', ElectionStep, LogInv, NoSnapshot,
           NEW c \in calls, HandleAppendEntries(c)
    PROVE  LogInv'
<1> DEFINE j == c.to
           r == rf[j]
           h == AppendEntries(r, c.args)
           answered == [c EXCEPT !.reply = h.reply, !.pending = "no"]
<1>1. /\ CallOK(c) /\ c \in Appends /\ j \in Server /\ PeerOK(r) /\ c.args.term \in Nat
      /\ rf = [i \in Server |-> rf[i]]
  BY DEF ElectionInv, ElectionTypes, CallOK, HandleAppendEntries, Appends
<1>2. LogOK(r) /\ r.snapshotIndex = 0 /\ ArgsOK(c.args)
  BY <1>1 DEF LogInv, LogTypes, NoSnapshot
<1>3. rf' = [rf EXCEPT ![j] = h.rf] /\ calls' = Replied(c, h.reply)
  BY Zenon DEF HandleAppendEntries
<1>4. /\ ReplyOK(h.reply) /\ LogOK(h.rf)
      /\ \/ h.rf.log = r.log
         \/ /\ h.rf.state = "LEADER" => r.state = "LEADER" /\ c.args.term = r.currentTerm
            /\ c.args.prevLogIndex < Len(r.log)
            /\ r.log[c.args.prevLogIndex + 1].term = c.args.prevLogTerm
            /\ Joined(h.rf.log, r.log, c.args.prevLogIndex, c.args.entries)
  BY <1>1, <1>2, AppendOutcome
<1> HIDE DEF h
<1>5. answered.to = j /\ answered.args = c.args /\ answered.reply = h.reply
  BY <1>1 DEF CallOK, CallFields
<1>6. \A d \in Appends' : d \in Appends \/ d = answered
  BY <1>3 DEF Replied, Appends
<1> HIDE DEF answered
<1>7. rf'[j] = h.rf /\ \A i \in Server \ {j} : rf'[i] = rf[i]
  BY <1>1, <1>3
<1>8. LogTypes'
  <2>1. \A i \in Server : LogOK(rf'[i])
    BY <1>4, <1>7 DEF LogInv, LogTypes
  <2>2. \A d \in Appends' : ArgsOK(d.args) /\ (d.reply # None => ReplyOK(d.reply))
    BY <1>2, <1>4, <1>5, <1>6 DEF LogInv, LogTypes
  <2> QED
    BY <2>1, <2>2 DEF LogTypes
<1>9. \A d \in Appends' : \E e \in Appends : d.to = e.to /\ d.args = e.args
  BY <1>1, <1>5, <1>6
<1> HIDE DEF j, r
<1>10. CASE h.rf.log = r.log
  <2>1. \A i \in Server : rf'[i].log = rf[i].log
    BY <1>7, <1>10 DEF r
  <2> QED
    BY <1>8, <1>9, <2>1, QuietStep
<1>11. CASE h.rf.log # r.log
  <2>1. PICK p \in Nat, E \in Seq(Entry) :
          p = c.args.prevLogIndex /\ E = c.args.entries
    BY <1>2 DEF ArgsOK
  <2>2. PICK q \in p .. p + Len(E) :
          /\ q < Len(r.log)
          /\ \A k \in p + 1 .. q : r.log[k + 1].term = E[k - p].term
          /\ \A k \in 0 .. q : h.rf.log[k + 1] = r.log[k + 1]
          /\ \A k \in q + 1 .. p + Len(E) : h.rf.log[k + 1] = E[k - p]
    BY <1>4, <1>11, <2>1 DEF Joined
  <2>3. /\ Len(h.rf.log) = p + Len(E) + 1 /\ p < Len(r.log) /\ r.log[p + 1].term = c.args.prevLogTerm
        /\ Len(r.log) \in Nat /\ Len(E) \in Nat /\ q \in Nat
    <3>1. Len(h.rf.log) = p + Len(E) + 1
      BY <1>4, <1>11, <2>1 DEF Joined
    <3>2. p < Len(r.log) /\ r.log[p + 1].term = c.args.prevLogTerm
      BY <1>4, <1>11, <2>1
    <3>3. Len(r.log) \in Nat /\ Len(E) \in Nat
      BY <1>2 DEF LogOK
    <3>4. q \in Nat
      BY <3>3
    <3> QED
      BY <3>1, <3>2, <3>3, <3>4
  <2> DEFINE L == LogFrag(r.log)
             M == ArgsFrag(c.args)
  <2>0. PICK N : N = LogFrag(h.rf.log)
    OBVIOUS
  <2>4. L \in Frags /\ M \in Frags /\ FragOK(L) /\ FragOK(M)
    <3>1. L \in Frags /\ M \in Frags
      BY <1>1 DEF Frags, r, j
    <3> QED
      BY <3>1, FragTypes DEF LogInv
  <2>5. /\ L.lo = 0 /\ N.lo = 0 /\ N.hi = M.hi /\ M.lo \in Within(L) /\ FragOK(N)
        /\ q \in Within(M) \intersect Within(L)
        /\ M.lo = p /\ M.hi = p + Len(E) /\ L.hi = Len(r.log) - 1
    <3>1. L.lo = 0 /\ L.hi = Len(r.log) - 1
      BY DEF LogFrag
    <3>2. N.lo = 0 /\ N.hi = Len(h.rf.log) - 1
      BY <2>0 DEF LogFrag
    <3>3. M.lo = p /\ M.hi = p + Len(E)
      BY <2>1 DEF ArgsFrag
    <3> HIDE DEF L, M
    <3>4. N.hi = M.hi /\ FragOK(N)
      BY <2>3, <3>2, <3>3 DEF FragOK
    <3>5. M.lo \in Within(L) /\ q \in Within(M) \intersect Within(L)
      BY <2>2, <2>3, <3>1, <3>3 DEF Within
    <3> QED
      BY <3>1, <3>2, <3>3, <3>4, <3>5
  <2>6. \A k \in M.lo .. q : L.at[k].term = M.at[k].term
    <3> TAKE k \in M.lo .. q
    <3>1. L.at[k] = r.log[k + 1] /\ k \in Int /\ p <= k
      BY <2>2, <2>3, <2>5 DEF LogFrag
    <3>2. CASE k = p
      <4>1. M.at[k] = [term |-> c.args.prevLogTerm, command |-> None]
        BY <2>1, <2>3, <3>2 DEF ArgsFrag
      <4> QED
        BY <2>3, <3>1, <3>2, <4>1
    <3>3. CASE k > p
      <4>1. M.at[k] = E[k - p]
        BY <2>1, <2>2, <2>3, <2>5, <3>3 DEF ArgsFrag
      <4>0. k \in p + 1 .. q
        BY <2>3, <2>5, <3>1, <3>3
      <4>2. r.log[k + 1].term = E[k - p].term
        BY <2>2, <4>0
      <4> QED
        BY <3>1, <4>1, <4>2
    <3> QED
      BY <3>1, <3>2, <3>3
  <2>7. \A k \in 0 .. q : N.at[k] = L.at[k]
    BY <2>0, <2>2, <2>3 DEF LogFrag
  <2>8. \A k \in q + 1 .. M.hi : N.at[k] = M.at[k]
    <3> TAKE k \in q + 1 .. M.hi
    <3>1. k \in q + 1 .. p + Len(E) /\ k \in p .. p + Len(E) /\ k # p /\ k \in 0 .. Len(h.rf.log) - 1
      BY <2>2, <2>3, <2>5
    <3>2. N.at[k] = h.rf.log[k + 1]
      BY <2>0, <3>1 DEF LogFrag
    <3>3. M.at[k] = E[k - p]
      BY <2>1, <3>1 DEF ArgsFrag
    <3> QED
      BY <2>2, <3>1, <3>2, <3>3
  <2> HIDE DEF L, M
  <2>9. ASSUME NEW G \in Frags PROVE Match(N, G)
    <3>1. Match(L, M) /\ Match(L, G) /\ Match(M, G) /\ FragOK(G)
      BY <2>4, FragTypes DEF LogInv, FragsMatch
    <3> QED
      BY <2>4, <2>5, <2>6, <2>7, <2>8, <3>1, JoinedMatches, SMTT(30)
  <2>10. ASSUME NEW k \in Within(N), k > N.lo
         PROVE  \E F \in Frags : k \in Within(F) /\ k > F.lo /\ N.at[k] = F.at[k]
    <3>1. k \in Int /\ 0 < k /\ k <= p + Len(E)
      BY <2>3, <2>5, <2>10 DEF Within
    <3>2. CASE k <= q
      <4>1. k \in Within(L) /\ k > L.lo /\ N.at[k] = L.at[k]
        BY <2>2, <2>3, <2>5, <2>7, <3>1, <3>2 DEF Within
      <4> QED
        BY <2>4, <4>1
    <3>3. CASE k > q
      BY <2>2, <2>3, <2>4, <2>5, <2>8, <3>1, <3>3 DEF Within
    <3> QED
      BY <2>3, <3>1, <3>2, <3>3
  <2>11. ASSUME NEW k \in Within(N), k > N.lo
         PROVE  \E l \in Server : TakenBy(l, N.at[k].term)'
    <3>1. PICK F \in Frags : k \in Within(F) /\ k > F.lo /\ N.at[k] = F.at[k]
      BY <2>10, <2>11
    <3>2. PICK t \in Nat : t = F.at[k].term
      BY <3>1, EntryTerms DEF LogInv
    <3>3. PICK l \in Server : TakenBy(l, t)
      BY <3>1, <3>2 DEF LogInv, TermsTaken
    <3>4. TakenBy(l, t)'
      BY <3>3, TakenKept
    <3> QED
      BY <3>1, <3>2, <3>4
  <2>12. h.rf.state # "LEADER"
    <3> SUFFICES ASSUME h.rf.state = "LEADER" PROVE FALSE
      OBVIOUS
    <3>1. rf[j].state = "LEADER" /\ c.args.term = rf[j].currentTerm
      BY <1>4, <1>11 DEF r
    <3>2. PICK l \in Server : l # j /\ TakenBy(l, c.args.term)
      BY <1>1 DEF LogInv, SendersTaken, j
    <3> QED
      BY <1>1, <3>1, <3>2, TakenLeader DEF TakenOnce
  <2>13. ASSUME NEW i \in Server, rf'[i].state = "LEADER"
         PROVE  /\ Len(rf'[i].log) >= Len(rf[i].log)
                /\ \A k \in Within(N) :
                     k > N.lo /\ N.at[k].term = rf'[i].currentTerm => k < Len(rf'[i].log)
    <3>1. rf'[i] = rf[i] /\ rf[i].state = "LEADER"
      BY <1>7, <2>12, <2>13
    <3>2. Len(rf[i].log) \in Nat
      BY DEF LogInv, LogTypes, LogOK
    <3> QED
      BY <2>10, <3>1, <3>2 DEF LogInv, LeaderOwns
  <2>14. \A F \in Frags' : F \in Frags \/ F \in {N}
    <3>1. \A i \in Server : LogFrag(rf'[i].log) \in Frags \/ LogFrag(rf'[i].log) = N
      BY <1>7, <2>0 DEF Frags
    <3>2. \A d \in Appends' : ArgsFrag(d.args) \in Frags
      BY <1>9 DEF Frags
    <3> QED
      BY <3>1, <3>2 DEF Frags
  <2>15. Match(N, N)
    BY MatchReflexive
  <2>16. SendersTaken'
    BY <1>9, SendersKept
  <2>17. PICK New : New = {N}
    OBVIOUS
  <2>18. /\ \A F \in Frags' : F \in Frags \/ F \in New
         /\ \A K \in New : \A G \in Frags \union New : Match(K, G)
         /\ \A K \in New : \A k \in Within(K) :
              k > K.lo => \E l \in Server : TakenBy(l, K.at[k].term)'
         /\ \A i \in Server : rf'[i].state = "LEADER" =>
              /\ Len(rf'[i].log) >= Len(rf[i].log)
              /\ \A K \in New : \A k \in Within(K) :
                   k > K.lo /\ K.at[k].term = rf'[i].currentTerm => k < Len(rf'[i].log)
    BY <2>9, <2>11, <2>13, <2>14, <2>15, <2>17
  <2> QED
    BY <1>8, <2>16, <2>18, LogStep
<1> QED
  BY <1>10, <1>11

\* A leader appends a command: nobody else has an entry of its term there.
LEMMA ClientStartLog ==
    ASSUME ElectionInv, ElectionInv', ElectionStep, LogInv, NoSnapshot,
           NEW i \in Server, NEW command \in Command, ClientStart(i, command)
    PROVE  LogInv'
<1> DEFINE r == rf[i]
           s == Start(r, i, command)
           e == [term |-> r.currentTerm, command |-> command]
<1>1. /\ PeerOK(r) /\ LogOK(r) /\ r.snapshotIndex = 0 /\ r.state = "LEADER"
      /\ rf = [j \in Server |-> rf[j]] /\ calls' = calls /\ rf' = [rf EXCEPT ![i] = s]
  <2>1. rf' = [rf EXCEPT ![i] = s]
    BY Zenon DEF ClientStart
  <2> QED
    BY <2>1 DEF ElectionInv, ElectionTypes, LogInv, LogTypes, NoSnapshot, ClientStart
<1>2. e \in Entry /\ LogEnd(r) \in Int /\ r.log \in Seq(Entry) /\ Len(r.log) \in Nat
  BY <1>1 DEF PeerOK, LogOK, Entry, LogEnd
<1>3. /\ s.log = Append(r.log, e) /\ s.nextIndex = r.nextIndex /\ s.matchIndex \in [Server -> Int]
      /\ s.state = "LEADER" /\ s.currentTerm = r.currentTerm
  BY <1>1, <1>2 DEF Start, PeerOK, PeerFields, LogOK
<1> HIDE DEF s, e
<1>4. /\ s.log \in Seq(Entry) /\ s.log # << >> /\ Len(s.log) = Len(r.log) + 1
      /\ \A k \in 1 .. Len(r.log) : s.log[k] = r.log[k]
      /\ s.log[Len(r.log) + 1] = e
  BY <1>2, <1>3, AppendProperties
<1>5. rf'[i] = s /\ \A j \in Server \ {i} : rf'[j] = rf[j]
  BY <1>1
<1>6. LogTypes'
  <2>1. LogOK(s)
    BY <1>1, <1>3, <1>4 DEF LogOK
  <2>2. Appends' = Appends
    BY <1>1 DEF Appends
  <2> QED
    BY <1>5, <2>1, <2>2 DEF LogInv, LogTypes
<1>7. SendersTaken'
  <2>1. Appends' = Appends
    BY <1>1 DEF Appends
  <2> QED
    BY <2>1, SendersKept
<1> HIDE DEF r
<1> DEFINE L == LogFrag(r.log)
<1>8. PICK N : N = LogFrag(s.log)
  OBVIOUS
<1>9. /\ FragOK(L) /\ FragOK(N) /\ L.lo = 0 /\ N.lo = 0 /\ L.hi = Len(r.log) - 1 /\ N.hi = Len(r.log)
      /\ N.at[N.hi] = e
  BY <1>2, <1>4, <1>8 DEF LogFrag, FragOK
<1>10. \A k \in Within(L) : N.at[k] = L.at[k]
  BY <1>2, <1>4, <1>8 DEF LogFrag, Within
<1>11. L \in Frags
  BY DEF Frags, r
<1> HIDE DEF L
<1>12. PICK t \in Nat : t = r.currentTerm /\ t = e.term /\ t = rf'[i].currentTerm
  BY <1>1, <1>3, <1>5 DEF PeerOK, e
<1>13. ASSUME NEW G \in Frags PROVE Match(N, G)
  <2>1. FragOK(G) /\ Match(L, G)
    BY <1>11, FragTypes DEF LogInv, FragsMatch
  <2>2. N.hi \in Within(G) /\ N.hi > G.lo => G.at[N.hi].term # N.at[N.hi].term
    <3> SUFFICES ASSUME N.hi \in Within(G), N.hi > G.lo, G.at[N.hi].term = t PROVE FALSE
      BY <1>9, <1>12
    <3>1. N.hi < Len(r.log)
      BY <1>1, <1>12 DEF LogInv, LeaderOwns, r
    <3> QED
      BY <1>2, <1>9, <3>1
  <2>3. N.hi = L.hi + 1 /\ N.lo = L.lo
    BY <1>2, <1>9
  <2> QED
    BY <1>9, <1>10, <2>1, <2>2, <2>3, LongerMatches
<1>14. ASSUME NEW k \in Within(N), k > N.lo
       PROVE  \/ N.at[k].term = t
              \/ k \in Within(L) /\ k > L.lo /\ N.at[k] = L.at[k]
  <2>1. k \in Int /\ 0 < k /\ k <= Len(r.log)
    BY <1>2, <1>9, <1>14 DEF Within
  <2>2. CASE k = Len(r.log)
    BY <1>9, <1>12, <2>2
  <2>3. CASE k < Len(r.log)
    <3>1. k \in Within(L) /\ k > L.lo
      BY <1>2, <1>9, <2>1, <2>3 DEF Within
    <3> QED
      BY <1>10, <3>1
  <2> QED
    BY <1>2, <2>1, <2>2, <2>3
<1>15. ASSUME NEW k \in Within(N), k > N.lo
       PROVE  \E l \in Server : TakenBy(l, N.at[k].term)'
  <2>1. CASE N.at[k].term = t
    <3>1. LeadersElected'
      BY LeaderTakes, PTL
    <3>2. TakenBy(i, rf[i].currentTerm)'
      BY <1>3, <1>5, <3>1 DEF LeadersElected
    <3>3. TakenBy(i, t)'
      BY <1>12, <3>2
    <3> QED
      BY <2>1, <3>3
  <2>2. CASE k \in Within(L) /\ k > L.lo /\ N.at[k] = L.at[k]
    <3>1. PICK u \in Nat : u = N.at[k].term
      BY <1>11, <2>2, EntryTerms DEF LogInv
    <3>2. PICK l \in Server : TakenBy(l, u)
      BY <1>11, <2>2, <3>1 DEF LogInv, TermsTaken
    <3>3. TakenBy(l, u)'
      BY <3>2, TakenKept
    <3> QED
      BY <3>1, <3>3
  <2> QED
    BY <1>14, <1>15, <2>1, <2>2
<1>16. ASSUME NEW j \in Server, rf'[j].state = "LEADER"
       PROVE  /\ Len(rf'[j].log) >= Len(rf[j].log)
              /\ \A k \in Within(N) :
                   k > N.lo /\ N.at[k].term = rf'[j].currentTerm => k < Len(rf'[j].log)
  <2>1. CASE j = i
    <3>1. \A k \in Within(N) : k < Len(rf'[i].log)
      BY <1>2, <1>4, <1>5, <1>9 DEF Within
    <3> QED
      BY <1>2, <1>4, <1>5, <2>1, <3>1 DEF r
  <2>2. CASE j # i
    <3>1. rf'[j] = rf[j] /\ Len(rf[j].log) \in Nat
      BY <1>5, <2>2 DEF LogInv, LogTypes, LogOK
    <3>2. rf[j].currentTerm # t
      <4>1. ElectionSafety
        BY InvariantIsSafe
      <4> QED
        BY <1>1, <1>12, <1>16, <2>2, <3>1, <4>1 DEF ElectionSafety, r
    <3>3. ASSUME NEW k \in Within(N), k > N.lo, N.at[k].term = rf[j].currentTerm
          PROVE  k < Len(rf[j].log)
      <4>1. k \in Within(L) /\ k > L.lo /\ L.at[k].term = rf[j].currentTerm
        BY <1>14, <3>2, <3>3
      <4> QED
        BY <1>11, <1>16, <3>1, <4>1 DEF LogInv, LeaderOwns
    <3> QED
      BY <3>1, <3>3
  <2> QED
    BY <2>1, <2>2
<1>17. \A F \in Frags' : F \in Frags \/ F = N
  BY <1>1, <1>5, <1>8 DEF Frags, Appends
<1>18. PICK New : New = {N}
  OBVIOUS
<1>19. /\ \A F \in Frags' : F \in Frags \/ F \in New
       /\ \A K \in New : \A G \in Frags \union New : Match(K, G)
       /\ \A K \in New : \A k \in Within(K) :
            k > K.lo => \E l \in Server : TakenBy(l, K.at[k].term)'
       /\ \A j \in Server : rf'[j].state = "LEADER" =>
            /\ Len(rf'[j].log) >= Len(rf[j].log)
            /\ \A K \in New : \A k \in Within(K) :
                 k > K.lo /\ K.at[k].term = rf'[j].currentTerm => k < Len(rf'[j].log)
  BY <1>13, <1>15, <1>16, <1>17, <1>18, MatchReflexive
<1> QED
  BY <1>6, <1>7, <1>19, LogStep

\* What AppendEntries carries is a part of the leader's log.
LEMMA SentEntries ==
    ASSUME NEW r, LogOK(r), r.snapshotIndex = 0, NEW j \in Server, r.nextIndex[j] > 0
    PROVE  LET args == AppendEntriesArgs(r, j)
               prev == r.nextIndex[j] - 1
           IN /\ args.term = r.currentTerm /\ args.leaderCommit = r.commitIndex
              /\ prev \in Nat /\ args.prevLogIndex = prev /\ args.prevLogTerm = r.log[prev + 1].term
              /\ args.entries \in Seq(Entry)
              /\ \A k \in 1 .. Len(args.entries) :
                   prev + k < Len(r.log) /\ args.entries[k] = r.log[prev + k + 1]
<1> DEFINE prev == r.nextIndex[j] - 1
           part == SubSeq(r.log, (prev + 1) - r.snapshotIndex + 1, Len(r.log))
           E == IF r.inFlight[j] THEN << >> ELSE part
           args == AppendEntriesArgs(r, j)
<1>1. r.log \in Seq(Entry) /\ Len(r.log) \in Nat /\ prev \in Nat
  BY DEF LogOK
<1>2. /\ args.term = r.currentTerm /\ args.prevLogIndex = prev /\ args.entries = E
      /\ args.prevLogTerm = r.log[prev - r.snapshotIndex + 1].term
      /\ args.leaderCommit = r.commitIndex
  <2>1. args = [term |-> r.currentTerm, prevLogIndex |-> prev,
                prevLogTerm |-> r.log[prev - r.snapshotIndex + 1].term,
                entries |-> E, leaderCommit |-> r.commitIndex]
    BY Zenon DEF AppendEntriesArgs, From, At
  <2> HIDE DEF args, E, prev
  <2> QED
    BY <2>1
<1> HIDE DEF prev, args
<1>3. /\ part \in Seq(Entry)
      /\ \A k \in 1 .. Len(part) : prev + k < Len(r.log) /\ part[k] = r.log[prev + k + 1]
  <2>1. part = SubSeq(r.log, prev + 2, Len(r.log))
    BY <1>1
  <2>2. prev + 2 \in Int /\ Len(r.log) \in Int /\ \A k \in prev + 2 .. Len(r.log) : r.log[k] \in Entry
    BY <1>1
  <2> HIDE DEF part
  <2>3. /\ part \in Seq(Entry)
        /\ Len(part) = IF prev + 2 <= Len(r.log) THEN Len(r.log) - (prev + 2) + 1 ELSE 0
        /\ \A k \in 1 .. Len(r.log) - (prev + 2) + 1 : part[k] = r.log[prev + 2 + k - 1]
    BY <2>1, <2>2, SubSeqProperties
  <2>4. ASSUME NEW k \in 1 .. Len(part) PROVE prev + k < Len(r.log) /\ part[k] = r.log[prev + k + 1]
    <3>1. k \in 1 .. Len(r.log) - (prev + 2) + 1 /\ prev + 2 + k - 1 = prev + k + 1
      BY <1>1, <2>3
    <3> QED
      BY <1>1, <2>3, <3>1
  <2> QED
    BY <2>3, <2>4
<1> HIDE DEF part
<1>4. /\ E \in Seq(Entry) /\ Len(E) \in Nat
      /\ \A k \in 1 .. Len(E) : prev + k < Len(r.log) /\ E[k] = r.log[prev + k + 1]
  <2>1. << >> \in Seq(Entry) /\ Len(<< >>) = 0
    OBVIOUS
  <2> QED
    BY <1>3, <2>1
<1> HIDE DEF E
<1>5. args.prevLogTerm = r.log[prev + 1].term
  BY <1>1, <1>2
<1> QED
  BY <1>1, <1>2, <1>4, <1>5 DEF prev, args

LEMMA SentPart ==
    ASSUME NEW r, LogOK(r), r.snapshotIndex = 0, NEW j \in Server, r.nextIndex[j] > 0
    PROVE  LET args == AppendEntriesArgs(r, j)
               M == ArgsFrag(args)
               L == LogFrag(r.log)
           IN /\ ArgsOK(args) /\ args.term = r.currentTerm
              /\ FragOK(M) /\ FragOK(L) /\ L.lo <= M.lo
              /\ \A k \in Within(M) :
                   k > M.lo => k \in Within(L) /\ k > L.lo /\ M.at[k] = L.at[k]
              /\ M.lo \in Within(L) => M.at[M.lo].term = L.at[M.lo].term
<1> DEFINE prev == r.nextIndex[j] - 1
           args == AppendEntriesArgs(r, j)
           E == args.entries
           M == ArgsFrag(args)
           L == LogFrag(r.log)
<1>1. r.log \in Seq(Entry) /\ Len(r.log) \in Nat /\ prev \in Nat
  BY DEF LogOK
<1>2. args.term = r.currentTerm /\ args.prevLogIndex = prev /\ args.prevLogTerm = r.log[prev + 1].term
  BY SentEntries
<1>3. /\ E \in Seq(Entry)
      /\ \A k \in 1 .. Len(E) : prev + k < Len(r.log) /\ E[k] = r.log[prev + k + 1]
  BY SentEntries
<1>4. /\ E \in Seq(Entry) /\ Len(E) \in Nat
      /\ \A k \in 1 .. Len(E) : prev + k < Len(r.log) /\ E[k] = r.log[prev + k + 1]
  BY <1>3
<1> HIDE DEF prev, args
<1>5. ArgsOK(args)
  BY <1>1, <1>2, <1>4 DEF ArgsOK
<1>6. /\ M.lo = prev /\ M.hi = prev + Len(E) /\ L.lo = 0 /\ L.hi = Len(r.log) - 1
      /\ \A k \in prev + 1 .. prev + Len(E) : M.at[k] = E[k - prev]
      /\ M.at[prev].term = r.log[prev + 1].term
      /\ \A k \in 0 .. Len(r.log) - 1 : L.at[k] = r.log[k + 1]
  <2>1. M.lo = prev /\ M.hi = prev + Len(E) /\ L.lo = 0 /\ L.hi = Len(r.log) - 1
    BY <1>2 DEF ArgsFrag, LogFrag
  <2>2. \A k \in prev + 1 .. prev + Len(E) : M.at[k] = E[k - prev]
    BY <1>1, <1>2, <1>4 DEF ArgsFrag
  <2>3. M.at[prev] = [term |-> args.prevLogTerm, command |-> None]
    BY <1>1, <1>2, <1>4 DEF ArgsFrag
  <2>4. args.prevLogTerm = r.log[prev + 1].term
    BY <1>1, <1>2
  <2> QED
    BY <2>1, <2>2, <2>3, <2>4 DEF LogFrag
<1> HIDE DEF M, L
<1>7. FragOK(M) /\ FragOK(L) /\ L.lo <= M.lo
  BY <1>1, <1>4, <1>6 DEF FragOK
<1>8. ASSUME NEW k \in Within(M), k > M.lo PROVE k \in Within(L) /\ k > L.lo /\ M.at[k] = L.at[k]
  <2>1. k \in prev + 1 .. prev + Len(E) /\ k - prev \in 1 .. Len(E) /\ prev + (k - prev) = k
    BY <1>1, <1>4, <1>6, <1>8 DEF Within
  <2>2. k < Len(r.log) /\ E[k - prev] = r.log[k + 1]
    BY <1>4, <2>1
  <2>3. k \in 0 .. Len(r.log) - 1 /\ k > 0
    BY <1>1, <2>1, <2>2
  <2>4. L.at[k] = r.log[k + 1] /\ M.at[k] = E[k - prev]
    BY <1>6, <2>1, <2>3
  <2> QED
    BY <1>6, <2>2, <2>3, <2>4 DEF Within
<1>9. M.lo \in Within(L) => M.at[M.lo].term = L.at[M.lo].term
  BY <1>1, <1>6 DEF Within
<1> QED
  BY <1>2, <1>5, <1>7, <1>8, <1>9 DEF M, L, args

LEMMA SendAppendLog ==
    ASSUME ElectionInv, ElectionInv', ElectionStep, LogInv, NoSnapshot,
           NEW i \in Server, NEW j \in Server, SendAppendEntries(i, j)
    PROVE  LogInv'
<1> DEFINE r == rf[i]
           L == LogFrag(r.log)
           old == InFlight(i, j, "AppendEntries")
<1>1. /\ PeerOK(r) /\ LogOK(r) /\ r.snapshotIndex = 0 /\ r.nextIndex[j] > 0
      /\ rf[i].state = "LEADER" /\ i # j /\ rf = [k \in Server |-> rf[k]]
  BY DEF ElectionInv, ElectionTypes, LogInv, LogTypes, NoSnapshot, SendAppendEntries, MaySend
<1>2. PICK args : args = AppendEntriesArgs(r, j)
  OBVIOUS
<1>3. PICK M : M = ArgsFrag(args)
  OBVIOUS
<1>4. /\ ArgsOK(args) /\ args.term = r.currentTerm
      /\ FragOK(M) /\ FragOK(L) /\ L.lo <= M.lo
      /\ \A k \in Within(M) :
           k > M.lo => k \in Within(L) /\ k > L.lo /\ M.at[k] = L.at[k]
      /\ M.lo \in Within(L) => M.at[M.lo].term = L.at[M.lo].term
  BY <1>1, <1>2, <1>3, SentPart, Zenon
<1>5. \A k \in Server : rf'[k].log = rf[k].log /\ LogOK(rf'[k])
                        /\ rf'[k].state = rf[k].state /\ rf'[k].currentTerm = rf[k].currentTerm
  <2>1. rf' = [rf EXCEPT ![i] = [rf[i] EXCEPT !.inFlight = [rf[i].inFlight EXCEPT ![j] = TRUE]]]
    BY <1>1 DEF SendAppendEntries, PeerOK, PeerFields
  <2>2. \A k \in Server \ {i} : rf'[k] = rf[k]
    BY <1>1, <2>1
  <2>3. rf'[i] = [rf[i] EXCEPT !.inFlight = [rf[i].inFlight EXCEPT ![j] = TRUE]]
    BY <1>1, <2>1
  <2>4. /\ rf'[i].log = rf[i].log /\ LogOK(rf'[i])
        /\ rf'[i].state = rf[i].state /\ rf'[i].currentTerm = rf[i].currentTerm
    BY <1>1, <2>3 DEF LogOK, PeerOK, PeerFields
  <2> QED
    BY <2>2, <2>4 DEF LogInv, LogTypes
<1>6. PICK new : /\ new = Call("AppendEntries", i, j, args)
                 /\ new.to = j /\ new.args = args /\ new.reply = None
  <2>1. PICK new : new = Call("AppendEntries", i, j, args)
    OBVIOUS
  <2> QED
    BY <2>1 DEF Call
<1>7. ASSUME NEW d \in Appends'
      PROVE  \/ d = new
             \/ \E e \in Appends : d.to = e.to /\ d.args = e.args /\ d.reply = e.reply
  <2>1. d \in calls' /\ d.rpc = "AppendEntries"
    BY <1>7 DEF Appends
  <2>2. calls' = (calls \ old) \union {[c EXCEPT !.latest = FALSE] : c \in old} \union {new}
    BY <1>2, <1>6, Zenon DEF SendAppendEntries
  <2>3. ASSUME NEW c \in old PROVE LET e == [c EXCEPT !.latest = FALSE]
                                   IN c \in Appends /\ e.to = c.to /\ e.args = c.args /\ e.reply = c.reply
    <3>1. c \in calls /\ c.rpc = "AppendEntries"
      BY DEF InFlight
    <3>2. DOMAIN c = CallFields
      BY <3>1 DEF ElectionInv, ElectionTypes, CallOK
    <3> QED
      BY <3>1, <3>2 DEF Appends, CallFields
  <2> HIDE DEF old
  <2>4. CASE d \in calls
    BY <2>1, <2>4 DEF Appends
  <2>5. CASE d = new
    BY <2>5
  <2>6. CASE d \in {[c EXCEPT !.latest = FALSE] : c \in old}
    BY <2>3, <2>6
  <2> QED
    BY <2>1, <2>2, <2>4, <2>5, <2>6
<1>8. LogTypes'
  <2>1. ASSUME NEW d \in Appends' PROVE ArgsOK(d.args) /\ (d.reply # None => ReplyOK(d.reply))
    BY <1>4, <1>6, <1>7 DEF LogInv, LogTypes
  <2> QED
    BY <1>5, <2>1 DEF LogTypes
<1>9. PICK t \in Nat : t = rf[i].currentTerm /\ t = rf'[i].currentTerm /\ t = args.term
  BY <1>1, <1>4, <1>5 DEF PeerOK
<1>10. SendersTaken'
  <2>1. LeadersElected'
    BY LeaderTakes, PTL
  <2>2. TakenBy(i, rf[i].currentTerm)'
    BY <1>1, <1>5, <2>1 DEF LeadersElected
  <2>3. TakenBy(i, t)'
    BY <1>9, <2>2
  <2>4. TakenBy(i, new.args.term)' /\ i # new.to
    BY <1>1, <1>6, <1>9, <2>3
  <2> QED
    BY <1>7, <2>4, SendersKept
<1>11. L \in Frags
  BY DEF Frags
<1> HIDE DEF L, r
<1>12. ASSUME NEW G \in Frags PROVE Match(M, G)
  <2>1. FragOK(G) /\ Match(L, G)
    BY <1>11, FragTypes DEF LogInv, FragsMatch
  <2> QED
    BY <1>4, <2>1, PartMatches
<1>13. ASSUME NEW k \in Within(M), k > M.lo
       PROVE  \E l \in Server : TakenBy(l, M.at[k].term)'
  <2>1. k \in Within(L) /\ k > L.lo /\ M.at[k] = L.at[k]
    BY <1>4, <1>13
  <2>2. PICK u \in Nat : u = M.at[k].term
    BY <1>11, <2>1, EntryTerms DEF LogInv
  <2>3. PICK l \in Server : TakenBy(l, u)
    BY <1>11, <2>1, <2>2 DEF LogInv, TermsTaken
  <2>4. TakenBy(l, u)'
    BY <2>3, TakenKept
  <2> QED
    BY <2>2, <2>4
<1>14. ASSUME NEW k \in Server, rf'[k].state = "LEADER"
       PROVE  /\ Len(rf'[k].log) >= Len(rf[k].log)
              /\ \A m \in Within(M) :
                   m > M.lo /\ M.at[m].term = rf'[k].currentTerm => m < Len(rf'[k].log)
  <2>1. /\ rf'[k].log = rf[k].log /\ Len(rf[k].log) \in Nat
        /\ rf[k].state = "LEADER" /\ rf'[k].currentTerm = rf[k].currentTerm
    BY <1>5, <1>14 DEF LogInv, LogTypes, LogOK
  <2>2. ASSUME NEW m \in Within(M), m > M.lo, M.at[m].term = rf[k].currentTerm
        PROVE  m < Len(rf[k].log)
    <3>1. m \in Within(L) /\ m > L.lo /\ M.at[m] = L.at[m]
      BY <1>4, <2>2
    <3> QED
      BY <1>11, <2>1, <2>2, <3>1 DEF LogInv, LeaderOwns
  <2> QED
    BY <2>1, <2>2
<1>15. \A F \in Frags' : F \in Frags \/ F = M
  <2>1. \A k \in Server : LogFrag(rf'[k].log) \in Frags
    BY <1>5 DEF Frags
  <2>2. \A d \in Appends' : ArgsFrag(d.args) \in Frags \/ ArgsFrag(d.args) = M
    BY <1>3, <1>6, <1>7 DEF Frags
  <2> QED
    BY <2>1, <2>2 DEF Frags
<1>16. PICK New : New = {M}
  OBVIOUS
<1>17. /\ \A F \in Frags' : F \in Frags \/ F \in New
       /\ \A K \in New : \A G \in Frags \union New : Match(K, G)
       /\ \A K \in New : \A k \in Within(K) :
            k > K.lo => \E l \in Server : TakenBy(l, K.at[k].term)'
       /\ \A k \in Server : rf'[k].state = "LEADER" =>
            /\ Len(rf'[k].log) >= Len(rf[k].log)
            /\ \A K \in New : \A m \in Within(K) :
                 m > K.lo /\ K.at[m].term = rf'[k].currentTerm => m < Len(rf'[k].log)
  BY <1>12, <1>13, <1>14, <1>15, <1>16, MatchReflexive
<1> QED
  BY <1>8, <1>10, <1>17, LogStep

-----------------------------------------------------------------------------
(* The actions that leave the logs alone.                                   *)

Same(d, e) == d.to = e.to /\ d.args = e.args /\ d.reply = e.reply

LEMMA KeepsStep ==
    ASSUME ElectionInv, ElectionInv', ElectionStep, LogInv,
           \A j \in Server : Keeps(rf[j], rf'[j]),
           \A d \in Appends' : \E e \in Appends : Same(d, e)
    PROVE  LogInv'
<1>1. LogTypes'
  BY DEF LogInv, LogTypes, Keeps, Same
<1> QED
  BY <1>1, QuietStep DEF Keeps, Same

LEMMA OneKeeps ==
    ASSUME ElectionInv, LogInv, NEW i, NEW s, rf' = [rf EXCEPT ![i] = s],
           i \in Server => Keeps(rf[i], s)
    PROVE  \A j \in Server : Keeps(rf[j], rf'[j])
<1>1. \A j \in Server : Keeps(rf[j], rf[j])
  BY DEF LogInv, LogTypes, Keeps
<1> QED
  BY <1>1 DEF ElectionInv, ElectionTypes

LEMMA NoneKeeps ==
    ASSUME LogInv, UNCHANGED rf
    PROVE  \A j \in Server : Keeps(rf[j], rf'[j])
  BY DEF LogInv, LogTypes, Keeps

LEMMA SameAppends ==
    ASSUME \A d \in calls' : d \in calls
    PROVE  \A d \in Appends' : \E e \in Appends : Same(d, e)
  BY DEF Appends, Same

LEMMA RepliedFewer ==
    ASSUME ElectionInv, NEW c \in calls, NEW reply, c.rpc # "AppendEntries",
           calls' = Replied(c, reply)
    PROVE  \A d \in Appends' : \E e \in Appends : Same(d, e)
<1>1. DOMAIN c = CallFields
  BY DEF ElectionInv, ElectionTypes, CallOK
<1>2. ASSUME NEW p PROVE [c EXCEPT !.reply = reply, !.pending = p].rpc # "AppendEntries"
  BY <1>1 DEF CallFields
<1> QED
  BY <1>2 DEF Replied, Appends, Same

LEMMA VotingLog ==
    ASSUME ElectionInv, ElectionInv', ElectionStep, LogInv, NoSnapshot,
           \/ \E i \in Server : attemptElection(i)
           \/ \E c \in calls : HandleRequestVote(c) \/ CountVote(c)
    PROVE  LogInv'
<1>1. \A i \in Server : PeerOK(rf[i]) /\ LogOK(rf[i]) /\ rf[i].snapshotIndex = 0
  BY DEF ElectionInv, ElectionTypes, LogInv, LogTypes, NoSnapshot
<1>2. ASSUME NEW i \in Server, attemptElection(i) PROVE LogInv'
  <2> DEFINE r == startElectionState(rf[i], i)
  <2>1. rf' = [rf EXCEPT ![i] = r]
    BY <1>2, Zenon DEF attemptElection
  <2>2. Keeps(rf[i], r)
    BY <1>1, ElectionKeeps
  <2>3. \A d \in calls' : d \in calls \/ \E j : d = Call("RequestVote", i, j, RequestVoteArgs(r, i))
    BY <1>2 DEF attemptElection
  <2> HIDE DEF r
  <2>4. \A j : Call("RequestVote", i, j, RequestVoteArgs(r, i)).rpc # "AppendEntries"
    BY DEF Call
  <2>5. \A d \in Appends' : \E e \in Appends : Same(d, e)
    BY <2>3, <2>4 DEF Appends, Same
  <2>6. \A j \in Server : Keeps(rf[j], rf'[j])
    BY <2>1, <2>2, OneKeeps
  <2> QED
    BY <2>5, <2>6, KeepsStep
<1>3. ASSUME NEW c \in calls, HandleRequestVote(c) PROVE LogInv'
  <2> DEFINE h == RequestVote(rf[c.to], c.args)
  <2>1. rf' = [rf EXCEPT ![c.to] = h.rf] /\ calls' = Replied(c, h.reply) /\ c.rpc # "AppendEntries"
    BY <1>3, Zenon DEF HandleRequestVote
  <2>2. c.to \in Server => Keeps(rf[c.to], h.rf)
    BY <1>1, ElectionKeeps
  <2> HIDE DEF h
  <2>3. \A j \in Server : Keeps(rf[j], rf'[j])
    BY <2>1, <2>2, OneKeeps
  <2>4. \A d \in Appends' : \E e \in Appends : Same(d, e)
    BY <2>1, RepliedFewer
  <2> QED
    BY <2>3, <2>4, KeepsStep
<1>4. ASSUME NEW c \in calls, CountVote(c) PROVE LogInv'
  <2> DEFINE s == handleVoteReply(rf[c.from], c.from, c.to, c.args, c.reply)
  <2>1. rf' = [rf EXCEPT ![c.from] = s] /\ calls' = calls \ {c}
    BY <1>4, Zenon DEF CountVote
  <2>2. c.to \in Server
    BY DEF ElectionInv, ElectionTypes, CallOK
  <2>3. c.from \in Server => Keeps(rf[c.from], s)
    BY <1>1, <2>2, VoteReplyKeeps
  <2> HIDE DEF s
  <2>4. \A j \in Server : Keeps(rf[j], rf'[j])
    BY <2>1, <2>3, OneKeeps
  <2> QED
    BY <2>1, <2>4, SameAppends, KeepsStep
<1> QED
  BY <1>2, <1>3, <1>4

LEMMA ReturnsLog ==
    ASSUME ElectionInv, ElectionInv', ElectionStep, LogInv, NoSnapshot, NEW c \in calls,
           AppendEntriesReturns(c) \/ InstallSnapshotReturns(c) \/ CallFails(c)
    PROVE  LogInv'
<1>1. \A i \in Server : PeerOK(rf[i]) /\ LogOK(rf[i]) /\ rf[i].snapshotIndex = 0
  BY DEF ElectionInv, ElectionTypes, LogInv, LogTypes, NoSnapshot
<1>2. c.to \in Server /\ DOMAIN c = CallFields
  BY DEF ElectionInv, ElectionTypes, CallOK
<1>3. CASE AppendEntriesReturns(c)
  <2> DEFINE s == sendAndHandle(rf[c.from], c.from, c.to, c.args, c.latest, TRUE, c.reply)
  <2>1. rf' = [rf EXCEPT ![c.from] = s] /\ calls' = calls \ {c}
    BY <1>3, Zenon DEF AppendEntriesReturns
  <2>2. ArgsOK(c.args) /\ ReplyOK(c.reply)
    BY <1>3 DEF AppendEntriesReturns, LogInv, LogTypes, Appends
  <2>3. c.from \in Server => Keeps(rf[c.from], s)
    BY <1>1, <1>2, <2>2, ReplyKeeps
  <2> HIDE DEF s
  <2>4. \A j \in Server : Keeps(rf[j], rf'[j])
    BY <2>1, <2>3, OneKeeps
  <2> QED
    BY <2>1, <2>4, SameAppends, KeepsStep
<1>4. CASE InstallSnapshotReturns(c)
  <2> DEFINE s == handleSnapshotReply(rf[c.from], c.to, c.args, TRUE, c.reply)
  <2>1. rf' = [rf EXCEPT ![c.from] = s] /\ calls' = calls \ {c}
    BY <1>4, Zenon DEF InstallSnapshotReturns
  <2>2. c.from \in Server => Keeps(rf[c.from], s)
    BY <1>1, <1>2, ReplyKeeps
  <2> HIDE DEF s
  <2>3. \A j \in Server : Keeps(rf[j], rf'[j])
    BY <2>1, <2>2, OneKeeps
  <2> QED
    BY <2>1, <2>3, SameAppends, KeepsStep
<1>5. CASE CallFails(c)
  <2> DEFINE s == sendAndHandle(rf[c.from], c.from, c.to, c.args, c.latest, FALSE, None)
             left == [c EXCEPT !.from = None]
  <2>1. rf' = [rf EXCEPT ![c.from] = s] \/ UNCHANGED rf
    BY <1>5, Zenon DEF CallFails
  <2>2. c.from \in Server => Keeps(rf[c.from], s)
    BY <1>1, <1>2, ReplyKeeps
  <2> HIDE DEF s
  <2>3. \A j \in Server : Keeps(rf[j], rf'[j])
    BY <2>1, <2>2, OneKeeps, NoneKeeps
  <2>4. left.rpc = c.rpc /\ Same(left, c)
    BY <1>2 DEF CallFields, Same
  <2>5. \A d \in calls' : d \in calls \/ d = left
    BY <1>5 DEF CallFails
  <2> HIDE DEF left
  <2>6. \A d \in Appends' : \E e \in Appends : Same(d, e)
    BY <2>4, <2>5 DEF Appends, Same
  <2> QED
    BY <2>3, <2>6, KeepsStep
<1> QED
  BY <1>3, <1>4, <1>5

\* InstallSnapshot has nothing to install as long as no peer has a snapshot.
LEMMA InstallLog ==
    ASSUME ElectionInv, ElectionInv', ElectionStep, LogInv, NoSnapshot, NoSnapshot',
           \/ \E i, j \in Server : SendInstallSnapshot(i, j)
           \/ \E c \in calls : HandleInstallSnapshot(c) \/ ReceiveSnapshot(c) \/ FinishInstallSnapshot(c)
    PROVE  LogInv'
<1>1. ASSUME NEW c \in calls PROVE DOMAIN c = CallFields /\ c.to \in Server /\ Asks(c)
  BY DEF ElectionInv, ElectionTypes, CallOK
<1>2. ASSUME NEW i \in Server, NEW j \in Server, SendInstallSnapshot(i, j) PROVE LogInv'
  <2>1. UNCHANGED rf
    BY <1>2 DEF SendInstallSnapshot
  <2>2. PICK new : /\ new = Call("InstallSnapshot", i, j, InstallSnapshotArgs(rf[i]))
                   /\ calls' = calls \union {new}
    BY <1>2, Zenon DEF SendInstallSnapshot
  <2>3. new.rpc # "AppendEntries"
    BY <2>2 DEF Call
  <2>4. \A d \in Appends' : \E e \in Appends : Same(d, e)
    BY <2>2, <2>3 DEF Appends, Same
  <2> QED
    BY <2>1, <2>4, NoneKeeps, KeepsStep
<1>3. ASSUME NEW c \in calls, HandleInstallSnapshot(c) PROVE LogInv'
  <2>1. PICK reply : \/ calls' = (calls \ {c}) \union {[c EXCEPT !.reply = reply, !.pending = "send"]}
                     \/ calls' = Replied(c, reply)
    BY <1>3, Zenon DEF HandleInstallSnapshot
  <2>2. UNCHANGED rf /\ c.rpc # "AppendEntries"
    BY <1>3 DEF HandleInstallSnapshot
  <2>3. CASE calls' = (calls \ {c}) \union {[c EXCEPT !.reply = reply, !.pending = "send"]}
    <3>1. [c EXCEPT !.reply = reply, !.pending = "send"].rpc # "AppendEntries"
      BY <1>1, <2>2 DEF CallFields
    <3>2. \A d \in Appends' : \E e \in Appends : Same(d, e)
      BY <2>3, <3>1 DEF Appends, Same
    <3> QED
      BY <2>2, <3>2, NoneKeeps, KeepsStep
  <2>4. CASE calls' = Replied(c, reply)
    <3>1. \A d \in Appends' : \E e \in Appends : Same(d, e)
      BY <2>2, <2>4, RepliedFewer
    <3> QED
      BY <2>2, <3>1, NoneKeeps, KeepsStep
  <2> QED
    BY <2>1, <2>3, <2>4
<1>4. ASSUME NEW c \in calls, ReceiveSnapshot(c) PROVE LogInv'
  <2> DEFINE sent == [c EXCEPT !.pending = "sent"]
  <2>1. UNCHANGED rf /\ \A d \in calls' : d \in calls \/ d = sent
    BY <1>4 DEF ReceiveSnapshot
  <2>2. sent.rpc = c.rpc /\ Same(sent, c)
    BY <1>1 DEF CallFields, Same
  <2> HIDE DEF sent
  <2>3. \A d \in Appends' : \E e \in Appends : Same(d, e)
    BY <2>1, <2>2 DEF Appends, Same
  <2> QED
    BY <2>1, <2>3, NoneKeeps, KeepsStep
<1>5. ASSUME NEW c \in calls, FinishInstallSnapshot(c) PROVE LogInv'
  <2> DEFINE s == InstallSnapshot(rf[c.to], c.args)
  <2>1. rf' = [rf EXCEPT ![c.to] = s] /\ calls' = Replied(c, c.reply)
    BY <1>5, Zenon DEF FinishInstallSnapshot
  <2>2. c.to \in Server /\ rf[c.to].snapshotIndex = 0 /\ PeerOK(rf[c.to]) /\ rf'[c.to].snapshotIndex = 0
    BY <1>1 DEF NoSnapshot, ElectionInv, ElectionTypes
  <2>3. rf = [j \in Server |-> rf[j]]
    BY DEF ElectionInv, ElectionTypes
  <2>4. s = rf[c.to]
    <3> DEFINE r == rf[c.to]
    <3>2. s = r \/ (s.snapshotIndex = c.args.lastIncludedIndex /\ ~(r.snapshotIndex >= c.args.lastIncludedIndex))
      <4>1. CASE r.snapshotIndex >= c.args.lastIncludedIndex
        BY <4>1 DEF InstallSnapshot
      <4>2. CASE ~(r.snapshotIndex >= c.args.lastIncludedIndex)
        BY <2>2, <4>2 DEF InstallSnapshot, PeerOK, PeerFields
      <4> QED
        BY <4>1, <4>2
    <3>3. rf'[c.to] = s
      BY <2>1, <2>2, <2>3
    <3> QED
      BY <2>2, <3>2, <3>3
  <2> HIDE DEF s
  <2>5. UNCHANGED rf
    BY <2>1, <2>2, <2>3, <2>4
  <2> DEFINE done == [c EXCEPT !.reply = c.reply, !.pending = "no"]
  <2>6. done.rpc = c.rpc /\ Same(done, c)
    BY <1>1 DEF CallFields, Same
  <2>7. \A d \in calls' : d \in calls \/ d = done
    BY <2>1 DEF Replied
  <2> HIDE DEF done
  <2>8. \A d \in Appends' : \E e \in Appends : Same(d, e)
    BY <2>6, <2>7 DEF Appends, Same
  <2> QED
    BY <2>5, <2>8, NoneKeeps, KeepsStep
<1> QED
  BY <1>2, <1>3, <1>4, <1>5

\* What a peer, its service and its persister do by themselves, a crash included.
LEMMA LocalLog ==
    ASSUME CrashesWhenSaved = TRUE, ElectionInv, ElectionInv', ElectionStep, LogInv,
           NoSnapshot, NoSnapshot', NEW i \in Server,
           \/ CopyBatch(i) \/ ReceiveCommand(i) \/ FinishBatch(i) \/ TakeSnapshot(i)
           \/ BeginSave(i) \/ EndSave(i) \/ CrashAndRestart(i)
    PROVE  LogInv'
<1>1. PeerOK(rf[i]) /\ LogOK(rf[i]) /\ rf[i].snapshotIndex = 0 /\ rf'[i].snapshotIndex = 0
      /\ rf = [j \in Server |-> rf[j]]
  BY DEF ElectionInv, ElectionTypes, LogInv, LogTypes, NoSnapshot
<1>2. CASE CopyBatch(i) \/ ReceiveCommand(i) \/ BeginSave(i)
  <2>1. UNCHANGED <<rf, calls>>
    BY <1>2 DEF CopyBatch, ReceiveCommand, BeginSave
  <2> QED
    BY <2>1, NoneKeeps, SameAppends, KeepsStep
<1>3. CASE FinishBatch(i)
  <2>1. PICK k : rf' = [rf EXCEPT ![i] = [rf[i] EXCEPT !.lastApplied = k]]
    BY <1>3, Zenon DEF FinishBatch
  <2>2. Keeps(rf[i], [rf[i] EXCEPT !.lastApplied = k])
    BY <1>1 DEF Keeps, LogOK, PeerOK, PeerFields
  <2>3. \A j \in Server : Keeps(rf[j], rf'[j])
    BY <2>1, <2>2, OneKeeps
  <2>4. UNCHANGED calls
    BY <1>3 DEF FinishBatch
  <2> QED
    BY <2>3, <2>4, SameAppends, KeepsStep
<1>4. CASE TakeSnapshot(i)
  <2>1. PICK index, snapshot : rf' = [rf EXCEPT ![i] = Snapshot(rf[i], index, snapshot)]
    BY <1>4, Zenon DEF TakeSnapshot
  <2> DEFINE r == rf[i]
             s == Snapshot(r, index, snapshot)
  <2>2. s = r \/ (s.snapshotIndex = index /\ ~(index <= r.snapshotIndex))
    <3>1. CASE index <= r.snapshotIndex \/ index > LastIndex(r)
      BY <3>1 DEF Snapshot
    <3>2. CASE ~(index <= r.snapshotIndex \/ index > LastIndex(r))
      BY <1>1, <3>2 DEF Snapshot, PeerOK, PeerFields
    <3> QED
      BY <3>1, <3>2
  <2> HIDE DEF s
  <2>3. rf'[i] = s
    BY <1>1, <2>1 DEF s
  <2>4. s = r
    BY <1>1, <2>2, <2>3
  <2>5. UNCHANGED rf
    BY <1>1, <2>1, <2>4 DEF s
  <2>6. UNCHANGED calls
    BY <1>4 DEF TakeSnapshot
  <2> QED
    BY <2>5, <2>6, NoneKeeps, SameAppends, KeepsStep
<1>5. CASE EndSave(i)
  <2>1. rf' = [rf EXCEPT ![i] = [rf[i] EXCEPT !.dirty = FALSE]]
    BY <1>5, Zenon DEF EndSave
  <2>2. Keeps(rf[i], [rf[i] EXCEPT !.dirty = FALSE])
    BY <1>1 DEF Keeps, LogOK, PeerOK, PeerFields
  <2>3. \A j \in Server : Keeps(rf[j], rf'[j])
    BY <2>1, <2>2, OneKeeps
  <2>4. UNCHANGED calls
    BY <1>5 DEF EndSave
  <2> QED
    BY <2>3, <2>4, SameAppends, KeepsStep
<1>6. CASE CrashAndRestart(i)
  <2>1. rf' = [rf EXCEPT ![i] = Make(encodeState(rf[i]))]
    BY <1>6, Zenon DEF CrashAndRestart
  <2>2. Keeps(rf[i], Make(encodeState(rf[i])))
    BY <1>1, ElectionKeeps
  <2>3. \A j \in Server : Keeps(rf[j], rf'[j])
    BY <2>1, <2>2, OneKeeps
  <2>4. ASSUME NEW d \in calls'
        PROVE  \E c \in calls : d.rpc = c.rpc /\ Same(d, c)
    <3>1. d \in calls \/ \E c \in calls : d = [c EXCEPT !.from = None]
      BY <1>6, <2>4 DEF CrashAndRestart
    <3>2. ASSUME NEW c \in calls PROVE [c EXCEPT !.from = None].rpc = c.rpc /\ Same([c EXCEPT !.from = None], c)
      <4>1. DOMAIN c = CallFields
        BY DEF ElectionInv, ElectionTypes, CallOK
      <4> QED
        BY <4>1 DEF CallFields, Same
    <3>3. Same(d, d)
      BY DEF Same
    <3> QED
      BY <3>1, <3>2, <3>3
  <2>5. \A d \in Appends' : \E e \in Appends : Same(d, e)
    BY <2>4 DEF Appends
  <2> QED
    BY <2>3, <2>5, KeepsStep
<1> QED
  BY <1>2, <1>3, <1>4, <1>5, <1>6

-----------------------------------------------------------------------------
(* The theorem.                                                             *)

LEMMA NextLog ==
    ASSUME CrashesWhenSaved = TRUE, ElectionInv, ElectionInv', ElectionStep, LogInv,
           NoSnapshot, NoSnapshot', [Next]_vars
    PROVE  LogInv'
<1>1. CASE UNCHANGED vars
  BY <1>1, NoneKeeps, SameAppends, KeepsStep DEF vars
<1>2. ASSUME NEW i \in Server, attemptElection(i) PROVE LogInv'
  BY <1>2, VotingLog
<1>3. ASSUME NEW c \in calls, HandleRequestVote(c) \/ CountVote(c) PROVE LogInv'
  BY <1>3, VotingLog
<1>4. ASSUME NEW i \in Server, NEW command \in Command, ClientStart(i, command) PROVE LogInv'
  BY <1>4, ClientStartLog
<1>5. ASSUME NEW i \in Server, NEW j \in Server, SendAppendEntries(i, j) PROVE LogInv'
  BY <1>5, SendAppendLog
<1>6. ASSUME NEW i \in Server, NEW j \in Server, SendInstallSnapshot(i, j) PROVE LogInv'
  BY <1>6, InstallLog
<1>7. ASSUME NEW i \in Server,
             \/ CopyBatch(i) \/ ReceiveCommand(i) \/ FinishBatch(i) \/ TakeSnapshot(i)
             \/ BeginSave(i) \/ EndSave(i) \/ CrashAndRestart(i)
      PROVE  LogInv'
  BY <1>7, LocalLog
<1>8. ASSUME NEW c \in calls, HandleAppendEntries(c) PROVE LogInv'
  BY <1>8, HandleAppendLog
<1>9. ASSUME NEW c \in calls,
             AppendEntriesReturns(c) \/ InstallSnapshotReturns(c) \/ CallFails(c)
      PROVE  LogInv'
  BY <1>9, ReturnsLog
<1>10. ASSUME NEW c \in calls,
              HandleInstallSnapshot(c) \/ ReceiveSnapshot(c) \/ FinishInstallSnapshot(c)
       PROVE  LogInv'
  BY <1>10, InstallLog
<1> QED
  BY <1>1, <1>2, <1>3, <1>4, <1>5, <1>6, <1>7, <1>8, <1>9, <1>10, Zenon DEF Next

LEMMA InitLog == Init => LogInv
<1> SUFFICES ASSUME Init PROVE LogInv
  OBVIOUS
<1> DEFINE first == << [term |-> 0, command |-> None] >>
<1>1. /\ \A i \in Server : /\ rf[i].log = first /\ rf[i].state = "FOLLOWER"
                           /\ rf[i].nextIndex = [s \in Server |-> 0 + Len(first)]
                           /\ rf[i].matchIndex = [s \in Server |-> 0]
      /\ Appends = {}
  BY DEF Init, Make, Bootstrap, Appends
<1>2. first \in Seq(Entry) /\ Len(first) = 1 /\ first # << >>
  BY DEF Entry
<1> HIDE DEF first
<1>3. LogTypes
  BY <1>1, <1>2 DEF LogTypes, LogOK
<1>4. \A F \in Frags : F = LogFrag(first)
  BY <1>1 DEF Frags
<1>5. FragsMatch
  BY <1>4, MatchReflexive DEF FragsMatch
<1>6. \A F \in Frags : \A k \in Within(F) : ~(k > F.lo)
  BY <1>2, <1>4 DEF LogFrag, Within
<1> QED
  BY <1>1, <1>3, <1>5, <1>6 DEF LogInv, TermsTaken, SendersTaken, LeaderOwns

LEMMA LogInvMatches == LogInv /\ NoSnapshot => LogMatching
<1> SUFFICES ASSUME LogInv, NoSnapshot, NEW i \in Server, NEW j \in Server,
                    NEW k \in Held(i) \intersect Held(j), At(rf[i], k).term = At(rf[j], k).term,
                    NEW m \in Held(i) \intersect Held(j), m <= k
             PROVE  At(rf[i], m) = At(rf[j], m)
  BY DEF LogMatching
<1> DEFINE F == LogFrag(rf[i].log)
           G == LogFrag(rf[j].log)
<1>1. /\ rf[i].snapshotIndex = 0 /\ rf[j].snapshotIndex = 0
      /\ Len(rf[i].log) \in Nat /\ Len(rf[j].log) \in Nat
  BY DEF NoSnapshot, LogInv, LogTypes, LogOK
<1>2. ASSUME NEW x \in Held(i) \intersect Held(j)
      PROVE  /\ x \in Within(F) \intersect Within(G) /\ x > F.lo /\ x > G.lo
             /\ F.at[x] = At(rf[i], x) /\ G.at[x] = At(rf[j], x)
  <2>1. x \in Int /\ 0 < x /\ x < Len(rf[i].log) /\ x < Len(rf[j].log)
    BY <1>1, <1>2 DEF Held, LastIndex, LogEnd
  <2> QED
    BY <1>1, <2>1 DEF At, LogFrag, Within
<1>3. Match(F, G)
  BY DEF LogInv, FragsMatch, Frags
<1> HIDE DEF F, G
<1> QED
  BY <1>2, <1>3 DEF Match

\* Two logs that have an entry of the same term at an index are the same up to it,
\* whatever messages are lost, delayed or reordered and whoever crashes: the check
\* of the previous entry in AppendEntries (raft.go), the leader's own appends in
\* Start and the votes of the election together.  The hypotheses: crashes meet
\* saved state, as in OneLeaderPerTerm, and no peer has a snapshot, as in the tests
\* of parts 3A to 3C.  With one, AppendEntries skips to the snapshot and takes its
\* own term for the one to check, so that matching logs rest on what is committed.
THEOREM LogsMatch ==
    ASSUME CrashesWhenSaved = TRUE
    PROVE  Spec /\ []NoSnapshot => []LogMatching
<1>1. ElectionInv /\ LogInv /\ NoSnapshot /\ NoSnapshot' /\ [Next]_vars => ElectionInv' /\ LogInv'
  BY NextElection, NextLog
<1> QED
  BY <1>1, InitElection, InitLog, LogInvMatches, PTL DEF Spec
=============================================================================
