-------------------------- MODULE RaftCommitProofs --------------------------
(***************************************************************************)
(* What is committed stays, for any number of peers, commands, terms, calls *)
(* and crashes, in every behaviour in which no peer has discarded a part of *)
(* its log, as long as a peer that crashes has saved its state: leaders     *)
(* have every committed entry, services apply the same commands, and the    *)
(* indices of a peer are in order.                                          *)
(*                                                                         *)
(* Positions are slots of a log as the model keeps it: the entry of index k *)
(* is in slot k + 1, and slot 1 holds the entry before the first.           *)
(***************************************************************************)
EXTENDS RaftProofs

-----------------------------------------------------------------------------
(* Logs and what is sent of them.                                           *)

EndTerm(log) == log[Len(log)].term

Sorted(log) == \A m, n \in 1 .. Len(log) : m <= n => log[m].term <= log[n].term

\* The log begins with P, or at least its first n slots are those of P.
Agrees(log, P, n) == n <= Len(log) /\ n <= Len(P) /\ \A m \in 1 .. n : log[m] = P[m]
Has(log, P) == Agrees(log, P, Len(P))

\* How RequestVote compares logs: log is at least as up to date as P.
AsRecent(log, P) ==
    \/ EndTerm(log) > EndTerm(P)
    \/ EndTerm(log) = EndTerm(P) /\ Len(log) >= Len(P)

\* The slots of the entries in a call of AppendEntries, after the one of the
\* entry that is only compared.
FirstSlot(args) == args.prevLogIndex + 1
LastSlot(args) == args.prevLogIndex + 1 + Len(args.entries)
TermAt(args, n) ==
    IF n = FirstSlot(args) THEN args.prevLogTerm ELSE args.entries[n - FirstSlot(args)].term

\* The entries are those of P, or come after an entry no older than the end of P.
ArgsAgree(args, P) ==
    /\ \A n \in FirstSlot(args) .. LastSlot(args) : n <= Len(P) => TermAt(args, n) = P[n].term
    /\ FirstSlot(args) > Len(P) => args.prevLogTerm >= EndTerm(P)

-----------------------------------------------------------------------------
(* What is committed.                                                       *)

\* So many peers are enough to commit: any majority has one of them.  (With an
\* even number of peers, one less than a majority.)
Commits(Q) == Cardinality(Q) >= Cardinality(Server) - Cardinality(Server) \div 2

\* Nobody can replace P, the beginning of a log through an entry of term T, as
\* long as the peers of Q stand by it: a log at least as up to date has P, what is
\* sent in term T or later agrees with it, and the leaders of these terms, and the
\* candidates for later ones for whom a peer of Q has voted, have it.
SafeLogs(P) == \A j \in Server : AsRecent(rf[j].log, P) => Has(rf[j].log, P)
SafeSent(P) == \A c \in Appends : c.args.term >= EndTerm(P) => ArgsAgree(c.args, P)
SafeLeaders(P) ==
    \A j \in Server :
      rf[j].state = "LEADER" /\ rf[j].currentTerm >= EndTerm(P) => Has(rf[j].log, P)
SafeCandidates(P, Q) ==
    \A j \in Server, v \in Q :
      (/\ rf[j].state = "CANDIDATE" /\ rf[j].currentTerm > EndTerm(P)
       /\ Granted(v, j, rf[j].currentTerm)) => Has(rf[j].log, P)
Safe(P, Q) == SafeLogs(P) /\ SafeSent(P) /\ SafeLeaders(P) /\ SafeCandidates(P, Q)

\* P is committed for good.
FinalIn(P, Q) == Commits(Q) /\ Safe(P, Q) /\ \A v \in Q : Has(rf[v].log, P)
Final(P) == P \in Seq(Entry) /\ Len(P) >= 2 /\ \E Q \in SUBSET Server : FinalIn(P, Q)

\* v has told the leader i that it has the entry in slot n of i's log, or the
\* answer is on its way.
AckedBy(c, v, t, n) ==
    /\ c.to = v /\ c.args.term = t
    /\ c.reply # None /\ c.reply.success /\ LastSlot(c.args) >= n
Acked(v, i, n) ==
    \/ v = i
    \/ rf[i].matchIndex[v] >= n - 1
    \/ \E c \in Appends : AckedBy(c, v, rf[i].currentTerm, n)

Prefix(log, n) == SubSeq(log, 1, n)

\* An entry that a leader made in its term is safe with any peers that have
\* acknowledged it or still may, and those that have acknowledged it have it.
MayCommit(i, n, Q) ==
    /\ Commits(Q)
    /\ \A v \in Q : Acked(v, i, n) \/ rf[v].currentTerm <= rf[i].currentTerm
EntrySafe(i, n, Q) ==
    /\ Safe(Prefix(rf[i].log, n), Q)
    /\ \A v \in Q : Acked(v, i, n) => Has(rf[v].log, Prefix(rf[i].log, n))
AcksSafe ==
    \A i \in Server : rf[i].state = "LEADER" =>
      \A n \in 2 .. Len(rf[i].log) : rf[i].log[n].term = rf[i].currentTerm =>
        \A Q \in SUBSET Server : MayCommit(i, n, Q) => EntrySafe(i, n, Q)

-----------------------------------------------------------------------------
(* What this rests on.                                                      *)

\* Logs begin alike, terms grow along a log, and none is from the future.
TermsGrow(r) ==
    /\ r.log[1] = [term |-> 0, command |-> None] /\ Sorted(r.log)
    /\ EndTerm(r.log) <= r.currentTerm

\* The same for what is sent; a conflict is before what was sent.
SentGrows(args) ==
    /\ \A m, n \in FirstSlot(args) .. LastSlot(args) : m <= n => TermAt(args, m) <= TermAt(args, n)
    /\ \A n \in FirstSlot(args) .. LastSlot(args) : TermAt(args, n) \in Nat
    /\ TermAt(args, LastSlot(args)) <= args.term
Conflicts(args, reply) ==
    reply.conflictingLogLen <= args.prevLogIndex /\ reply.conflictingIndex <= args.prevLogIndex

\* The entries are part of the log.
PartOf(args, log) ==
    /\ LastSlot(args) <= Len(log)
    /\ \A n \in FirstSlot(args) .. LastSlot(args) : TermAt(args, n) = log[n].term
LeaderSent ==
    \A i \in Server : rf[i].state = "LEADER" =>
      \A c \in Appends : c.args.term = rf[i].currentTerm => PartOf(c.args, rf[i].log)

\* The indices a leader keeps of its peers are within its log.
IndexOK(r, i) ==
    \A j \in Server :
      /\ r.matchIndex[j] >= 0 /\ r.matchIndex[j] < Len(r.log)
      /\ j # i => r.nextIndex[j] <= Len(r.log) /\ r.matchIndex[j] < r.nextIndex[j]
IndexInv == \A i \in Server : rf[i].state = "LEADER" => IndexOK(rf[i], i)

\* A candidate asks for votes with the log it has.
Votes == {c \in calls : c.rpc = "RequestVote"}
BallotOK(args) ==
    LET r == rf[args.candidateId]
    IN /\ args.term <= r.currentTerm
       /\ args.term = r.currentTerm /\ r.state = "CANDIDATE" =>
            args.lastLogIndex = Len(r.log) - 1 /\ args.lastLogTerm = EndTerm(r.log)
Ballots == \A c \in Votes : BallotOK(c.args)

\* No leader sends a snapshot.
Plain == \A c \in calls : c.rpc \in {"RequestVote", "AppendEntries"} /\ c.pending = "no"

CommitTypes ==
    /\ \A i \in Server : rf[i].commitIndex \in Nat
    /\ \A c \in Appends : c.args.leaderCommit \in Nat

BaseInv ==
    /\ \A i \in Server : TermsGrow(rf[i])
    /\ \A c \in Appends : SentGrows(c.args) /\ (c.reply # None => Conflicts(c.args, c.reply))
    /\ LeaderSent /\ IndexInv /\ Ballots /\ Plain /\ CommitTypes

-----------------------------------------------------------------------------
(* Facts about logs.                                                        *)

\* What matching logs have in common.
Meet(A, B) ==
    \A n \in 1 .. Len(A) : n <= Len(B) /\ A[n].term = B[n].term =>
      \A m \in 1 .. n : A[m] = B[m]
LogsMeet == \A i, j \in Server : Meet(rf[i].log, rf[j].log)

LEMMA AllMeet ==
    ASSUME LogInv, \A i \in Server : TermsGrow(rf[i])
    PROVE  LogsMeet
<1> SUFFICES ASSUME NEW i \in Server, NEW j \in Server,
                    NEW n \in 1 .. Len(rf[i].log), n <= Len(rf[j].log),
                    rf[i].log[n].term = rf[j].log[n].term,
                    NEW m \in 1 .. n
             PROVE  rf[i].log[m] = rf[j].log[m]
  BY DEF LogsMeet, Meet
<1>1. PICK A \in Seq(Entry) : A = rf[i].log
  BY DEF LogInv, LogTypes, LogOK
<1>2. PICK B \in Seq(Entry) : B = rf[j].log
  BY DEF LogInv, LogTypes, LogOK
<1>3. A[1] = B[1]
  BY <1>1, <1>2 DEF TermsGrow
<1>4. Match(LogFrag(A), LogFrag(B))
  BY <1>1, <1>2 DEF LogInv, FragsMatch, Frags
<1>5. /\ n - 1 \in 0 .. Len(A) - 1 /\ n - 1 \in 0 .. Len(B) - 1 /\ (n - 1) + 1 = n
      /\ m - 1 \in 0 .. Len(A) - 1 /\ m - 1 \in 0 .. Len(B) - 1 /\ (m - 1) + 1 = m
      /\ m - 1 <= n - 1
  BY <1>1, <1>2, SMTT(30)
<1>6. CASE m = 1
  BY <1>1, <1>2, <1>3, <1>6
<1>7. CASE m # 1
  <2>1. \A k \in 0 .. Len(A) - 1 : LogFrag(A).at[k] = A[k + 1]
    BY DEF LogFrag
  <2>2. \A k \in 0 .. Len(B) - 1 : LogFrag(B).at[k] = B[k + 1]
    BY DEF LogFrag
  <2>3. /\ Within(LogFrag(A)) = 0 .. Len(A) - 1 /\ Within(LogFrag(B)) = 0 .. Len(B) - 1
        /\ LogFrag(A).lo = 0 /\ LogFrag(B).lo = 0
    BY DEF LogFrag, Within
  <2> DEFINE F == LogFrag(A)
             G == LogFrag(B)
  <2>4. F.at[n - 1] = A[n] /\ G.at[n - 1] = B[n] /\ F.at[m - 1] = A[m] /\ G.at[m - 1] = B[m]
    BY <1>5, <2>1, <2>2
  <2>5. n - 1 \in Within(F) \intersect Within(G) /\ m - 1 \in Within(F) \intersect Within(G)
    BY <1>5, <2>3
  <2>6. m - 1 > F.lo /\ m - 1 > G.lo
    BY <1>7, <2>3
  <2> HIDE DEF F, G
  <2>7. F.at[m - 1] = G.at[m - 1]
    BY <1>1, <1>2, <1>4, <1>5, <2>4, <2>5, <2>6, ZenonT(60) DEF Match, F, G
  <2> QED
    BY <1>1, <1>2, <2>4, <2>7
<1> QED
  BY <1>6, <1>7

LEMMA EntryIsNat ==
    ASSUME NEW log \in Seq(Entry), NEW n \in 1 .. Len(log)
    PROVE  log[n].term \in Nat
<1>1. log[n] \in Entry
  OBVIOUS
<1> QED
  BY <1>1 DEF Entry

LEMMA HasRecent ==
    ASSUME NEW log \in Seq(Entry), NEW P \in Seq(Entry), Len(P) >= 1, Has(log, P), Sorted(log)
    PROVE  AsRecent(log, P) /\ EndTerm(P) <= EndTerm(log) /\ Sorted(P) /\ EndTerm(P) \in Nat
<1>1. Len(log) \in Nat /\ Len(P) \in Nat /\ Len(P) <= Len(log)
  BY DEF Has, Agrees
<1>2. \A n \in 1 .. Len(P) : log[n] = P[n] /\ n \in 1 .. Len(log)
  BY <1>1 DEF Has, Agrees
<1>3. Len(P) \in 1 .. Len(P) /\ Len(log) \in 1 .. Len(log) /\ Len(P) \in 1 .. Len(log)
  BY <1>1
<1>4. EndTerm(P) \in Nat /\ EndTerm(log) \in Nat
  BY <1>3, EntryIsNat DEF EndTerm
<1>5. EndTerm(P) = log[Len(P)].term
  BY <1>2, <1>3 DEF EndTerm
<1>6. EndTerm(P) <= EndTerm(log)
  BY <1>1, <1>3, <1>5 DEF Sorted, EndTerm
<1>7. Sorted(P)
  BY <1>2 DEF Sorted
<1> QED
  BY <1>1, <1>4, <1>6, <1>7 DEF AsRecent

LEMMA RecentTransitive ==
    ASSUME NEW A \in Seq(Entry), NEW B \in Seq(Entry), NEW P \in Seq(Entry),
           Len(A) >= 1, Len(B) >= 1, Len(P) >= 1, AsRecent(A, B), AsRecent(B, P)
    PROVE  AsRecent(A, P)
<1>1. EndTerm(A) \in Nat /\ EndTerm(B) \in Nat /\ EndTerm(P) \in Nat
  BY EntryIsNat DEF EndTerm
<1>2. Len(A) \in Nat /\ Len(B) \in Nat /\ Len(P) \in Nat
  OBVIOUS
<1> QED
  BY <1>1, <1>2 DEF AsRecent

-----------------------------------------------------------------------------
(* What AppendEntries leaves of a log.                                      *)

\* N is L with the entries of the call: L has the entry before them, N has
\* their terms, and is L or ends with them after the part of L before the first
\* entry that L does not have.
Joins(N, L, args) ==
    /\ FirstSlot(args) <= Len(L) /\ L[FirstSlot(args)].term = args.prevLogTerm
    /\ LastSlot(args) <= Len(N)
    /\ \A n \in FirstSlot(args) .. LastSlot(args) : N[n].term = TermAt(args, n)
    /\ \/ N = L
       \/ /\ Len(N) = LastSlot(args)
          /\ \E q \in FirstSlot(args) .. LastSlot(args) - 1 :
               /\ q <= Len(L) /\ \A n \in 1 .. q : N[n] = L[n]
               /\ q + 1 <= Len(L) => L[q + 1].term # TermAt(args, q + 1)

\* What agrees with the entries of the call is not lost.
LEMMA JoinKeeps ==
    ASSUME NEW N \in Seq(Entry), NEW L \in Seq(Entry), NEW args, ArgsOK(args), NEW P \in Seq(Entry),
           NEW s \in Nat, Joins(N, L, args), Agrees(L, P, s),
           \A n \in FirstSlot(args) .. LastSlot(args) : n <= s => TermAt(args, n) = P[n].term
    PROVE  Agrees(N, P, s)
<1>1. CASE N = L
  BY <1>1
<1>2. CASE N # L
  <2>1. /\ FirstSlot(args) \in Nat /\ LastSlot(args) \in Nat /\ FirstSlot(args) >= 1
        /\ Len(L) \in Nat /\ Len(N) \in Nat /\ Len(P) \in Nat
    BY DEF ArgsOK, FirstSlot, LastSlot
  <2>2. PICK q \in FirstSlot(args) .. LastSlot(args) - 1 :
               /\ q <= Len(L) /\ \A n \in 1 .. q : N[n] = L[n]
               /\ q + 1 <= Len(L) => L[q + 1].term # TermAt(args, q + 1)
    BY <1>2 DEF Joins
  <2>3. Len(N) = LastSlot(args)
    BY <1>2 DEF Joins
  <2>4. CASE s <= q
    BY <2>1, <2>2, <2>3, <2>4 DEF Agrees
  <2>5. CASE s > q
    <3>1. /\ q + 1 \in FirstSlot(args) .. LastSlot(args) /\ q + 1 <= s /\ q + 1 \in 1 .. s
          /\ s <= Len(L)
      BY <2>1, <2>2, <2>5 DEF Agrees
    <3>2. TermAt(args, q + 1) = P[q + 1].term
      BY <3>1
    <3>3. L[q + 1] = P[q + 1]
      BY <3>1 DEF Agrees
    <3>4. q + 1 <= Len(L)
      BY <2>1, <2>2, <3>1
    <3> QED
      BY <2>2, <3>2, <3>3, <3>4
  <2> QED
    BY <2>1, <2>2, <2>4, <2>5
<1> QED
  BY <1>1, <1>2

\* As far as the call goes, the log then has what a log W has of P, if the call
\* agrees with P.
LEMMA JoinAgrees ==
    ASSUME NEW N \in Seq(Entry), NEW L \in Seq(Entry), NEW args, ArgsOK(args), SentGrows(args),
           NEW P \in Seq(Entry), NEW W \in Seq(Entry), NEW s \in Nat, Joins(N, L, args),
           s >= 1, s <= Len(P), s <= LastSlot(args), Sorted(L),
           AsRecent(L, P) => Has(L, P), ArgsAgree(args, P), Has(W, P), Meet(N, W)
    PROVE  Agrees(N, P, s)
<1> DEFINE f == FirstSlot(args)
           e == LastSlot(args)
<1>1. /\ f \in Nat /\ e \in Nat /\ f >= 1 /\ f <= e /\ f <= Len(L) /\ e <= Len(N)
      /\ Len(L) \in Nat /\ Len(N) \in Nat /\ Len(P) \in Nat /\ Len(W) \in Nat
  <2>1. FirstSlot(args) <= Len(L) /\ LastSlot(args) <= Len(N)
    BY DEF Joins
  <2>2. /\ FirstSlot(args) \in Nat /\ LastSlot(args) \in Nat /\ FirstSlot(args) >= 1
        /\ FirstSlot(args) <= LastSlot(args)
    BY SMTT(30) DEF ArgsOK, FirstSlot, LastSlot
  <2> QED
    BY <2>1, <2>2
<1>2. \A n \in f .. e : N[n].term = TermAt(args, n)
  BY DEF Joins
<1>3. \A n \in f .. e : n <= Len(P) => TermAt(args, n) = P[n].term
  BY DEF ArgsAgree
<1>4. Len(P) <= Len(W) /\ \A m \in 1 .. Len(P) : W[m] = P[m]
  BY DEF Has, Agrees
<1>5. L[f].term = args.prevLogTerm /\ (f > Len(P) => args.prevLogTerm >= EndTerm(P))
  BY DEF Joins, ArgsAgree
<1> HIDE DEF f, e
<1>6. ASSUME NEW n \in f .. e, n <= Len(P), s <= n PROVE Agrees(N, P, s)
  <2>1. n \in 1 .. Len(N) /\ n <= Len(W) /\ n \in 1 .. Len(P)
    BY <1>1, <1>4, <1>6
  <2>2. N[n].term = W[n].term
    BY <1>2, <1>3, <1>4, <1>6, <2>1
  <2>3. \A m \in 1 .. n : N[m] = W[m]
    BY <2>1, <2>2 DEF Meet
  <2> QED
    BY <1>1, <1>4, <1>6, <2>1, <2>3 DEF Agrees
<1>7. CASE s >= f
  <2>1. s \in f .. e /\ s <= s
    BY <1>1, <1>7 DEF e
  <2> QED
    BY <1>6, <2>1
<1>8. CASE s < f /\ f <= Len(P)
  <2>1. f \in f .. e /\ s <= f
    BY <1>1, <1>8
  <2> QED
    BY <1>6, <1>8, <2>1
<1>9. CASE f > Len(P)
  <2>1. Len(L) \in 1 .. Len(L) /\ f \in 1 .. Len(L) /\ Len(P) \in 1 .. Len(P)
    BY <1>1, <1>9
  <2>2. L[f].term <= EndTerm(L)
    BY <1>1, <2>1 DEF Sorted, EndTerm
  <2>3. L[f].term \in Nat /\ EndTerm(L) \in Nat /\ EndTerm(P) \in Nat
    BY <2>1, EntryIsNat DEF EndTerm
  <2>4. AsRecent(L, P)
    BY <1>1, <1>5, <1>9, <2>2, <2>3 DEF AsRecent
  <2>5. Agrees(L, P, Len(P))
    BY <2>4 DEF Has
  <2>6. Agrees(L, P, s)
    BY <1>1, <2>5 DEF Agrees
  <2>7. \A n \in f .. e : ~(n <= s)
    BY <1>1, <1>9
  <2> QED
    BY <2>6, <2>7, JoinKeeps DEF f, e
<1> QED
  BY <1>1, <1>7, <1>8, <1>9

\* A log that has become as recent as P by the call has P.
LEMMA JoinRecent ==
    ASSUME NEW N \in Seq(Entry), NEW L \in Seq(Entry), NEW args, ArgsOK(args), SentGrows(args),
           NEW P \in Seq(Entry), NEW W \in Seq(Entry), Joins(N, L, args), Sorted(L), Len(P) >= 1,
           AsRecent(L, P) => Has(L, P), args.term \in Nat,
           args.term >= EndTerm(P) => ArgsAgree(args, P),
           Has(W, P), Sorted(W), Meet(N, W), AsRecent(N, P)
    PROVE  Has(N, P)
<1>1. CASE N = L
  BY <1>1
<1>2. CASE N # L
  <2> DEFINE e == LastSlot(args)
  <2>1. /\ e \in Nat /\ e >= 1 /\ e \in FirstSlot(args) .. e
        /\ Len(N) = e /\ Len(P) \in Nat /\ Len(W) \in Nat
    BY <1>2 DEF ArgsOK, FirstSlot, LastSlot, Joins
  <2>2. EndTerm(N) = TermAt(args, e) /\ TermAt(args, e) \in Nat /\ TermAt(args, e) <= args.term
    BY <1>2, <2>1 DEF Joins, EndTerm, SentGrows
  <2>3. Sorted(P) /\ EndTerm(P) \in Nat
    BY HasRecent
  <2>4. EndTerm(P) <= args.term
    BY <2>2, <2>3 DEF AsRecent
  <2>5. ArgsAgree(args, P)
    BY <2>4
  <2>6. Len(P) <= e
    <3> SUFFICES ASSUME e < Len(P) PROVE FALSE
      BY <2>1
    <3>1. TermAt(args, e) = P[e].term
      BY <2>1, <2>5 DEF ArgsAgree
    <3>2. P[e].term <= EndTerm(P)
      BY <2>1, <2>3 DEF Sorted, EndTerm
    <3> QED
      BY <2>1, <2>2, <2>3, <3>1, <3>2 DEF AsRecent
  <2> HIDE DEF e
  <2>7. Agrees(N, P, Len(P))
    BY <2>1, <2>5, <2>6, JoinAgrees DEF e
  <2> QED
    BY <2>7 DEF Has
<1> QED
  BY <1>1, <1>2

\* Terms still grow along the log.
LEMMA JoinSorted ==
    ASSUME NEW N \in Seq(Entry), NEW L \in Seq(Entry), NEW args, ArgsOK(args), SentGrows(args),
           Joins(N, L, args), Sorted(L), args.term \in Nat, EndTerm(L) <= args.term, Len(L) >= 1
    PROVE  Sorted(N) /\ EndTerm(N) <= args.term /\ N[1] = L[1]
<1>1. CASE N = L
  BY <1>1
<1>2. CASE N # L
  <2> DEFINE f == FirstSlot(args)
             e == LastSlot(args)
  <2>1. /\ f \in Nat /\ e \in Nat /\ f >= 1 /\ f <= e
        /\ Len(L) \in Nat /\ Len(N) = e
    BY <1>2, SMTT(30) DEF ArgsOK, FirstSlot, LastSlot, Joins
  <2>2. PICK q \in f .. e - 1 : q <= Len(L) /\ \A n \in 1 .. q : N[n] = L[n]
    BY <1>2 DEF Joins
  <2>3. \A n \in f .. e : N[n].term = TermAt(args, n)
    BY DEF Joins
  <2>4. \A m, n \in f .. e : m <= n => TermAt(args, m) <= TermAt(args, n)
    BY DEF SentGrows
  <2>5. TermAt(args, e) <= args.term
    BY DEF SentGrows
  <2>6. \A n \in 1 .. e : N[n].term \in Nat
    BY <2>1, EntryIsNat
  <2> HIDE DEF f, e
  <2>7. ASSUME NEW m \in 1 .. e, NEW n \in 1 .. e, m <= n PROVE N[m].term <= N[n].term
    <3>1. CASE n <= q
      BY <2>1, <2>2, <2>7, <3>1 DEF Sorted
    <3>2. CASE m > q
      BY <2>1, <2>2, <2>3, <2>4, <2>7, <3>2
    <3>3. CASE m <= q /\ q < n
      <4>1. N[m].term <= N[q].term
        BY <2>1, <2>2, <3>3 DEF Sorted
      <4>2. N[q].term <= N[n].term
        <5>1. q \in f .. e /\ n \in f .. e
          BY <2>1, <2>2, <3>3
        <5> QED
          BY <2>3, <2>4, <3>3, <5>1
      <4>3. N[m].term \in Nat /\ N[q].term \in Nat /\ N[n].term \in Nat
        BY <2>1, <2>2, <2>6, <3>3
      <4> QED
        BY <4>1, <4>2, <4>3
    <3> QED
      BY <2>1, <2>2, <3>1, <3>2, <3>3
  <2>8. EndTerm(N) <= args.term
    BY <2>1, <2>3, <2>5 DEF EndTerm
  <2> QED
    BY <2>1, <2>2, <2>7, <2>8 DEF Sorted
<1> QED
  BY <1>1, <1>2

-----------------------------------------------------------------------------
(* What a step does to a peer.                                              *)

\* Nothing that matters here; it leads only if it did.
Still(r, s) ==
    /\ s.log = r.log /\ s.commitIndex = r.commitIndex
    /\ s.state = "LEADER" =>
         r.state = "LEADER" /\ s.currentTerm = r.currentTerm /\ s.matchIndex = r.matchIndex

\* It starts again with the log it saved.
Restarted(r, s) == s.log = r.log /\ s.commitIndex = 0 /\ s.state = "FOLLOWER"

\* It goes on as the leader of its term.
Leads(r, s) == r.state = "LEADER" /\ s.state = "LEADER" /\ s.currentTerm = r.currentTerm

\* A client has passed it a command.
Extended(r, s, i) ==
    /\ Leads(r, s) /\ s.commitIndex = r.commitIndex
    /\ Len(s.log) = Len(r.log) + 1 /\ EndTerm(s.log) = r.currentTerm
    /\ \A n \in 1 .. Len(r.log) : s.log[n] = r.log[n]
    /\ \A v \in Server \ {i} : s.matchIndex[v] = r.matchIndex[v]

\* It follows the sender of these entries.
Accepts(r, s, args) ==
    /\ args.term >= r.currentTerm /\ s.currentTerm = args.term
    /\ Joins(s.log, r.log, args)
    /\ \/ s.commitIndex = r.commitIndex
       \/ /\ s.commitIndex > r.commitIndex
          /\ s.commitIndex <= args.leaderCommit /\ s.commitIndex < LastSlot(args)

\* The votes have made it the leader of its term.
Elected(i) ==
    /\ rf[i].state = "CANDIDATE" /\ rf'[i].state = "LEADER"
    /\ rf'[i].currentTerm = rf[i].currentTerm
    /\ rf'[i].log = rf[i].log /\ rf'[i].commitIndex = rf[i].commitIndex
    /\ \A v \in rf'[i].votes : Granted(v, i, rf[i].currentTerm)

\* It has handled an answer, and may have committed an entry that enough peers
\* have acknowledged.
Decides(i) ==
    LET k == rf'[i].commitIndex
    IN /\ k > rf[i].commitIndex /\ k < Len(rf[i].log)
       /\ rf[i].log[k + 1].term = rf[i].currentTerm
       /\ \E Q \in SUBSET Server : Commits(Q) /\ \A v \in Q : Acked(v, i, k + 1)
Told(i) ==
    /\ Leads(rf[i], rf'[i]) /\ rf'[i].log = rf[i].log
    /\ \A v \in Server \ {i} :
         \/ rf'[i].matchIndex[v] = rf[i].matchIndex[v]
         \/ \E c \in Appends : AckedBy(c, v, rf[i].currentTerm, rf'[i].matchIndex[v] + 1)
    /\ rf'[i].commitIndex = rf[i].commitIndex \/ Decides(i)

Follows(i) ==
    /\ rf'[i].state = "FOLLOWER"
    /\ \E c \in Appends : c.to = i /\ Accepts(rf[i], rf'[i], c.args)

PeerShape(i) ==
    /\ \/ Still(rf[i], rf'[i]) \/ Restarted(rf[i], rf'[i]) \/ Extended(rf[i], rf'[i], i)
       \/ Follows(i) \/ Elected(i) \/ Told(i)
    /\ rf'[i].state = "LEADER" => IndexOK(rf'[i], i)
    /\ rf'[i].commitIndex \in Nat

-----------------------------------------------------------------------------
(* What a step does to the calls.                                           *)

\* A call in progress, an answer to it, or a call of a leader.
Answered(c, d) ==
    /\ d.reply = None /\ Conflicts(c.args, c.reply)
    /\ c.reply.success => Follows(c.to) /\ Accepts(rf[c.to], rf'[c.to], c.args)
Sent(c, i) ==
    /\ c.reply = None /\ Leads(rf[i], rf'[i]) /\ rf'[i].log = rf[i].log
    /\ c.args.term = rf[i].currentTerm /\ PartOf(c.args, rf[i].log)
    /\ c.args.leaderCommit = rf[i].commitIndex
AppendShape(c) ==
    \/ \E d \in Appends : /\ c.to = d.to /\ c.args = d.args
                          /\ c.reply = d.reply \/ Answered(c, d)
    \/ \E i \in Server : Sent(c, i)

VoteShape(c) ==
    \/ \E d \in Votes : c.args = d.args
    \/ LET s == rf'[c.args.candidateId]
       IN /\ c.args.term = s.currentTerm
          /\ c.args.lastLogIndex = Len(s.log) - 1 /\ c.args.lastLogTerm = EndTerm(s.log)

\* Whoever votes for a candidate has a log that is no more up to date.
GrantShape(j) ==
    rf'[j].state = "CANDIDATE" =>
      \A v \in Server : Granted(v, j, rf[j].currentTerm)' =>
        \/ /\ rf[j].state = "CANDIDATE" /\ rf[j].currentTerm = rf'[j].currentTerm
           /\ Granted(v, j, rf[j].currentTerm)
        \/ AsRecent(rf[j].log, rf[v].log)

StepShape ==
    /\ \A i \in Server : PeerShape(i) /\ GrantShape(i)
    /\ \A c \in Appends' : AppendShape(c)
    /\ \A c \in Votes' : VoteShape(c)
    /\ Plain'

-----------------------------------------------------------------------------
(* The facts this rests on stay true.                                       *)

Grows(L, N) == Len(L) <= Len(N) /\ \A n \in 1 .. Len(L) : N[n] = L[n]

\* Only the winner of an election replaces a log while it leads, and it does not.
LEMMA LeaderCases ==
    ASSUME LogTypes, NEW i \in Server, PeerShape(i), rf'[i].state = "LEADER"
    PROVE  Elected(i) \/ (Leads(rf[i], rf'[i]) /\ Grows(rf[i].log, rf'[i].log))
<1>1. PICK L \in Seq(Entry) : L = rf[i].log
  BY DEF LogTypes, LogOK
<1>2. Len(L) \in Nat
  OBVIOUS
<1>3. CASE Still(rf[i], rf'[i])
  BY <1>1, <1>2, <1>3 DEF Still, Leads, Grows
<1>4. CASE Restarted(rf[i], rf'[i])
  BY <1>4 DEF Restarted
<1>5. CASE Extended(rf[i], rf'[i], i)
  BY <1>1, <1>2, <1>5 DEF Extended, Leads, Grows
<1>6. CASE Follows(i)
  BY <1>6 DEF Follows
<1>7. CASE Told(i)
  BY <1>1, <1>2, <1>7 DEF Told, Leads, Grows
<1> QED
  BY <1>3, <1>4, <1>5, <1>6, <1>7 DEF PeerShape

\* Nobody has taken the term that a peer now takes.
LEMMA ElectedFirst ==
    ASSUME ElectionInv, ElectionInv', ElectionStep, NEW i \in Server, Elected(i), NEW l \in Server
    PROVE  ~TakenBy(l, rf[i].currentTerm)
<1> SUFFICES ASSUME TakenBy(l, rf[i].currentTerm) PROVE FALSE
  OBVIOUS
<1>1. PICK t \in Nat : t = rf[i].currentTerm
  BY DEF ElectionInv, ElectionTypes, PeerOK
<1>2. TakenBy(l, t)'
  BY <1>1, TakenKept
<1>3. rf'[i].currentTerm = t /\ rf'[i].state = "LEADER"
  BY <1>1 DEF Elected
<1>4. TakenOnce'
  BY TakenLeader, PTL
<1>5. TakenBy(l, rf[i].currentTerm)'
  BY <1>2, <1>3 DEF TakenBy
<1>6. l = i
  BY <1>3, <1>4, <1>5 DEF TakenOnce
<1> QED
  BY <1>1, <1>6 DEF TakenBy, Elected

LEMMA TermsGrowKept ==
    ASSUME ElectionInv, ElectionInv', ElectionStep, LogInv, LogInv', BaseInv, StepShape,
           NEW i \in Server
    PROVE  TermsGrow(rf'[i])
<1>1. PICK L \in Seq(Entry) : L = rf[i].log /\ L # << >>
  BY DEF LogInv, LogTypes, LogOK
<1>2. PICK N \in Seq(Entry) : N = rf'[i].log /\ N # << >>
  BY DEF LogInv, LogTypes, LogOK
<1>3. PICK t \in Nat : t = rf[i].currentTerm
  BY DEF ElectionInv, ElectionTypes, PeerOK
<1>4. PICK u \in Nat : u = rf'[i].currentTerm
  BY DEF ElectionInv, ElectionTypes, PeerOK
<1>5. u >= t
  BY <1>3, <1>4 DEF ElectionStep, PeerStep
<1>6. L[1] = [term |-> 0, command |-> None] /\ Sorted(L) /\ EndTerm(L) <= t
  BY <1>1, <1>3 DEF BaseInv, TermsGrow
<1>7. Len(L) \in Nat /\ Len(N) \in Nat /\ Len(L) >= 1 /\ Len(N) >= 1
  BY <1>1, <1>2
<1>8. EndTerm(L) \in Nat
  BY <1>7, EntryIsNat DEF EndTerm
<1> SUFFICES N[1] = [term |-> 0, command |-> None] /\ Sorted(N) /\ EndTerm(N) <= u
  BY <1>2, <1>4 DEF TermsGrow
<1>9. CASE N = L
  BY <1>5, <1>6, <1>8, <1>9
<1>10. CASE Extended(rf[i], rf'[i], i)
  <2>1. /\ Len(N) = Len(L) + 1 /\ EndTerm(N) = t /\ u = t
        /\ \A n \in 1 .. Len(L) : N[n] = L[n]
    BY <1>1, <1>2, <1>3, <1>4, <1>10 DEF Extended, Leads
  <2>2. N[Len(N)].term = t
    BY <2>1 DEF EndTerm
  <2>3. ASSUME NEW m \in 1 .. Len(N), NEW n \in 1 .. Len(N), m <= n
        PROVE  N[m].term <= N[n].term
    <3>1. CASE n <= Len(L)
      BY <1>6, <1>7, <2>1, <2>3, <3>1 DEF Sorted
    <3>2. CASE n > Len(L) /\ m > Len(L)
      BY <1>7, <2>1, <2>2, <2>3, <3>2
    <3>3. CASE n > Len(L) /\ m <= Len(L)
      <4>1. N[n].term = t /\ N[m] = L[m] /\ Len(L) \in 1 .. Len(L) /\ m \in 1 .. Len(L)
        BY <1>7, <2>1, <2>2, <3>3
      <4>2. L[m].term <= EndTerm(L) /\ L[m].term \in Nat
        BY <1>6, <4>1, EntryIsNat DEF Sorted, EndTerm
      <4> QED
        BY <1>6, <1>8, <4>1, <4>2
    <3> QED
      BY <1>7, <3>1, <3>2, <3>3
  <2>4. N[1] = L[1]
    BY <1>7, <2>1
  <2> QED
    BY <1>6, <2>1, <2>3, <2>4 DEF Sorted
<1>11. CASE Follows(i)
  <2>1. PICK c \in Appends : Accepts(rf[i], rf'[i], c.args)
    BY <1>11 DEF Follows
  <2>2. ArgsOK(c.args) /\ SentGrows(c.args)
    BY DEF LogInv, LogTypes, BaseInv
  <2>3. PICK args : args = c.args
    OBVIOUS
  <2>4. args.term = u /\ u \in Nat /\ Joins(N, L, args)
    BY <1>1, <1>2, <1>4, <2>1, <2>3 DEF Accepts
  <2>5. ArgsOK(args) /\ SentGrows(args) /\ args.term \in Nat /\ EndTerm(L) <= args.term
    BY <1>5, <1>6, <1>8, <2>2, <2>3, <2>4
  <2>6. Sorted(N) /\ EndTerm(N) <= args.term /\ N[1] = L[1]
    BY <1>6, <1>7, <2>4, <2>5, JoinSorted
  <2> QED
    BY <1>6, <2>4, <2>6
<1> QED
  BY <1>1, <1>2, <1>9, <1>10, <1>11
  DEF StepShape, PeerShape, Still, Restarted, Elected, Told

\* A part of a log that grows in its terms grows too.
LEMMA PartGrows ==
    ASSUME NEW log \in Seq(Entry), Sorted(log), Len(log) >= 1, NEW args, ArgsOK(args),
           PartOf(args, log), EndTerm(log) <= args.term, args.term \in Nat
    PROVE  SentGrows(args)
<1> DEFINE f == FirstSlot(args)
           e == LastSlot(args)
<1>1. f \in Nat /\ e \in Nat /\ f >= 1 /\ f <= e
  BY DEF ArgsOK, FirstSlot, LastSlot
<1>2. e <= Len(log) /\ \A n \in f .. e : TermAt(args, n) = log[n].term
  BY DEF PartOf
<1>3. Len(log) \in Nat
  OBVIOUS
<1> HIDE DEF f, e
<1>4. \A n \in f .. e : n \in 1 .. Len(log)
  BY <1>1, <1>2, <1>3
<1>5. \A n \in f .. e : TermAt(args, n) \in Nat
  BY <1>2, <1>4, EntryIsNat
<1>6. \A m, n \in f .. e : m <= n => TermAt(args, m) <= TermAt(args, n)
  BY <1>2, <1>4 DEF Sorted
<1>7. TermAt(args, e) <= args.term
  <2>1. e \in f .. e /\ Len(log) \in 1 .. Len(log)
    BY <1>1, <1>3
  <2>2. TermAt(args, e) = log[e].term /\ log[e].term <= EndTerm(log)
    BY <1>2, <1>4, <2>1 DEF Sorted, EndTerm
  <2>3. TermAt(args, e) \in Nat /\ EndTerm(log) \in Nat
    BY <1>5, <2>1, EntryIsNat DEF EndTerm
  <2> QED
    BY <2>2, <2>3
<1> QED
  BY <1>5, <1>6, <1>7 DEF SentGrows, f, e

LEMMA SentKept ==
    ASSUME ElectionInv, ElectionInv', LogInv, LogInv', BaseInv, StepShape, NEW c \in Appends'
    PROVE  SentGrows(c.args) /\ (c.reply # None => Conflicts(c.args, c.reply))
<1>1. AppendShape(c)
  BY DEF StepShape
<1>2. CASE \E d \in Appends : c.args = d.args /\ (c.reply = d.reply \/ Answered(c, d))
  BY <1>2 DEF BaseInv, Answered
<1>3. CASE \E i \in Server : Sent(c, i)
  <2>1. PICK i \in Server : Sent(c, i)
    BY <1>3
  <2>2. PICK L \in Seq(Entry) : L = rf[i].log /\ L # << >>
    BY DEF LogInv, LogTypes, LogOK
  <2>3. Sorted(L) /\ EndTerm(L) <= rf[i].currentTerm /\ rf[i].currentTerm \in Nat
    BY <2>2 DEF BaseInv, TermsGrow, ElectionInv, ElectionTypes, PeerOK
  <2>4. PICK args : args = c.args
    OBVIOUS
  <2>5. ArgsOK(args)
    BY <2>4 DEF LogInv, LogTypes
  <2>6. args.term = rf[i].currentTerm /\ PartOf(args, L) /\ c.reply = None
    BY <2>1, <2>2, <2>4 DEF Sent
  <2>7. Len(L) >= 1
    BY <2>2
  <2>8. EndTerm(L) <= args.term /\ args.term \in Nat
    BY <2>3, <2>6
  <2>9. SentGrows(args)
    BY <2>3, <2>5, <2>6, <2>7, <2>8, PartGrows
  <2> QED
    BY <2>4, <2>6, <2>9
<1> QED
  BY <1>1, <1>2, <1>3 DEF AppendShape

LEMMA LeaderSentKept ==
    ASSUME ElectionInv, ElectionInv', ElectionStep, LogInv, LogInv', BaseInv, StepShape
    PROVE  LeaderSent'
<1> SUFFICES ASSUME NEW i \in Server, rf'[i].state = "LEADER",
                    NEW c \in Appends', c.args.term = rf'[i].currentTerm
             PROVE  PartOf(c.args, rf'[i].log)
  BY DEF LeaderSent
<1>1. AppendShape(c) /\ PeerShape(i)
  BY DEF StepShape
<1>2. CASE \E d \in Appends : c.args = d.args
  <2>1. PICK d \in Appends : c.args = d.args
    BY <1>2
  <2>2. CASE Elected(i)
    <3>1. \E l \in Server : TakenBy(l, d.args.term)
      BY DEF LogInv, SendersTaken
    <3>2. d.args.term = rf[i].currentTerm
      BY <2>1, <2>2 DEF Elected
    <3>3. \E l \in Server : TakenBy(l, rf[i].currentTerm)
      BY <3>1, <3>2
    <3> QED
      BY <2>2, <3>3, ElectedFirst
  <2>3. CASE Leads(rf[i], rf'[i]) /\ Grows(rf[i].log, rf'[i].log)
    <3>1. PICK L \in Seq(Entry) : L = rf[i].log
      BY DEF LogInv, LogTypes, LogOK
    <3>2. PICK N \in Seq(Entry) : N = rf'[i].log
      BY DEF LogInv, LogTypes, LogOK
    <3>3. PICK args : args = c.args
      OBVIOUS
    <3>4. PartOf(args, L) /\ ArgsOK(args)
      BY <2>1, <2>3, <3>1, <3>3 DEF BaseInv, LeaderSent, Leads, LogInv, LogTypes
    <3>5. Grows(L, N)
      BY <2>3, <3>1, <3>2
    <3>6. FirstSlot(args) \in Nat /\ LastSlot(args) \in Nat /\ FirstSlot(args) >= 1
      BY <3>4 DEF ArgsOK, FirstSlot, LastSlot
    <3>7. PartOf(args, N)
      BY <3>4, <3>5, <3>6 DEF PartOf, Grows
    <3> QED
      BY <3>2, <3>3, <3>7
  <2> QED
    BY <1>1, <2>2, <2>3, LeaderCases DEF LogInv
<1>3. CASE \E k \in Server : Sent(c, k)
  <2>1. PICK k \in Server : Sent(c, k)
    BY <1>3
  <2>2. ElectionSafety'
    BY InvariantIsSafe, PTL
  <2>3. rf'[k].state = "LEADER" /\ rf'[k].currentTerm = rf'[i].currentTerm
    BY <2>1 DEF Sent, Leads
  <2>4. k = i
    BY <2>2, <2>3 DEF ElectionSafety
  <2> QED
    BY <2>1, <2>4 DEF Sent
<1> QED
  BY <1>1, <1>2, <1>3 DEF AppendShape

LEMMA BallotsKept ==
    ASSUME ElectionInv, ElectionInv', ElectionStep, LogInv, LogInv', BaseInv, StepShape
    PROVE  Ballots'
<1> SUFFICES ASSUME NEW c \in Votes' PROVE BallotOK(c.args)'
  BY DEF Ballots
<1>1. PICK args : args = c.args
  OBVIOUS
<1>2. PICK i \in Server : i = args.candidateId
  BY <1>1 DEF Votes, ElectionInv, ElectionTypes, Asks
<1>3. PICK t \in Nat : t = args.term
  BY <1>1 DEF Votes, ElectionInv, ElectionTypes, CallOK
<1>4. rf[i].currentTerm \in Nat /\ rf'[i].currentTerm \in Nat
  BY DEF ElectionInv, ElectionTypes, PeerOK
<1>5. PeerStep(rf[i], rf'[i])
  BY DEF ElectionStep
<1> SUFFICES /\ t <= rf'[i].currentTerm
             /\ t = rf'[i].currentTerm /\ rf'[i].state = "CANDIDATE" =>
                  args.lastLogIndex = Len(rf'[i].log) - 1 /\ args.lastLogTerm = EndTerm(rf'[i].log)
  BY <1>1, <1>2, <1>3 DEF BallotOK
<1>6. CASE \E d \in Votes : c.args = d.args
  <2>1. BallotOK(args)
    BY <1>1, <1>6 DEF BaseInv, Ballots
  <2>2. /\ t <= rf[i].currentTerm
        /\ t = rf[i].currentTerm /\ rf[i].state = "CANDIDATE" =>
             args.lastLogIndex = Len(rf[i].log) - 1 /\ args.lastLogTerm = EndTerm(rf[i].log)
    BY <1>2, <1>3, <2>1 DEF BallotOK
  <2>3. rf'[i].currentTerm >= rf[i].currentTerm
    BY <1>5 DEF PeerStep
  <2>4. ASSUME t = rf'[i].currentTerm, rf'[i].state = "CANDIDATE"
        PROVE  args.lastLogIndex = Len(rf'[i].log) - 1 /\ args.lastLogTerm = EndTerm(rf'[i].log)
    <3>1. rf[i].currentTerm = t /\ rf'[i].currentTerm = rf[i].currentTerm
      BY <1>4, <2>2, <2>3, <2>4
    <3>2. rf[i].state = "CANDIDATE"
      BY <1>5, <2>4, <3>1 DEF PeerStep
    <3>3. rf'[i].log = rf[i].log
      BY <2>4
      DEF StepShape, PeerShape, Still, Restarted, Elected, Told, Extended, Follows, Leads
    <3> QED
      BY <2>2, <3>1, <3>2, <3>3
  <2> QED
    BY <1>4, <2>2, <2>3, <2>4
<1>7. CASE ~\E d \in Votes : c.args = d.args
  <2>1. VoteShape(c)
    BY DEF StepShape
  <2> QED
    BY <1>1, <1>2, <1>3, <1>4, <1>7, <2>1 DEF VoteShape
<1> QED
  BY <1>6, <1>7

\* Together: what the proofs rest on is an invariant as long as steps have their shape.
LEMMA BaseKept ==
    ASSUME ElectionInv, ElectionInv', ElectionStep, LogInv, LogInv', BaseInv, StepShape
    PROVE  BaseInv'
<1>1. \A i \in Server : TermsGrow(rf'[i])
  BY TermsGrowKept
<1>2. \A c \in Appends' : SentGrows(c.args) /\ (c.reply # None => Conflicts(c.args, c.reply))
  BY SentKept
<1>3. LeaderSent' /\ Ballots' /\ Plain'
  BY LeaderSentKept, BallotsKept DEF StepShape
<1>4. IndexInv'
  BY DEF StepShape, PeerShape, IndexInv
<1>5. CommitTypes'
  <2>1. \A i \in Server : rf'[i].commitIndex \in Nat
    BY DEF StepShape, PeerShape
  <2>2. \A c \in Appends' : c.args.leaderCommit \in Nat
    BY DEF StepShape, AppendShape, Sent, BaseInv, CommitTypes
  <2> QED
    BY <2>1, <2>2 DEF CommitTypes
<1> QED
  BY <1>1, <1>2, <1>3, <1>4, <1>5 DEF BaseInv

-----------------------------------------------------------------------------
(* What is safe stays safe.                                                 *)

Good == ElectionInv /\ LogInv /\ BaseInv
GoodStep == Good /\ Good' /\ ElectionStep /\ StepShape

LogFine(r) ==
    /\ r.log \in Seq(Entry) /\ Len(r.log) \in Nat /\ Len(r.log) >= 1 /\ Sorted(r.log)
    /\ r.currentTerm \in Nat /\ EndTerm(r.log) \in Nat /\ EndTerm(r.log) <= r.currentTerm
    /\ r.log[1].term = 0
LogsFine == \A i \in Server : LogFine(rf[i])

LEMMA GoodLogs == Good => LogsFine /\ LogsMeet
<1> SUFFICES ASSUME Good PROVE LogsFine /\ LogsMeet
  OBVIOUS
<1>1. LogsMeet
  BY AllMeet DEF Good, BaseInv
<1>2. ASSUME NEW i \in Server PROVE LogFine(rf[i])
  <2>1. rf[i].log \in Seq(Entry) /\ rf[i].log # << >> /\ rf[i].currentTerm \in Nat
    BY DEF Good, LogInv, LogTypes, LogOK, ElectionInv, ElectionTypes, PeerOK
  <2>2. TermsGrow(rf[i])
    BY DEF Good, BaseInv
  <2>3. Len(rf[i].log) \in Nat /\ Len(rf[i].log) >= 1
    BY <2>1
  <2>4. EndTerm(rf[i].log) \in Nat
    BY <2>1, <2>3, EntryIsNat DEF EndTerm
  <2> QED
    BY <2>1, <2>2, <2>3, <2>4 DEF TermsGrow, LogFine
<1> QED
  BY <1>1, <1>2 DEF LogsFine

\* Enough peers to commit, and a majority, share a peer.
LEMMA CommitMeets ==
    ASSUME NEW Q \in SUBSET Server, Commits(Q), NEW M \in SUBSET Server,
           Cardinality(M) > Cardinality(Server) \div 2
    PROVE  \E v \in Server : v \in Q /\ v \in M
<1> SUFFICES ASSUME Q \cap M = {} PROVE FALSE
  OBVIOUS
<1>1. IsFiniteSet(Server) /\ IsFiniteSet(M) /\ IsFiniteSet(Q)
  BY ConstantsOK, FS_Subset
<1>2. /\ IsFiniteSet(Q \cup M)
      /\ Cardinality(Q \cup M) = Cardinality(Q) + Cardinality(M) - Cardinality(Q \cap M)
  BY <1>1, FS_Union
<1>3. Cardinality(Q \cap M) = 0
  BY FS_EmptySet
<1>4. Cardinality(Q \cup M) <= Cardinality(Server)
  BY <1>1, FS_Subset
<1>5. Cardinality(Server) \in Nat /\ Cardinality(M) \in Nat /\ Cardinality(Q) \in Nat
  BY <1>1, FS_CardinalityType
<1> QED
  BY <1>2, <1>3, <1>4, <1>5 DEF Commits

LEMMA CommitNonempty ==
    ASSUME NEW Q \in SUBSET Server, Commits(Q)
    PROVE  \E w \in Server : w \in Q
<1>1. Server # {}
  BY PeerAssumption DEF PeerAssumption
<1>2. Cardinality(Server) \in Nat /\ Cardinality(Server) # 0
  BY <1>1, ConstantsOK, FS_CardinalityType, FS_EmptySet
<1>3. Cardinality(Server) > Cardinality(Server) \div 2
  BY <1>2
<1> QED
  BY <1>3, CommitMeets

\* A peer of the term of P's end or a later one keeps what it has of P.
LEMMA AgreesKept ==
    ASSUME GoodStep, NEW P \in Seq(Entry), NEW s \in Nat, NEW w \in Server,
           Agrees(rf[w].log, P, s), EndTerm(P) \in Nat, EndTerm(P) <= rf[w].currentTerm,
           SafeSent(P)
    PROVE  Agrees(rf'[w].log, P, s)
<1>1. PICK L \in Seq(Entry) : L = rf[w].log
  BY GoodLogs DEF GoodStep, LogsFine, LogFine
<1>2. PICK N \in Seq(Entry) : N = rf'[w].log
  BY DEF GoodStep, Good, LogInv, LogTypes, LogOK
<1>3. Len(L) \in Nat /\ Len(N) \in Nat /\ Len(P) \in Nat
  OBVIOUS
<1>4. Agrees(L, P, s)
  BY <1>1
<1>5. CASE N = L
  BY <1>2, <1>4, <1>5
<1>6. CASE Extended(rf[w], rf'[w], w)
  <2>1. Len(N) = Len(L) + 1 /\ \A n \in 1 .. Len(L) : N[n] = L[n]
    BY <1>1, <1>2, <1>6 DEF Extended
  <2>2. Agrees(N, P, s)
    BY <1>3, <1>4, <2>1 DEF Agrees
  <2> QED
    BY <1>2, <2>2
<1>7. CASE Follows(w)
  <2>1. PICK c \in Appends : Accepts(rf[w], rf'[w], c.args)
    BY <1>7 DEF Follows
  <2>2. PICK args : args = c.args
    OBVIOUS
  <2>3. ArgsOK(args) /\ args.term \in Nat
    BY <2>2 DEF GoodStep, Good, LogInv, LogTypes, ElectionInv, ElectionTypes, CallOK, Appends
  <2>4. Joins(N, L, args) /\ args.term >= rf[w].currentTerm
    BY <1>1, <1>2, <2>1, <2>2 DEF Accepts
  <2>5. rf[w].currentTerm \in Nat
    BY GoodLogs DEF GoodStep, LogsFine, LogFine
  <2>6. args.term >= EndTerm(P)
    BY <2>3, <2>4, <2>5
  <2>7. ArgsAgree(args, P)
    BY <2>2, <2>6 DEF SafeSent
  <2>8. \A n \in FirstSlot(args) .. LastSlot(args) : n <= s => TermAt(args, n) = P[n].term
    BY <1>3, <1>4, <2>3, <2>7 DEF ArgsAgree, Agrees, ArgsOK, FirstSlot, LastSlot
  <2>9. Agrees(N, P, s)
    BY <1>4, <2>3, <2>4, <2>8, JoinKeeps
  <2> QED
    BY <1>2, <2>9
<1> QED
  BY <1>1, <1>2, <1>5, <1>6, <1>7
  DEF GoodStep, StepShape, PeerShape, Still, Restarted, Elected, Told

LEMMA HasKept ==
    ASSUME GoodStep, NEW P \in Seq(Entry), Len(P) >= 1, NEW w \in Server, Has(rf[w].log, P),
           SafeSent(P)
    PROVE  Has(rf'[w].log, P)
<1>1. LogFine(rf[w])
  BY GoodLogs DEF GoodStep, LogsFine
<1>2. PICK L \in Seq(Entry) : L = rf[w].log
  BY <1>1 DEF LogFine
<1>3. Sorted(L) /\ Has(L, P) /\ EndTerm(L) <= rf[w].currentTerm /\ rf[w].currentTerm \in Nat
      /\ EndTerm(L) \in Nat
  BY <1>1, <1>2 DEF LogFine
<1>4. EndTerm(P) <= EndTerm(L) /\ EndTerm(P) \in Nat
  BY <1>3, HasRecent
<1>5. EndTerm(P) <= rf[w].currentTerm
  BY <1>3, <1>4
<1>6. Agrees(rf[w].log, P, Len(P)) /\ Len(P) \in Nat
  BY DEF Has
<1>7. Agrees(rf'[w].log, P, Len(P))
  BY <1>4, <1>5, <1>6, AgreesKept
<1> QED
  BY <1>7 DEF Has

LEMMA SafeLogsKept ==
    ASSUME GoodStep, NEW P \in Seq(Entry), Len(P) >= 1,
           SafeLogs(P), SafeSent(P), SafeLeaders(P), NEW w \in Server, Has(rf[w].log, P)
    PROVE  SafeLogs(P)'
<1> SUFFICES ASSUME NEW j \in Server, AsRecent(rf'[j].log, P) PROVE Has(rf'[j].log, P)
  BY DEF SafeLogs
<1>1. LogFine(rf[j]) /\ LogFine(rf'[j]) /\ LogFine(rf'[w]) /\ Meet(rf'[j].log, rf'[w].log)
  <2>1. LogsFine' /\ LogsMeet'
    BY GoodLogs, PTL DEF GoodStep
  <2> QED
    BY <2>1, GoodLogs DEF GoodStep, LogsFine, LogsMeet
<1>2. PICK L \in Seq(Entry) : L = rf[j].log
  BY <1>1 DEF LogFine
<1>3. PICK N \in Seq(Entry) : N = rf'[j].log
  BY <1>1 DEF LogFine
<1>4. AsRecent(L, P) => Has(L, P)
  BY <1>2 DEF SafeLogs
<1>5. CASE N = L
  BY <1>2, <1>3, <1>4, <1>5
<1>6. CASE Extended(rf[j], rf'[j], j)
  <2>1. /\ Len(N) = Len(L) + 1 /\ \A n \in 1 .. Len(L) : N[n] = L[n]
        /\ EndTerm(N) = rf[j].currentTerm /\ rf[j].state = "LEADER"
    BY <1>2, <1>3, <1>6 DEF Extended, Leads
  <2>2. Len(P) \in 1 .. Len(P) /\ Len(L) \in Nat /\ Len(P) \in Nat
    OBVIOUS
  <2>3. EndTerm(P) \in Nat /\ rf[j].currentTerm \in Nat
    BY <1>1, <2>2, EntryIsNat DEF EndTerm, LogFine
  <2>4. rf[j].currentTerm >= EndTerm(P)
    BY <1>3, <2>1, <2>3 DEF AsRecent
  <2>5. Has(L, P)
    BY <1>2, <2>1, <2>4 DEF SafeLeaders
  <2>6. Has(N, P)
    BY <2>1, <2>2, <2>5 DEF Has, Agrees
  <2> QED
    BY <1>3, <2>6
<1>7. CASE Follows(j)
  <2>1. PICK c \in Appends : Accepts(rf[j], rf'[j], c.args)
    BY <1>7 DEF Follows
  <2>2. PICK args : args = c.args
    OBVIOUS
  <2>3. /\ ArgsOK(args) /\ args.term \in Nat /\ SentGrows(args)
        /\ args.term >= EndTerm(P) => ArgsAgree(args, P)
    BY <2>2 DEF GoodStep, Good, LogInv, LogTypes, ElectionInv, ElectionTypes, CallOK, Appends,
       BaseInv, SafeSent
  <2>4. Joins(N, L, args)
    BY <1>2, <1>3, <2>1, <2>2 DEF Accepts
  <2>5. PICK W \in Seq(Entry) : W = rf'[w].log
    BY <1>1 DEF LogFine
  <2>6. Has(W, P)
    BY <2>5, HasKept
  <2>7. Sorted(L) /\ Sorted(W) /\ Meet(N, W) /\ AsRecent(N, P)
    BY <1>1, <1>2, <1>3, <2>5 DEF LogFine
  <2>8. Has(N, P)
    BY <1>4, <2>3, <2>4, <2>6, <2>7, JoinRecent
  <2> QED
    BY <1>3, <2>8
<1> QED
  BY <1>2, <1>3, <1>5, <1>6, <1>7
  DEF GoodStep, StepShape, PeerShape, Still, Restarted, Elected, Told

\* What is sent from a log that has P agrees with it.
LEMMA PartAgrees ==
    ASSUME NEW log \in Seq(Entry), Sorted(log), NEW P \in Seq(Entry), Len(P) >= 1, Has(log, P),
           NEW args, ArgsOK(args), PartOf(args, log)
    PROVE  ArgsAgree(args, P)
<1> DEFINE f == FirstSlot(args)
           e == LastSlot(args)
<1>1. f \in Nat /\ e \in Nat /\ f >= 1 /\ f <= e
  BY DEF ArgsOK, FirstSlot, LastSlot
<1>2. e <= Len(log) /\ \A n \in f .. e : TermAt(args, n) = log[n].term
  BY DEF PartOf
<1>3. Len(P) \in Nat /\ Len(log) \in Nat /\ Len(P) <= Len(log) /\ \A n \in 1 .. Len(P) : log[n] = P[n]
  BY DEF Has, Agrees
<1>4. TermAt(args, f) = args.prevLogTerm
  BY DEF TermAt
<1> HIDE DEF f, e
<1>5. \A n \in f .. e : n <= Len(P) => TermAt(args, n) = P[n].term
  BY <1>1, <1>2, <1>3
<1>6. ASSUME f > Len(P) PROVE args.prevLogTerm >= EndTerm(P)
  <2>1. f \in f .. e /\ f \in 1 .. Len(log) /\ Len(P) \in 1 .. Len(log) /\ Len(P) \in 1 .. Len(P)
    BY <1>1, <1>2, <1>3, <1>6
  <2>2. log[Len(P)].term <= log[f].term
    BY <1>1, <1>3, <1>6, <2>1 DEF Sorted
  <2>3. log[Len(P)].term = EndTerm(P) /\ log[f].term = args.prevLogTerm
    BY <1>2, <1>3, <1>4, <2>1 DEF EndTerm
  <2>4. log[Len(P)].term \in Nat /\ log[f].term \in Nat
    BY <2>1, EntryIsNat
  <2> QED
    BY <2>2, <2>3, <2>4
<1> QED
  BY <1>5, <1>6 DEF ArgsAgree, f, e

LEMMA SafeSentKept ==
    ASSUME GoodStep, NEW P \in Seq(Entry), Len(P) >= 1, SafeSent(P), SafeLeaders(P)
    PROVE  SafeSent(P)'
<1> SUFFICES ASSUME NEW c \in Appends', c.args.term >= EndTerm(P) PROVE ArgsAgree(c.args, P)
  BY DEF SafeSent
<1>1. AppendShape(c)
  BY DEF GoodStep, StepShape
<1>2. CASE \E d \in Appends : c.args = d.args
  BY <1>2 DEF SafeSent
<1>3. CASE \E i \in Server : Sent(c, i)
  <2>1. PICK i \in Server : Sent(c, i)
    BY <1>3
  <2>2. LogFine(rf[i])
    BY GoodLogs DEF GoodStep, LogsFine
  <2>3. PICK L \in Seq(Entry) : L = rf[i].log
    BY <2>2 DEF LogFine
  <2>4. PICK args : args = c.args
    OBVIOUS
  <2>5. ArgsOK(args)
    BY <2>4 DEF GoodStep, Good, LogInv, LogTypes
  <2>6. PartOf(args, L) /\ Sorted(L)
    BY <2>1, <2>2, <2>3, <2>4 DEF Sent, LogFine
  <2>7. Has(L, P)
    BY <2>1, <2>3 DEF Sent, Leads, SafeLeaders
  <2>8. ArgsAgree(args, P)
    BY <2>5, <2>6, <2>7, PartAgrees
  <2> QED
    BY <2>4, <2>8
<1> QED
  BY <1>1, <1>2, <1>3 DEF AppendShape

\* The end of what a log has is an entry of an elected leader.
LEMMA EndTaken ==
    ASSUME Good, NEW w \in Server, NEW n \in 2 .. Len(rf[w].log)
    PROVE  \E l \in Server : TakenBy(l, rf[w].log[n].term)
<1>1. PICK L \in Seq(Entry) : L = rf[w].log
  BY DEF Good, LogInv, LogTypes, LogOK
<1>2. LogFrag(L) \in Frags
  BY <1>1 DEF Frags
<1>3. /\ n - 1 \in Within(LogFrag(L)) /\ n - 1 > LogFrag(L).lo
      /\ LogFrag(L).at[n - 1] = L[n]
  <2>1. n - 1 \in 0 .. Len(L) - 1 /\ n - 1 > 0 /\ (n - 1) + 1 = n
    BY <1>1
  <2> QED
    BY <2>1 DEF LogFrag, Within
<1>4. \E l \in Server : TakenBy(l, LogFrag(L).at[n - 1].term)
  BY <1>2, <1>3 DEF Good, LogInv, TermsTaken
<1> QED
  BY <1>1, <1>3, <1>4

LEMMA SafeLeadersKept ==
    ASSUME GoodStep, NEW P \in Seq(Entry), Len(P) >= 2, NEW Q \in SUBSET Server, Commits(Q),
           SafeSent(P), SafeLeaders(P), SafeCandidates(P, Q), NEW w \in Server, Has(rf[w].log, P)
    PROVE  SafeLeaders(P)'
<1> SUFFICES ASSUME NEW j \in Server, rf'[j].state = "LEADER", rf'[j].currentTerm >= EndTerm(P)
             PROVE  Has(rf'[j].log, P)
  BY DEF SafeLeaders
<1>1. LogTypes /\ PeerShape(j)
  BY DEF GoodStep, Good, LogInv, StepShape
<1>2. CASE Leads(rf[j], rf'[j])
  <2>1. Has(rf[j].log, P)
    BY <1>2 DEF Leads, SafeLeaders
  <2> QED
    BY <2>1, HasKept
<1>3. CASE Elected(j)
  <2>1. LogFine(rf[j]) /\ LogFine(rf[w])
    BY GoodLogs DEF GoodStep, LogsFine
  <2>2. PICK t \in Nat : t = rf[j].currentTerm /\ t = rf'[j].currentTerm
    BY <1>3, <2>1 DEF LogFine, Elected
  <2>3. Len(P) \in 2 .. Len(rf[w].log) /\ Len(P) \in 1 .. Len(P)
    BY <2>1 DEF Has, Agrees, LogFine
  <2>4. EndTerm(P) = rf[w].log[Len(P)].term /\ EndTerm(P) \in Nat
    BY <2>3, EntryIsNat DEF Has, Agrees, EndTerm
  <2>5. EndTerm(P) # t
    <3>1. \E l \in Server : TakenBy(l, EndTerm(P))
      BY <2>3, <2>4, EndTaken DEF GoodStep
    <3>2. \A l \in Server : ~TakenBy(l, t)
      BY <1>3, <2>2, ElectedFirst DEF GoodStep, Good
    <3> QED
      BY <3>1, <3>2
  <2>6. t > EndTerm(P)
    BY <2>2, <2>4, <2>5
  <2>7. rf'[j].votes \in SUBSET Server /\ Cardinality(rf'[j].votes) > Cardinality(Server) \div 2
    BY DEF GoodStep, Good, ElectionInv, ElectionTypes, PeerOK, LeaderElected
  <2>8. PICK v \in Server : v \in Q /\ v \in rf'[j].votes
    BY <2>7, CommitMeets
  <2>9. Granted(v, j, rf[j].currentTerm) /\ rf[j].state = "CANDIDATE"
    BY <1>3, <2>8 DEF Elected
  <2>10. Has(rf[j].log, P)
    BY <2>2, <2>6, <2>8, <2>9 DEF SafeCandidates
  <2> QED
    BY <1>3, <2>10 DEF Elected
<1> QED
  BY <1>1, <1>2, <1>3, LeaderCases

LEMMA SafeCandidatesKept ==
    ASSUME GoodStep, NEW P \in Seq(Entry), Len(P) >= 2, NEW Q \in SUBSET Server,
           SafeLogs(P), SafeCandidates(P, Q),
           \A v \in Q : Has(rf[v].log, P) \/ rf'[v].currentTerm <= EndTerm(P)
    PROVE  SafeCandidates(P, Q)'
<1> SUFFICES ASSUME NEW j \in Server, NEW v \in Q, rf'[j].state = "CANDIDATE",
                    rf'[j].currentTerm > EndTerm(P), Granted(v, j, rf[j].currentTerm)'
             PROVE  Has(rf'[j].log, P)
  BY DEF SafeCandidates
<1>1. rf'[j].log = rf[j].log
  BY DEF GoodStep, StepShape, PeerShape, Still, Restarted, Elected, Told, Extended, Follows, Leads
<1>2. LogFine(rf[j]) /\ LogFine(rf[v]) /\ LogFine(rf'[j]) /\ LogFine(rf'[v])
  <2>1. LogsFine'
    BY GoodLogs, PTL DEF GoodStep
  <2> QED
    BY <2>1, GoodLogs DEF GoodStep, LogsFine
<1>3. CASE /\ rf[j].state = "CANDIDATE" /\ rf[j].currentTerm = rf'[j].currentTerm
           /\ Granted(v, j, rf[j].currentTerm)
  BY <1>1, <1>3 DEF SafeCandidates
<1>4. CASE AsRecent(rf[j].log, rf[v].log)
  <2>1. PICK t \in Nat : t = rf'[j].currentTerm
    BY <1>2 DEF LogFine
  <2>2. Granted(v, j, t)'
    BY <2>1 DEF Granted, GrantOnItsWay, GrantCounted
  <2>3. t <= rf'[v].currentTerm
    <3>1. t < rf'[v].currentTerm \/ t = rf'[v].currentTerm
      BY <2>2 DEF GoodStep, Good, ElectionInv, GrantsHonoured
    <3> QED
      BY <1>2, <3>1, SMTT(30) DEF LogFine
  <2>4. Len(P) \in 1 .. Len(P)
    OBVIOUS
  <2>5. EndTerm(P) \in Nat
    BY <2>4, EntryIsNat DEF EndTerm
  <2>6. Has(rf[v].log, P)
    BY <1>2, <2>1, <2>3, <2>5, SMTT(30) DEF LogFine
  <2>7. AsRecent(rf[v].log, P)
    BY <1>2, <2>6, HasRecent DEF LogFine
  <2>8. AsRecent(rf[j].log, P)
    BY <1>2, <1>4, <2>7, RecentTransitive DEF LogFine
  <2> QED
    BY <1>1, <2>8 DEF SafeLogs
<1> QED
  BY <1>3, <1>4 DEF GoodStep, StepShape, GrantShape

\* P stays safe as long as each peer of Q has it or is of no later term.
LEMMA SafeKept ==
    ASSUME GoodStep, NEW P \in Seq(Entry), Len(P) >= 2, NEW Q \in SUBSET Server, Commits(Q),
           Safe(P, Q), NEW w \in Server, Has(rf[w].log, P),
           \A v \in Q : Has(rf[v].log, P) \/ rf'[v].currentTerm <= EndTerm(P)
    PROVE  Safe(P, Q)'
<1>1. SafeLogs(P) /\ SafeSent(P) /\ SafeLeaders(P) /\ SafeCandidates(P, Q)
  BY DEF Safe
<1>2. SafeLogs(P)'
  BY <1>1, SafeLogsKept
<1>3. SafeSent(P)'
  BY <1>1, SafeSentKept
<1>4. SafeLeaders(P)'
  BY <1>1, SafeLeadersKept
<1>5. SafeCandidates(P, Q)'
  BY <1>1, SafeCandidatesKept
<1> QED
  BY <1>2, <1>3, <1>4, <1>5 DEF Safe

LEMMA FinalKept ==
    ASSUME GoodStep, NEW P, Final(P)
    PROVE  Final(P)'
<1>1. P \in Seq(Entry) /\ Len(P) >= 2
  BY DEF Final
<1>2. PICK Q \in SUBSET Server : FinalIn(P, Q)
  BY DEF Final
<1>3. Commits(Q) /\ Safe(P, Q) /\ \A v \in Q : Has(rf[v].log, P)
  BY <1>2 DEF FinalIn
<1>4. PICK w \in Server : w \in Q
  BY <1>3, CommitNonempty
<1>5. Safe(P, Q)'
  BY <1>1, <1>3, <1>4, SafeKept
<1>6. ASSUME NEW v \in Q PROVE Has(rf'[v].log, P)
  <2>1. v \in Server /\ Has(rf[v].log, P) /\ SafeSent(P)
    BY <1>3 DEF Safe
  <2> QED
    BY <1>1, <2>1, HasKept
<1>7. FinalIn(P, Q)'
  BY <1>3, <1>5, <1>6 DEF FinalIn, Commits
<1> QED
  BY <1>1, <1>7 DEF Final

-----------------------------------------------------------------------------
(* What leaders have acknowledged is safe.                                  *)

\* Nobody has been elected in a later term than those of enough peers.
LEMMA NoneLater ==
    ASSUME Good, NEW Q \in SUBSET Server, Commits(Q), NEW T \in Nat,
           \A v \in Q : rf[v].currentTerm <= T,
           NEW l \in Server, NEW t \in Nat, TakenBy(l, t)
    PROVE  t <= T
<1>1. PICK M \in SUBSET Server : /\ Cardinality(M) > Cardinality(Server) \div 2
                                 /\ \A v \in M : rf[v].currentTerm > t \/ rf[v].currentTerm = t
  BY DEF TakenBy
<1>2. PICK v \in Server : v \in Q /\ v \in M
  BY <1>1, CommitMeets
<1>3. rf[v].currentTerm \in Nat
  BY DEF Good, ElectionInv, ElectionTypes, PeerOK
<1> QED
  BY <1>1, <1>2, <1>3

\* A new entry is safe with any peers that are of no later term.
FreshSafe ==
    \A i \in Server : rf[i].state = "LEADER" =>
      \A Q \in SUBSET Server :
        (/\ Len(rf[i].log) >= 2 /\ EndTerm(rf[i].log) = rf[i].currentTerm
         /\ Commits(Q) /\ \A v \in Q : rf[v].currentTerm <= rf[i].currentTerm) =>
          Safe(rf[i].log, Q)

LEMMA GoodFresh == Good => FreshSafe
<1> SUFFICES ASSUME Good, NEW i \in Server, rf[i].state = "LEADER", NEW Q \in SUBSET Server,
                    Len(rf[i].log) >= 2, EndTerm(rf[i].log) = rf[i].currentTerm, Commits(Q),
                    \A v \in Q : rf[v].currentTerm <= rf[i].currentTerm
             PROVE  Safe(rf[i].log, Q)
  BY DEF FreshSafe
<1>1. LogsFine /\ LogsMeet
  BY GoodLogs
<1>2. LogFine(rf[i])
  BY <1>1 DEF LogsFine
<1>3. PICK P \in Seq(Entry) : P = rf[i].log
  BY <1>2 DEF LogFine
<1>4. PICK T \in Nat : T = rf[i].currentTerm
  BY <1>2 DEF LogFine
<1>5. Len(P) \in Nat /\ Len(P) >= 2 /\ EndTerm(P) = T
  BY <1>3, <1>4
<1>6. \A l \in Server, t \in Nat : TakenBy(l, t) => t <= T
  BY <1>4, NoneLater
<1>7. SafeLogs(P)
  <2> SUFFICES ASSUME NEW j \in Server, AsRecent(rf[j].log, P) PROVE Has(rf[j].log, P)
    BY DEF SafeLogs
  <2>1. LogFine(rf[j])
    BY <1>1 DEF LogsFine
  <2>2. PICK N \in Seq(Entry) : N = rf[j].log
    BY <2>1 DEF LogFine
  <2>3. Len(N) \in Nat /\ Len(N) >= 1 /\ EndTerm(N) \in Nat /\ N[1].term = 0 /\ AsRecent(N, P)
    BY <2>1, <2>2 DEF LogFine
  <2>4. Len(N) >= 2
    <3>1. CASE Len(N) = 1
      <4>1. EndTerm(N) = 0
        BY <2>3, <3>1 DEF EndTerm
      <4> QED
        BY <1>5, <2>3, <3>1, <4>1 DEF AsRecent
    <3>2. PICK k \in Nat : k = Len(N) /\ k >= 1
      BY <2>3
    <3>3. k # 1 => k >= 2
      BY <3>2
    <3> QED
      BY <3>1, <3>2, <3>3
  <2>5. EndTerm(N) <= T
    <3>1. Len(N) \in 2 .. Len(rf[j].log)
      BY <2>2, <2>3, <2>4
    <3>2. \E l \in Server : TakenBy(l, EndTerm(N))
      BY <2>2, <3>1, EndTaken DEF EndTerm
    <3> QED
      BY <1>6, <2>3, <3>2
  <2>6. EndTerm(N) = T /\ Len(N) >= Len(P)
    BY <1>5, <2>3, <2>5 DEF AsRecent
  <2>7. Len(N) <= Len(P)
    <3>1. LogFrag(N) \in Frags
      BY <2>2 DEF Frags
    <3>2. /\ Len(N) - 1 \in Within(LogFrag(N)) /\ Len(N) - 1 > LogFrag(N).lo
          /\ LogFrag(N).at[Len(N) - 1] = N[Len(N)]
      <4>1. Len(N) - 1 \in 0 .. Len(N) - 1 /\ Len(N) - 1 > 0 /\ (Len(N) - 1) + 1 = Len(N)
        BY <2>3, <2>4
      <4> QED
        BY <4>1 DEF LogFrag, Within
    <3>3. LogFrag(N).at[Len(N) - 1].term = rf[i].currentTerm
      BY <1>4, <2>6, <3>2 DEF EndTerm
    <3>4. Len(N) - 1 < Len(rf[i].log)
      BY <3>1, <3>2, <3>3 DEF Good, LogInv, LeaderOwns
    <3> QED
      BY <1>3, <1>5, <2>3, <3>4
  <2>8. Len(N) = Len(P)
    BY <1>5, <2>3, <2>6, <2>7
  <2>9. N[Len(N)].term = P[Len(N)].term /\ Len(N) \in 1 .. Len(N)
    BY <1>5, <2>3, <2>6, <2>8 DEF EndTerm
  <2>10. Meet(N, P)
    BY <1>1, <1>3, <2>2 DEF LogsMeet
  <2>11. \A m \in 1 .. Len(N) : N[m] = P[m]
    BY <1>5, <2>8, <2>9, <2>10 DEF Meet
  <2> QED
    BY <1>5, <2>2, <2>8, <2>11 DEF Has, Agrees
<1>8. SafeSent(P)
  <2> SUFFICES ASSUME NEW c \in Appends, c.args.term >= EndTerm(P) PROVE ArgsAgree(c.args, P)
    BY DEF SafeSent
  <2>1. PICK args : args = c.args
    OBVIOUS
  <2>2. ArgsOK(args) /\ args.term \in Nat
    BY <2>1 DEF Good, LogInv, LogTypes, ElectionInv, ElectionTypes, CallOK, Appends
  <2>3. \E l \in Server : TakenBy(l, args.term)
    BY <2>1 DEF Good, LogInv, SendersTaken
  <2>4. args.term = T
    BY <1>5, <1>6, <2>1, <2>2, <2>3
  <2>5. PartOf(args, P)
    BY <1>3, <1>4, <2>1, <2>4 DEF Good, BaseInv, LeaderSent
  <2>6. Has(P, P) /\ Sorted(P)
    BY <1>2, <1>3 DEF Has, Agrees, LogFine
  <2>7. ArgsAgree(args, P)
    BY <1>5, <2>2, <2>5, <2>6, PartAgrees
  <2> QED
    BY <2>1, <2>7
<1>9. SafeLeaders(P)
  <2> SUFFICES ASSUME NEW j \in Server, rf[j].state = "LEADER", rf[j].currentTerm >= EndTerm(P)
               PROVE  Has(rf[j].log, P)
    BY DEF SafeLeaders
  <2>1. rf[j].currentTerm \in Nat
    BY <1>1 DEF LogsFine, LogFine
  <2>2. TakenBy(j, rf[j].currentTerm)
    BY LeaderTakes DEF Good, LeadersElected
  <2>3. rf[j].currentTerm = rf[i].currentTerm
    BY <1>4, <1>5, <1>6, <2>1, <2>2
  <2>4. j = i
    BY <2>3, InvariantIsSafe DEF Good, ElectionSafety
  <2> QED
    BY <1>3, <2>4 DEF Has, Agrees
<1>10. SafeCandidates(P, Q)
  <2> SUFFICES ASSUME NEW j \in Server, NEW v \in Q, rf[j].currentTerm > EndTerm(P),
                      Granted(v, j, rf[j].currentTerm)
               PROVE  FALSE
    BY DEF SafeCandidates
  <2>1. PICK t \in Nat : t = rf[j].currentTerm
    BY <1>1 DEF LogsFine, LogFine
  <2>2. t < rf[v].currentTerm \/ t = rf[v].currentTerm
    BY <2>1 DEF Good, ElectionInv, GrantsHonoured
  <2>3. rf[v].currentTerm \in Nat /\ rf[v].currentTerm <= T
    BY <1>1, <1>4 DEF LogsFine, LogFine
  <2> QED
    BY <1>5, <2>1, <2>2, <2>3
<1> QED
  BY <1>3, <1>7, <1>8, <1>9, <1>10 DEF Safe

-----------------------------------------------------------------------------
\* What is acknowledged after a step was so before, or the peer has just accepted it.
LEMMA AckedCases ==
    ASSUME GoodStep, NEW i \in Server, Leads(rf[i], rf'[i]),
           NEW v \in Server, NEW n \in Nat, Acked(v, i, n)'
    PROVE  \/ Acked(v, i, n)
           \/ \E c \in Appends : /\ c.to = v /\ c.args.term = rf[i].currentTerm
                                 /\ LastSlot(c.args) >= n /\ Accepts(rf[v], rf'[v], c.args)
<1>1. PICK T \in Nat : T = rf[i].currentTerm /\ T = rf'[i].currentTerm
  BY DEF GoodStep, Good, ElectionInv, ElectionTypes, PeerOK, Leads
<1>2. CASE v = i
  BY <1>2 DEF Acked
<1>3. CASE v # i /\ rf'[i].matchIndex[v] >= n - 1
  <2>1. PICK k \in Int : k = rf'[i].matchIndex[v]
    BY DEF GoodStep, Good, LogInv, LogTypes, LogOK
  <2>2. k = rf[i].matchIndex[v] \/ \E c \in Appends : AckedBy(c, v, T, k + 1)
    BY <1>1, <1>3, <2>1
    DEF GoodStep, StepShape, PeerShape, Leads, Still, Restarted, Extended, Follows, Elected, Told
  <2>3. CASE k = rf[i].matchIndex[v]
    BY <1>3, <2>1, <2>3 DEF Acked
  <2>4. CASE \E c \in Appends : AckedBy(c, v, T, k + 1)
    <3>1. PICK c \in Appends : AckedBy(c, v, T, k + 1)
      BY <2>4
    <3>2. LastSlot(c.args) \in Nat
      BY DEF GoodStep, Good, LogInv, LogTypes, ArgsOK, LastSlot
    <3>3. AckedBy(c, v, T, n)
      BY <1>3, <2>1, <3>1, <3>2 DEF AckedBy
    <3> QED
      BY <1>1, <3>3 DEF Acked
  <2> QED
    BY <2>2, <2>3, <2>4
<1>4. CASE \E c \in Appends' : AckedBy(c, v, T, n)
  <2>1. PICK c \in Appends' : AckedBy(c, v, T, n)
    BY <1>4
  <2>2. c.to = v /\ c.args.term = T /\ c.reply # None /\ c.reply.success /\ LastSlot(c.args) >= n
    BY <2>1 DEF AckedBy
  <2>3. PICK d \in Appends : /\ c.to = d.to /\ c.args = d.args
                             /\ c.reply = d.reply \/ Answered(c, d)
    BY <2>2 DEF GoodStep, StepShape, AppendShape, Sent
  <2>4. CASE c.reply = d.reply
    <3>1. AckedBy(d, v, T, n)
      BY <2>2, <2>3, <2>4 DEF AckedBy
    <3> QED
      BY <1>1, <3>1 DEF Acked
  <2>5. CASE Answered(c, d)
    BY <1>1, <2>2, <2>3, <2>5 DEF Answered
  <2> QED
    BY <2>3, <2>4, <2>5
<1> QED
  BY <1>1, <1>2, <1>3, <1>4 DEF Acked

\* The peer that has just accepted what the leader i sent has the leader's log so far.
LEMMA AcceptedHas ==
    ASSUME GoodStep, NEW i \in Server, Leads(rf[i], rf'[i]), Grows(rf[i].log, rf'[i].log),
           NEW v \in Server, NEW n \in Nat, NEW c \in Appends, c.args.term = rf[i].currentTerm,
           LastSlot(c.args) >= n, Accepts(rf[v], rf'[v], c.args)
    PROVE  n <= Len(rf[i].log) /\ Agrees(rf'[v].log, rf[i].log, n)
<1>1. LogsFine' /\ LogsMeet' /\ LogsFine
  BY GoodLogs, PTL DEF GoodStep
<1>2. PICK L \in Seq(Entry) : L = rf[i].log
  BY <1>1 DEF LogsFine, LogFine
<1>3. PICK M \in Seq(Entry) : M = rf'[i].log
  BY <1>1 DEF LogsFine, LogFine
<1>4. PICK N \in Seq(Entry) : N = rf'[v].log
  BY <1>1 DEF LogsFine, LogFine
<1>5. PICK args : args = c.args
  OBVIOUS
<1>6. ArgsOK(args)
  BY <1>5 DEF GoodStep, Good, LogInv, LogTypes
<1>7. PICK e \in Nat : e = LastSlot(args)
  BY <1>6 DEF ArgsOK, LastSlot
<1>8. e >= 1 /\ e \in FirstSlot(args) .. LastSlot(args) /\ e >= n
  BY <1>5, <1>6, <1>7, SMTT(30) DEF ArgsOK, FirstSlot, LastSlot
<1>9. PartOf(args, L)
  BY <1>2, <1>5 DEF GoodStep, Good, BaseInv, LeaderSent, Leads
<1>10. e <= Len(L) /\ TermAt(args, e) = L[e].term
  BY <1>7, <1>8, <1>9 DEF PartOf
<1>11. e <= Len(N) /\ N[e].term = TermAt(args, e)
  <2>1. Joins(N, rf[v].log, args)
    BY <1>4, <1>5 DEF Accepts
  <2> QED
    BY <1>7, <1>8, <2>1 DEF Joins
<1>12. Len(L) <= Len(M) /\ \A m \in 1 .. Len(L) : M[m] = L[m]
  BY <1>2, <1>3 DEF Grows
<1>13. Meet(N, M)
  BY <1>1, <1>3, <1>4 DEF LogsMeet
<1>14. Len(L) \in Nat /\ Len(M) \in Nat /\ Len(N) \in Nat
  OBVIOUS
<1>15. e \in 1 .. Len(N) /\ e <= Len(M) /\ N[e].term = M[e].term
  BY <1>8, <1>10, <1>11, <1>12, <1>14
<1>16. \A m \in 1 .. e : N[m] = M[m]
  BY <1>13, <1>15 DEF Meet
<1>17. n <= Len(L) /\ Agrees(N, L, n)
  BY <1>8, <1>10, <1>11, <1>12, <1>14, <1>16 DEF Agrees
<1> QED
  BY <1>2, <1>4, <1>17

LEMMA PrefixIs ==
    ASSUME NEW log \in Seq(Entry), NEW n \in 1 .. Len(log)
    PROVE  /\ Prefix(log, n) \in Seq(Entry) /\ Len(Prefix(log, n)) = n
           /\ \A m \in 1 .. n : Prefix(log, n)[m] = log[m]
<1>1. 1 \in Int /\ n \in Int /\ 1 <= n /\ n - 1 + 1 = n /\ \A i \in 1 .. n : log[i] \in Entry
  OBVIOUS
<1>2. /\ Prefix(log, n) \in Seq(Entry)
      /\ Len(Prefix(log, n)) = IF 1 <= n THEN n - 1 + 1 ELSE 0
      /\ \A i \in 1 .. n - 1 + 1 : Prefix(log, n)[i] = log[1 + i - 1]
  BY <1>1, SubSeqProperties DEF Prefix
<1> QED
  BY <1>1, <1>2

\* An entry that was there before the step.
LEMMA OldEntrySafe ==
    ASSUME GoodStep, AcksSafe, NEW i \in Server,
           Leads(rf[i], rf'[i]), Grows(rf[i].log, rf'[i].log),
           NEW n \in 2 .. Len(rf[i].log), rf[i].log[n].term = rf[i].currentTerm,
           NEW Q \in SUBSET Server, MayCommit(i, n, Q)'
    PROVE  EntrySafe(i, n, Q)'
<1>1. LogFine(rf[i]) /\ \A v \in Server : rf[v].currentTerm \in Nat /\ rf'[v].currentTerm \in Nat
  BY GoodLogs DEF GoodStep, LogsFine, Good, ElectionInv, ElectionTypes, PeerOK
<1>2. PICK L \in Seq(Entry) : L = rf[i].log
  BY <1>1 DEF LogFine
<1>3. PICK N \in Seq(Entry) : N = rf'[i].log
  BY DEF GoodStep, Good, LogInv, LogTypes, LogOK
<1>4. PICK T \in Nat : T = rf[i].currentTerm /\ T = rf'[i].currentTerm
  BY <1>1 DEF Leads
<1>5. Grows(L, N) /\ n \in 2 .. Len(L) /\ L[n].term = T /\ Len(L) \in Nat /\ Len(N) \in Nat
  BY <1>2, <1>3, <1>4
<1>6. PICK P \in Seq(Entry) : P = Prefix(L, n)
  BY <1>5, PrefixIs
<1>7. Len(P) = n /\ \A m \in 1 .. n : P[m] = L[m]
  BY <1>5, <1>6, PrefixIs
<1>8. P = Prefix(N, n)
  <2>1. n \in Nat /\ n <= Len(N) /\ \A m \in 1 .. n : N[m] = L[m]
    BY <1>5 DEF Grows
  <2>2. Prefix(N, n) \in Seq(Entry) /\ Len(Prefix(N, n)) = n /\ \A m \in 1 .. n : Prefix(N, n)[m] = N[m]
    <3>1. n \in 1 .. Len(N)
      BY <1>5, <2>1
    <3> QED
      BY <3>1, PrefixIs
  <2>3. \A m \in 1 .. n : Prefix(N, n)[m] = P[m]
    BY <1>7, <2>1, <2>2
  <2> QED
    BY <1>7, <2>2, <2>3
<1>9. EndTerm(P) = T /\ Len(P) >= 2
  BY <1>5, <1>7 DEF EndTerm
<1>10. Has(L, P)
  BY <1>5, <1>7 DEF Has, Agrees
<1>11. \A v \in Q : rf[v].currentTerm <= rf'[v].currentTerm
  BY <1>1 DEF GoodStep, ElectionStep, PeerStep
<1>12. Commits(Q) /\ \A v \in Q : Acked(v, i, n)' \/ rf'[v].currentTerm <= T
  BY <1>4 DEF MayCommit, Commits
<1>13. \A v \in Q : \/ Acked(v, i, n) \/ ~Acked(v, i, n)'
                    \/ \E c \in Appends : /\ c.to = v /\ c.args.term = rf[i].currentTerm
                                          /\ LastSlot(c.args) >= n /\ Accepts(rf[v], rf'[v], c.args)
  BY <1>5, AckedCases
<1>14. \A v \in Q : Acked(v, i, n) \/ rf'[v].currentTerm <= T
  BY <1>4, <1>12, <1>13 DEF Accepts
<1>15. MayCommit(i, n, Q)
  <2>1. ASSUME NEW v \in Q PROVE Acked(v, i, n) \/ rf[v].currentTerm <= T
    <3>1. rf[v].currentTerm \in Nat /\ rf'[v].currentTerm \in Nat
      BY <1>1 DEF LogsFine, LogFine
    <3> QED
      BY <1>4, <1>11, <1>14, <3>1
  <2> QED
    BY <1>4, <1>12, <2>1 DEF MayCommit
<1>16. EntrySafe(i, n, Q)
  BY <1>15 DEF AcksSafe, Leads
<1>17. Safe(P, Q) /\ \A v \in Q : Acked(v, i, n) => Has(rf[v].log, P)
  BY <1>2, <1>6, <1>16 DEF EntrySafe
<1>18. Safe(P, Q)'
  <2>1. \A v \in Q : Has(rf[v].log, P) \/ rf'[v].currentTerm <= EndTerm(P)
    BY <1>9, <1>14, <1>17
  <2> QED
    BY <1>2, <1>9, <1>10, <1>12, <1>17, <2>1, SafeKept
<1>19. ASSUME NEW v \in Q, Acked(v, i, n)' PROVE Has(rf'[v].log, P)
  <2>1. CASE Acked(v, i, n)
    <3>1. Has(rf[v].log, P) /\ v \in Server /\ Len(P) >= 1 /\ SafeSent(P)
      BY <1>9, <1>17, <2>1 DEF Safe
    <3> QED
      BY <3>1, HasKept
  <2>2. CASE ~Acked(v, i, n)
    <3>1. PICK c \in Appends : /\ c.args.term = rf[i].currentTerm
                               /\ LastSlot(c.args) >= n /\ Accepts(rf[v], rf'[v], c.args)
      BY <1>13, <1>19, <2>2
    <3>2. n \in Nat /\ v \in Server
      BY <1>5
    <3>3. Agrees(rf'[v].log, rf[i].log, n)
      BY <3>1, <3>2, AcceptedHas
    <3>4. Agrees(rf'[v].log, L, n)
      BY <1>2, <3>3
    <3> QED
      BY <1>5, <1>7, <3>4 DEF Has, Agrees
  <2> QED
    BY <2>1, <2>2
<1>20. Safe(Prefix(rf[i].log, n), Q)'
  BY <1>3, <1>8, <1>18
  DEF Safe, SafeLogs, SafeSent, SafeLeaders, SafeCandidates
<1>21. \A v \in Q : Acked(v, i, n)' => Has(rf'[v].log, Prefix(rf'[i].log, n))
  BY <1>3, <1>8, <1>19
<1> QED
  BY <1>20, <1>21 DEF EntrySafe

LEMMA AcksSafeKept ==
    ASSUME GoodStep, AcksSafe
    PROVE  AcksSafe'
<1> SUFFICES ASSUME NEW i \in Server, rf'[i].state = "LEADER",
                    NEW n \in 2 .. Len(rf'[i].log), rf'[i].log[n].term = rf'[i].currentTerm,
                    NEW Q \in SUBSET Server, MayCommit(i, n, Q)'
             PROVE  EntrySafe(i, n, Q)'
  BY DEF AcksSafe
<1>1. LogsFine /\ LogsFine'
  BY GoodLogs, PTL DEF GoodStep
<1>2. PICK L \in Seq(Entry) : L = rf[i].log
  BY <1>1 DEF LogsFine, LogFine
<1>3. PICK N \in Seq(Entry) : N = rf'[i].log
  BY <1>1 DEF LogsFine, LogFine
<1>4. Len(L) \in Nat /\ Len(N) \in Nat /\ n \in 2 .. Len(N)
  BY <1>3
<1>5. PICK T \in Nat : T = rf'[i].currentTerm
  BY <1>1 DEF LogsFine, LogFine
<1>6. N[n].term = T
  BY <1>3, <1>5
<1>7. CASE Elected(i)
  <2>1. rf[i].currentTerm = T /\ L = N
    BY <1>2, <1>3, <1>5, <1>7 DEF Elected
  <2>2. \E l \in Server : TakenBy(l, L[n].term)
    BY <1>2, <1>4, <2>1, EndTaken DEF GoodStep
  <2>3. \E l \in Server : TakenBy(l, rf[i].currentTerm)
    BY <1>6, <2>1, <2>2
  <2> QED
    BY <1>7, <2>3, ElectedFirst DEF GoodStep, Good
<1>8. CASE Leads(rf[i], rf'[i]) /\ Grows(rf[i].log, rf'[i].log)
  <2>1. rf[i].currentTerm = T /\ Grows(L, N)
    BY <1>2, <1>3, <1>5, <1>8 DEF Leads
  <2>2. CASE n <= Len(L)
    <3>1. n \in 2 .. Len(rf[i].log) /\ rf[i].log[n].term = rf[i].currentTerm
      BY <1>2, <1>4, <1>6, <2>1, <2>2 DEF Grows
    <3> QED
      BY <1>8, <3>1, OldEntrySafe
  <2>3. CASE n > Len(L)
    <3>1. Extended(rf[i], rf'[i], i)
      <4>1. N # L
        BY <1>4, <2>3
      <4> QED
        BY <1>2, <1>3, <4>1
        DEF GoodStep, StepShape, PeerShape, Still, Restarted, Elected, Told, Follows
    <3>2. n = Len(N) /\ n = Len(L) + 1
      BY <1>2, <1>3, <1>4, <2>3, <3>1 DEF Extended
    <3>3. ASSUME NEW v \in Q, Acked(v, i, n)' PROVE v = i
      <4> SUFFICES ASSUME v # i PROVE FALSE
        OBVIOUS
      <4>1. v \in Server /\ n \in Nat
        BY <1>4
      <4>2. rf[i].matchIndex[v] = rf'[i].matchIndex[v]
        BY <3>1, <4>1 DEF Extended
      <4>3. rf[i].matchIndex[v] < Len(L) /\ rf[i].matchIndex[v] \in Int
        BY <1>2, <1>8, <4>1
        DEF GoodStep, Good, BaseInv, IndexInv, IndexOK, Leads, LogInv, LogTypes, LogOK
      <4>4. ~(rf'[i].matchIndex[v] >= n - 1)
        BY <1>4, <3>2, <4>2, <4>3
      <4>5. \A c \in Appends : c.args.term = T => LastSlot(c.args) <= Len(L)
        BY <1>2, <1>8, <2>1 DEF GoodStep, Good, BaseInv, LeaderSent, PartOf, Leads
      <4>6. \A c \in Appends : LastSlot(c.args) \in Nat
        BY DEF GoodStep, Good, LogInv, LogTypes, ArgsOK, LastSlot
      <4>7. \A c \in Appends' : ~AckedBy(c, v, T, n)
        <5> SUFFICES ASSUME NEW c \in Appends', AckedBy(c, v, T, n) PROVE FALSE
          OBVIOUS
        <5>1. \E d \in Appends : c.args = d.args
          BY DEF GoodStep, StepShape, AppendShape, Sent, AckedBy
        <5> QED
          BY <1>4, <3>2, <4>5, <4>6, <5>1 DEF AckedBy
      <4> QED
        BY <1>5, <3>3, <4>4, <4>7 DEF Acked
    <3>4. \A v \in Q : rf'[v].currentTerm <= rf'[i].currentTerm
      BY <1>5, <3>3 DEF MayCommit
    <3>5. Commits(Q)'
      BY DEF MayCommit
    <3>6. FreshSafe'
      BY GoodFresh, PTL DEF GoodStep
    <3>7. Len(rf'[i].log) >= 2 /\ EndTerm(rf'[i].log) = rf'[i].currentTerm
      BY <1>3, <1>4, <1>5, <1>6, <3>2 DEF EndTerm
    <3>8. Safe(rf[i].log, Q)'
      BY <3>4, <3>5, <3>6, <3>7 DEF FreshSafe
    <3>9. Prefix(N, n) = N
      <4>1. SubSeq(N, 1, Len(N)) = N
        BY SubSeqFull
      <4> QED
        BY <3>2, <4>1 DEF Prefix
    <3>10. Safe(Prefix(rf[i].log, n), Q)'
      BY <1>3, <3>8, <3>9
      DEF Safe, SafeLogs, SafeSent, SafeLeaders, SafeCandidates
    <3>11. Has(N, N)
      BY DEF Has, Agrees
    <3>12. \A v \in Q : Acked(v, i, n)' => Has(rf'[v].log, Prefix(rf'[i].log, n))
      BY <1>3, <3>3, <3>9, <3>11
    <3> QED
      BY <3>10, <3>12 DEF EntrySafe
  <2> QED
    BY <1>4, <2>2, <2>3
<1>9. PeerShape(i) /\ LogTypes
  BY DEF GoodStep, StepShape, Good, LogInv
<1> QED
  BY <1>7, <1>8, <1>9, LeaderCases

-----------------------------------------------------------------------------
(* What a peer takes for committed is final.                                *)

\* The first n + 1 slots of the log are final, by an entry of term t or earlier.
Settled(log, n, t) ==
    n = 0 \/ \E P \in Seq(Entry) :
               Final(P) /\ n < Len(P) /\ EndTerm(P) <= t /\ Agrees(log, P, n + 1)
\* The same for what a leader says of its commitIndex.
SaysSettled(n, t) == n = 0 \/ \E P \in Seq(Entry) : Final(P) /\ n < Len(P) /\ EndTerm(P) <= t

Covered ==
    /\ \A i \in Server : Settled(rf[i].log, rf[i].commitIndex, rf[i].currentTerm)
    /\ \A c \in Appends : SaysSettled(c.args.leaderCommit, c.args.term)

\* What follows from P being final.
LEMMA FinalIs ==
    ASSUME NEW P \in Seq(Entry), Final(P)
    PROVE  /\ Len(P) \in Nat /\ Len(P) >= 2 /\ EndTerm(P) \in Nat
           /\ SafeLogs(P) /\ SafeSent(P) /\ SafeLeaders(P)
           /\ \E w \in Server : Has(rf[w].log, P)
<1>1. PICK Q \in SUBSET Server : FinalIn(P, Q)
  BY DEF Final
<1>2. Commits(Q) /\ Safe(P, Q) /\ \A v \in Q : Has(rf[v].log, P)
  BY <1>1 DEF FinalIn
<1>3. PICK w \in Server : w \in Q
  BY <1>2, CommitNonempty
<1>4. Len(P) \in Nat /\ Len(P) >= 2 /\ Len(P) \in 1 .. Len(P)
  BY DEF Final
<1>5. EndTerm(P) \in Nat
  BY <1>4, EntryIsNat DEF EndTerm
<1> QED
  BY <1>2, <1>3, <1>4, <1>5 DEF Safe

LEMMA SettledKept ==
    ASSUME GoodStep, AcksSafe, Covered, NEW i \in Server
    PROVE  Settled(rf[i].log, rf[i].commitIndex, rf[i].currentTerm)'
<1>1. LogsFine /\ LogsFine' /\ LogsMeet'
  BY GoodLogs, PTL DEF GoodStep
<1>2. /\ rf[i].log \in Seq(Entry) /\ rf'[i].log \in Seq(Entry)
      /\ rf[i].currentTerm \in Nat /\ rf'[i].currentTerm \in Nat
      /\ rf[i].commitIndex \in Nat /\ rf'[i].commitIndex \in Nat
  BY <1>1 DEF LogsFine, LogFine, GoodStep, Good, BaseInv, CommitTypes
<1>3. PICK k \in Nat : k = rf'[i].commitIndex
  BY <1>2
<1>4. PICK t \in Nat : t = rf[i].currentTerm
  BY <1>2
<1>5. PICK u \in Nat : u = rf'[i].currentTerm /\ u >= t
  BY <1>2, <1>4 DEF GoodStep, ElectionStep, PeerStep
<1>6. PICK L \in Seq(Entry) : L = rf[i].log
  BY <1>2
<1>7. PICK N \in Seq(Entry) : N = rf'[i].log
  BY <1>2
<1> SUFFICES ASSUME k # 0
             PROVE  \E P \in Seq(Entry) :
                      Final(P)' /\ k < Len(P) /\ EndTerm(P) <= u /\ Agrees(N, P, k + 1)
  BY <1>3, <1>5, <1>7 DEF Settled
<1>8. CASE rf'[i].commitIndex = rf[i].commitIndex
  <2>1. Settled(L, k, t)
    BY <1>3, <1>4, <1>6, <1>8 DEF Covered
  <2>2. PICK P \in Seq(Entry) : Final(P) /\ k < Len(P) /\ EndTerm(P) <= t /\ Agrees(L, P, k + 1)
    BY <2>1 DEF Settled
  <2>3. EndTerm(P) \in Nat /\ SafeSent(P)
    BY <2>2, FinalIs
  <2>4. k + 1 \in Nat /\ Agrees(rf[i].log, P, k + 1) /\ EndTerm(P) <= rf[i].currentTerm
    BY <1>4, <1>6, <2>2
  <2>5. Agrees(rf'[i].log, P, k + 1)
    BY <2>3, <2>4, AgreesKept
  <2>6. Final(P)' /\ EndTerm(P) <= u /\ Agrees(N, P, k + 1)
    BY <1>5, <1>7, <2>2, <2>3, <2>5, FinalKept
  <2> QED
    BY <2>2, <2>6
<1>9. CASE Follows(i) /\ rf'[i].commitIndex # rf[i].commitIndex
  <2>1. PICK c \in Appends : Accepts(rf[i], rf'[i], c.args)
    BY <1>9 DEF Follows
  <2>2. PICK args : args = c.args
    OBVIOUS
  <2>3. ArgsOK(args) /\ SentGrows(args) /\ args.leaderCommit \in Nat
    BY <2>2 DEF GoodStep, Good, LogInv, LogTypes, BaseInv, CommitTypes
  <2>4. /\ args.term = u /\ Joins(N, L, args)
        /\ k <= args.leaderCommit /\ k < LastSlot(args)
    BY <1>3, <1>5, <1>6, <1>7, <1>9, <2>1, <2>2 DEF Accepts
  <2>5. SaysSettled(args.leaderCommit, u)
    BY <2>2, <2>4 DEF Covered
  <2>6. PICK P \in Seq(Entry) : Final(P) /\ args.leaderCommit < Len(P) /\ EndTerm(P) <= u
    BY <2>3, <2>4, <2>5 DEF SaysSettled
  <2>7. /\ EndTerm(P) \in Nat /\ SafeSent(P) /\ SafeLogs(P) /\ Len(P) \in Nat /\ Len(P) >= 2
        /\ \E w \in Server : Has(rf[w].log, P)
    BY <2>6, FinalIs
  <2>8. PICK w \in Server : Has(rf'[w].log, P)
    BY <2>7, HasKept
  <2>9. PICK W \in Seq(Entry) : W = rf'[w].log
    BY <1>1 DEF LogsFine, LogFine
  <2>10. Has(W, P) /\ Meet(N, W) /\ Sorted(L)
    BY <1>1, <1>6, <1>7, <2>8, <2>9 DEF LogsMeet, LogsFine, LogFine
  <2>11. ArgsAgree(args, P)
    BY <2>2, <2>4, <2>6, <2>7 DEF SafeSent
  <2>12. AsRecent(L, P) => Has(L, P)
    BY <1>6, <2>7 DEF SafeLogs
  <2>13. LastSlot(args) \in Nat
    BY <2>3 DEF ArgsOK, LastSlot
  <2>14. /\ k + 1 \in Nat /\ k + 1 >= 1 /\ k + 1 <= Len(P) /\ k + 1 <= LastSlot(args) /\ k < Len(P)
    BY <2>3, <2>4, <2>6, <2>7, <2>13
  <2>15. Agrees(N, P, k + 1)
    BY <2>3, <2>4, <2>10, <2>11, <2>12, <2>14, JoinAgrees
  <2>16. Final(P)'
    BY <2>6, FinalKept
  <2> QED
    BY <2>6, <2>14, <2>15, <2>16
<1>10. CASE Told(i) /\ Decides(i)
  <2>1. PICK Q \in SUBSET Server : Commits(Q) /\ \A v \in Q : Acked(v, i, k + 1)
    BY <1>3, <1>10 DEF Decides
  <2>2. /\ k < Len(L) /\ L[k + 1].term = t /\ N = L /\ u = t /\ rf[i].state = "LEADER"
    BY <1>3, <1>4, <1>5, <1>6, <1>7, <1>10 DEF Decides, Told, Leads
  <2>3. k + 1 \in 2 .. Len(L) /\ k + 1 \in 1 .. Len(L)
    BY <2>2
  <2>4. MayCommit(i, k + 1, Q)
    BY <2>1 DEF MayCommit
  <2>5. EntrySafe(i, k + 1, Q)
    BY <1>4, <1>6, <2>2, <2>3, <2>4 DEF AcksSafe
  <2>6. PICK P \in Seq(Entry) : P = Prefix(L, k + 1)
    BY <2>3, PrefixIs
  <2>7. Len(P) = k + 1 /\ \A m \in 1 .. k + 1 : P[m] = L[m]
    BY <2>3, <2>6, PrefixIs
  <2>8. Safe(P, Q) /\ \A v \in Q : Has(rf[v].log, P)
    BY <1>6, <2>1, <2>5, <2>6 DEF EntrySafe
  <2>9. Len(P) >= 2 /\ k < Len(P) /\ EndTerm(P) = t
    BY <2>2, <2>3, <2>7 DEF EndTerm
  <2>10. Final(P)
    BY <2>1, <2>8, <2>9 DEF Final, FinalIn
  <2>11. Final(P)'
    BY <2>10, FinalKept
  <2>12. Agrees(N, P, k + 1)
    BY <2>2, <2>3, <2>7 DEF Agrees
  <2> QED
    BY <2>2, <2>9, <2>11, <2>12
<1>11. PeerShape(i)
  BY DEF GoodStep, StepShape
<1> QED
  BY <1>3, <1>8, <1>9, <1>10, <1>11 DEF PeerShape, Still, Restarted, Extended, Elected, Told

LEMMA CoveredKept ==
    ASSUME GoodStep, AcksSafe, Covered
    PROVE  Covered'
<1>1. \A i \in Server : Settled(rf[i].log, rf[i].commitIndex, rf[i].currentTerm)'
  BY SettledKept
<1>2. ASSUME NEW n, NEW t, SaysSettled(n, t) PROVE SaysSettled(n, t)'
  <2>1. \A P \in Seq(Entry) : Final(P) => Final(P)'
    BY FinalKept
  <2> QED
    BY <1>2, <2>1 DEF SaysSettled
<1>3. ASSUME NEW c \in Appends' PROVE SaysSettled(c.args.leaderCommit, c.args.term)'
  <2>1. PICK n : n = c.args.leaderCommit
    OBVIOUS
  <2>2. PICK t : t = c.args.term
    OBVIOUS
  <2>3. AppendShape(c)
    BY DEF GoodStep, StepShape
  <2>4. CASE \E d \in Appends : c.args = d.args
    <3>1. SaysSettled(n, t)
      BY <2>1, <2>2, <2>4 DEF Covered
    <3> QED
      BY <1>2, <2>1, <2>2, <3>1 DEF SaysSettled
  <2>5. CASE \E i \in Server : Sent(c, i)
    <3>1. PICK i \in Server : Sent(c, i)
      BY <2>5
    <3>2. n = rf[i].commitIndex /\ t = rf[i].currentTerm
      BY <2>1, <2>2, <3>1 DEF Sent
    <3>3. Settled(rf[i].log, n, t)
      BY <3>2 DEF Covered
    <3>4. SaysSettled(n, t)
      BY <3>3 DEF Settled, SaysSettled
    <3> QED
      BY <1>2, <2>1, <2>2, <3>4 DEF SaysSettled
  <2> QED
    BY <2>3, <2>4, <2>5 DEF AppendShape
<1> QED
  BY <1>1, <1>3 DEF Covered

\* Of two final logs one begins with the other.
LEMMA FinalsAgree ==
    ASSUME Good, NEW P \in Seq(Entry), NEW R \in Seq(Entry), Final(P), Final(R),
           NEW n \in Nat, n >= 1, n <= Len(P), n <= Len(R)
    PROVE  P[n] = R[n]
<1>1. ASSUME NEW A \in Seq(Entry), NEW B \in Seq(Entry), Final(A), Final(B), AsRecent(A, B),
             n <= Len(A), n <= Len(B)
      PROVE  A[n] = B[n]
  <2>1. Len(A) \in Nat /\ Len(A) >= 2 /\ Len(B) \in Nat /\ Len(B) >= 2 /\ SafeLogs(B)
    BY <1>1, FinalIs
  <2>2. PICK w \in Server : Has(rf[w].log, A)
    BY <1>1, FinalIs
  <2>3. LogFine(rf[w])
    BY GoodLogs DEF LogsFine
  <2>4. PICK W \in Seq(Entry) : W = rf[w].log
    BY <2>3 DEF LogFine
  <2>5. Has(W, A) /\ Sorted(W) /\ Len(W) >= 1
    BY <2>2, <2>3, <2>4 DEF LogFine
  <2>6. AsRecent(W, A)
    BY <2>1, <2>5, HasRecent
  <2>7. AsRecent(W, B)
    BY <1>1, <2>1, <2>5, <2>6, RecentTransitive
  <2>8. Has(W, B)
    BY <2>4, <2>7, <2>1 DEF SafeLogs
  <2> QED
    BY <1>1, <2>1, <2>5, <2>8 DEF Has, Agrees
<1>2. AsRecent(P, R) \/ AsRecent(R, P)
  <2>1. EndTerm(P) \in Nat /\ EndTerm(R) \in Nat /\ Len(P) \in Nat /\ Len(R) \in Nat
    BY FinalIs
  <2> QED
    BY <2>1 DEF AsRecent
<1> QED
  BY <1>1, <1>2

LEMMA CoveredIsComplete ==
    Good /\ Covered /\ NoSnapshot => LeaderCompleteness
<1> SUFFICES ASSUME Good, Covered, NoSnapshot, NEW i \in Server, NEW j \in Server,
                    NEW k \in Held(i), rf[j].state = "LEADER",
                    rf[j].currentTerm >= rf[i].currentTerm, k <= rf[i].commitIndex
             PROVE  k <= LastIndex(rf[j]) /\ At(rf[j], k) = At(rf[i], k)
  BY DEF LeaderCompleteness
<1>1. rf[i].snapshotIndex = 0 /\ rf[j].snapshotIndex = 0
  BY DEF NoSnapshot
<1>2. LogFine(rf[i]) /\ LogFine(rf[j]) /\ rf[i].commitIndex \in Nat
  BY GoodLogs DEF LogsFine, Good, BaseInv, CommitTypes
<1>3. PICK L \in Seq(Entry) : L = rf[i].log
  BY <1>2 DEF LogFine
<1>4. PICK N \in Seq(Entry) : N = rf[j].log
  BY <1>2 DEF LogFine
<1>5. PICK n \in Nat : n = rf[i].commitIndex
  BY <1>2
<1>6. k \in 1 .. Len(L) - 1 /\ k <= n
  BY <1>1, <1>3, <1>5 DEF Held, LastIndex, LogEnd
<1>7. Settled(rf[i].log, rf[i].commitIndex, rf[i].currentTerm)
  BY DEF Covered
<1>8. PICK P \in Seq(Entry) :
        Final(P) /\ n < Len(P) /\ EndTerm(P) <= rf[i].currentTerm /\ Agrees(L, P, n + 1)
  BY <1>3, <1>5, <1>6, <1>7 DEF Settled
<1>9. EndTerm(P) \in Nat /\ SafeLeaders(P) /\ Len(P) \in Nat
  BY <1>8, FinalIs
<1>10. rf[j].currentTerm >= EndTerm(P)
  BY <1>2, <1>8, <1>9 DEF LogFine
<1>11. Has(N, P)
  BY <1>4, <1>9, <1>10 DEF SafeLeaders
<1>12. k + 1 \in 1 .. n + 1 /\ k + 1 \in 1 .. Len(P) /\ k <= Len(P) - 1
  BY <1>6, <1>8, <1>9
<1>13. L[k + 1] = P[k + 1] /\ N[k + 1] = P[k + 1] /\ Len(P) <= Len(N) /\ Len(N) \in Nat
  BY <1>8, <1>11, <1>12 DEF Has, Agrees
<1>14. k - 0 + 1 = k + 1 /\ k <= 0 + Len(N) - 1
  BY <1>6, <1>9, <1>12, <1>13
<1> QED
  BY <1>1, <1>3, <1>4, <1>13, <1>14 DEF LastIndex, LogEnd, At

-----------------------------------------------------------------------------
(* What AppendEntries does.                                                 *)

LEMMA JoinedJoins ==
    ASSUME NEW N \in Seq(Entry), NEW L \in Seq(Entry), NEW args, ArgsOK(args),
           args.prevLogIndex < Len(L), L[args.prevLogIndex + 1].term = args.prevLogTerm,
           \/ N = L /\ Holds(L, args.prevLogIndex, args.entries)
           \/ Joined(N, L, args.prevLogIndex, args.entries)
    PROVE  Joins(N, L, args)
<1>1. PICK p \in Nat : p = args.prevLogIndex
  BY DEF ArgsOK
<1>2. PICK E \in Seq(Entry) : E = args.entries
  BY DEF ArgsOK
<1>3. Len(E) \in Nat /\ Len(L) \in Nat /\ Len(N) \in Nat
  OBVIOUS
<1>4. FirstSlot(args) = p + 1 /\ LastSlot(args) = p + 1 + Len(E)
  BY <1>1, <1>2 DEF FirstSlot, LastSlot
<1>5. TermAt(args, p + 1) = args.prevLogTerm
  BY <1>4 DEF TermAt
<1>6. \A n \in p + 2 .. p + 1 + Len(E) :
        TermAt(args, n) = E[n - (p + 1)].term /\ n - (p + 1) \in 1 .. Len(E)
  <2> TAKE n \in p + 2 .. p + 1 + Len(E)
  <2>1. n # p + 1 /\ n - (p + 1) \in 1 .. Len(E)
    BY <1>3
  <2>2. TermAt(args, n) = args.entries[n - (p + 1)].term
    BY <1>4, <2>1 DEF TermAt
  <2> QED
    BY <1>2, <2>1, <2>2
<1>7. p + 1 <= Len(L) /\ L[p + 1].term = args.prevLogTerm
  BY <1>1, <1>3
<1>8. CASE N = L /\ Holds(L, p, E)
  <2>1. \A m \in 1 .. Len(E) : p + m < Len(L) /\ L[p + m + 1].term = E[m].term
    BY <1>8 DEF Holds
  <2>2. p + 1 + Len(E) <= Len(L)
    <3>1. CASE Len(E) = 0
      BY <1>3, <1>7, <3>1
    <3>2. CASE Len(E) # 0
      <4>1. Len(E) \in 1 .. Len(E)
        BY <1>3, <3>2
      <4> QED
        BY <1>3, <2>1, <4>1
    <3> QED
      BY <3>1, <3>2
  <2>3. ASSUME NEW n \in p + 1 .. p + 1 + Len(E) PROVE N[n].term = TermAt(args, n)
    <3>1. CASE n = p + 1
      BY <1>5, <1>7, <1>8, <3>1
    <3>2. CASE n # p + 1
      <4>1. n \in p + 2 .. p + 1 + Len(E) /\ p + (n - (p + 1)) + 1 = n
        BY <1>3, <3>2
      <4> QED
        BY <1>6, <1>8, <2>1, <4>1
    <3> QED
      BY <3>1, <3>2
  <2> QED
    BY <1>4, <1>7, <1>8, <2>2, <2>3 DEF Joins
<1>9. CASE Joined(N, L, p, E)
  <2>1. PICK q \in p .. p + Len(E) :
          /\ q < Len(L) /\ q < p + Len(E)
          /\ \A k \in p + 1 .. q : L[k + 1].term = E[k - p].term
          /\ q + 1 < Len(L) => L[q + 2].term # E[(q + 1) - p].term
          /\ \A k \in 0 .. q : N[k + 1] = L[k + 1]
          /\ \A k \in q + 1 .. p + Len(E) : N[k + 1] = E[k - p]
    BY <1>9 DEF Joined
  <2>2. Len(N) = p + 1 + Len(E)
    BY <1>3, <1>9 DEF Joined
  <2>3. \A n \in 1 .. q + 1 : N[n] = L[n]
    <3> TAKE n \in 1 .. q + 1
    <3>1. n - 1 \in 0 .. q /\ (n - 1) + 1 = n
      BY <1>3
    <3> QED
      BY <2>1, <3>1
  <2>4. ASSUME NEW n \in p + 1 .. p + 1 + Len(E) PROVE N[n].term = TermAt(args, n)
    <3>1. CASE n = p + 1
      BY <1>3, <1>5, <1>7, <2>3, <3>1
    <3>2. CASE n # p + 1 /\ n <= q + 1
      <4>1. /\ n \in p + 2 .. p + 1 + Len(E) /\ n - 1 \in p + 1 .. q /\ (n - 1) + 1 = n
            /\ (n - 1) - p = n - (p + 1) /\ n \in 1 .. q + 1
        BY <1>3, <3>2
      <4>2. L[n].term = E[n - (p + 1)].term
        BY <2>1, <4>1
      <4> QED
        BY <1>6, <2>3, <4>1, <4>2
    <3>3. CASE n > q + 1
      <4>1. /\ n \in p + 2 .. p + 1 + Len(E) /\ n - 1 \in q + 1 .. p + Len(E) /\ (n - 1) + 1 = n
            /\ (n - 1) - p = n - (p + 1)
        BY <1>3, <3>3
      <4>2. N[n] = E[n - (p + 1)]
        BY <2>1, <4>1
      <4> QED
        BY <1>6, <4>1, <4>2
    <3> QED
      BY <1>3, <3>1, <3>2, <3>3
  <2>5. PICK s \in p + 1 .. p + Len(E) : s = q + 1
    <3>1. q + 1 \in p + 1 .. p + Len(E)
      BY <1>3, <2>1
    <3> QED
      BY <3>1
  <2>6. s + 1 <= Len(L) => L[s + 1].term # TermAt(args, s + 1)
    <3>1. /\ s + 1 \in p + 2 .. p + 1 + Len(E) /\ s + 1 = q + 2 /\ (s + 1) - (p + 1) = (q + 1) - p
          /\ s + 1 <= Len(L) => q + 1 < Len(L)
      <4>1. q \in Nat /\ q < p + Len(E) /\ q >= p /\ s = q + 1
        BY <2>1, <2>5
      <4> QED
        BY <1>3, <4>1
    <3> QED
      BY <1>6, <2>1, <3>1
  <2>7. s <= Len(L) /\ (\A n \in 1 .. s : N[n] = L[n]) /\ s \in FirstSlot(args) .. LastSlot(args) - 1
    <3>1. q \in Nat /\ q >= p /\ q < Len(L) /\ q < p + Len(E) /\ s = q + 1
      BY <2>1, <2>5
    <3>2. s <= Len(L) /\ s \in p + 1 .. (p + 1 + Len(E)) - 1
      BY <1>3, <3>1
    <3> QED
      BY <1>4, <2>3, <3>1, <3>2
  <2>8. FirstSlot(args) <= Len(L) /\ L[FirstSlot(args)].term = args.prevLogTerm
    BY <1>4, <1>7
  <2>9. \A n \in FirstSlot(args) .. LastSlot(args) : N[n].term = TermAt(args, n)
    BY <1>4, <2>4
  <2>10. Len(N) = LastSlot(args) /\ LastSlot(args) <= Len(N)
    BY <1>3, <1>4, <2>2
  <2> QED
    BY <2>6, <2>7, <2>8, <2>9, <2>10 DEF Joins
<1> QED
  BY <1>1, <1>2, <1>8, <1>9

LEMMA FewMins ==
    \A a, b \in Int : Min({a, b}) \in {a, b} /\ Min({a, b}) <= a /\ Min({a, b}) <= b
<1> SUFFICES ASSUME NEW a \in Int, NEW b \in Int
             PROVE  Min({a, b}) \in {a, b} /\ Min({a, b}) <= a /\ Min({a, b}) <= b
  OBVIOUS
<1>1. \E x \in {a, b} : \A y \in {a, b} : x <= y
  OBVIOUS
<1> QED
  BY <1>1, Zenon DEF Min

\* commitIndex does not go back, nor beyond what the leader has committed and sent.
LEMMA FollowerCommits ==
    ASSUME NEW r, r.commitIndex \in Nat, NEW leaderCommit \in Nat, NEW last \in Nat
    PROVE  LET k == followerCommit(r, leaderCommit, last)
           IN /\ k \in Nat /\ k >= r.commitIndex
              /\ k = r.commitIndex \/ (k > r.commitIndex /\ k <= leaderCommit /\ k <= last)
<1>1. PICK m \in Int : m = Min({leaderCommit, last}) /\ m <= leaderCommit /\ m <= last /\ m >= 0
  BY FewMins
<1>2. PICK a \in Nat : a = r.commitIndex
  OBVIOUS
<1>3. Max({a, m}) \in {a, m} /\ Max({a, m}) >= a /\ Max({a, m}) >= m
  <2>1. a \in Int /\ m \in Int
    OBVIOUS
  <2> QED
    BY <2>1, FewInts, Zenon
<1>4. followerCommit(r, leaderCommit, last) = Max({a, m})
  BY <1>1, <1>2 DEF followerCommit
<1> QED
  BY <1>1, <1>2, <1>3, <1>4

\* What the service and the persister know of a peer.
Unmoved(r, s) ==
    /\ s.lastApplied = r.lastApplied /\ s.snapshotIndex = r.snapshotIndex
    /\ s.snapshotTerm = r.snapshotTerm /\ s.snapshot = r.snapshot

LEMMA AppendResult ==
    ASSUME NEW r, PeerOK(r), LogOK(r), r.snapshotIndex = 0, r.commitIndex \in Nat,
           NEW args, args.term \in Nat, ArgsOK(args), args.leaderCommit \in Nat
    PROVE  LET h == AppendEntries(r, args)
           IN /\ Conflicts(args, h.reply)
              /\ h.rf.matchIndex = r.matchIndex /\ h.rf.nextIndex = r.nextIndex
              /\ Unmoved(r, h.rf)
              /\ \/ /\ ~h.reply.success /\ h.rf.log = r.log /\ h.rf.commitIndex = r.commitIndex
                    /\ h.rf.state = "LEADER" => r.state = "LEADER" /\ h.rf.currentTerm = r.currentTerm
                 \/ /\ Accepts(r, h.rf, args) /\ h.rf.commitIndex \in Nat
                    /\ h.rf.state = "FOLLOWER" \/ (r.state = "LEADER" /\ args.term = r.currentTerm)
<1>1. PICK h : h = AppendEntries(r, args)
  OBVIOUS
<1>2. PICK s : s = Follower(r, args)
  OBVIOUS
<1>3. PICK p \in Nat : p = args.prevLogIndex
  BY DEF ArgsOK
<1>4. PICK E \in Seq(Entry) : E = args.entries
  BY DEF ArgsOK
<1>5. PICK L \in Seq(Entry) : L = r.log
  BY DEF LogOK
<1>6. Len(E) \in Nat /\ Len(L) \in Nat
  OBVIOUS
<1>7. \/ AppendStale(r, args, h)
      \/ /\ args.term >= r.currentTerm
         /\ AppendTooFar(r, args, h) \/ AppendDiffers(r, args, h) \/ AppendTakes(r, args, h)
  BY <1>1, AppendBranches
<1>8. ASSUME args.term >= r.currentTerm
      PROVE  /\ DOMAIN s = PeerFields /\ s.log = L /\ s.currentTerm = args.term
             /\ s.state = "FOLLOWER" \/ (s.state = "LEADER" /\ r.state = "LEADER" /\ args.term = r.currentTerm)
             /\ s.nextIndex = r.nextIndex /\ s.matchIndex = r.matchIndex
             /\ s.commitIndex = r.commitIndex /\ Unmoved(r, s)
  BY <1>2, <1>5, <1>8, FollowerIs DEF Unmoved
<1>9. CASE AppendStale(r, args, h)
  <2>1. h.rf = r /\ h.reply = PlainReply(r.currentTerm, FALSE)
    BY <1>9 DEF AppendStale
  <2>2. ~h.reply.success /\ Conflicts(args, h.reply)
    BY <1>3, <2>1 DEF PlainReply, Conflicts
  <2> QED
    BY <1>1, <2>1, <2>2 DEF Unmoved
<1>10. CASE args.term >= r.currentTerm /\ AppendTooFar(r, args, h)
  <2>1. /\ p >= Len(L) /\ h.rf = s
        /\ h.reply = [PlainReply(s.currentTerm, FALSE) EXCEPT !.conflictingLogLen = Len(L)]
    BY <1>2, <1>3, <1>5, <1>10 DEF AppendTooFar
  <2>2. ~h.reply.success /\ Conflicts(args, h.reply)
    BY <1>3, <1>6, <2>1 DEF PlainReply, Conflicts
  <2> QED
    BY <1>1, <1>5, <1>8, <1>10, <2>1, <2>2
<1>11. CASE args.term >= r.currentTerm /\ AppendDiffers(r, args, h)
  <2>1. PICK k \in 0 .. p :
          /\ h.rf = s
          /\ h.reply = [PlainReply(s.currentTerm, FALSE) EXCEPT
                          !.conflictingTerm = r.log[p + 1].term, !.conflictingIndex = k]
    <3>1. PICK k \in 0 .. p :
            h = [rf |-> s, reply |-> [PlainReply(s.currentTerm, FALSE) EXCEPT
                                        !.conflictingTerm = r.log[p + 1].term, !.conflictingIndex = k]]
      BY <1>2, <1>3, <1>11, Zenon DEF AppendDiffers
    <3> QED
      BY <3>1
  <2>2. ~h.reply.success /\ Conflicts(args, h.reply)
    BY <1>3, <2>1 DEF PlainReply, Conflicts
  <2> QED
    BY <1>1, <1>5, <1>8, <1>11, <2>1, <2>2
<1>12. CASE args.term >= r.currentTerm /\ AppendTakes(r, args, h)
  <2>1. PICK N : N = appended(s, p, E)
    OBVIOUS
  <2>2. PICK k : k = followerCommit(s, args.leaderCommit, p + Len(E))
    OBVIOUS
  <2> DEFINE f == [s EXCEPT !.log = N, !.dirty = @ \/ N # s.log, !.commitIndex = k]
  <2>3. /\ p < Len(L) /\ L[p + 1].term = args.prevLogTerm
        /\ h = [rf |-> f, reply |-> PlainReply(s.currentTerm, TRUE)]
    BY <1>2, <1>3, <1>4, <1>5, <1>12, <2>1, <2>2 DEF AppendTakes
  <2>4. /\ f.log = N /\ f.commitIndex = k /\ f.currentTerm = args.term /\ f.state = s.state
        /\ f.nextIndex = r.nextIndex /\ f.matchIndex = r.matchIndex /\ Unmoved(r, f)
    BY <1>8, <1>12 DEF PeerFields, Unmoved
  <2> HIDE DEF f
  <2>5. h.rf = f /\ h.reply.success /\ Conflicts(args, h.reply)
    BY <1>3, <2>3 DEF PlainReply, Conflicts
  <2>6. (N = L /\ Holds(L, p, E)) \/ Joined(N, L, p, E)
    <3>1. s.log = L /\ s.snapshotIndex = 0 /\ s.log \in Seq(Entry) /\ p < Len(s.log)
      BY <1>8, <1>12, <2>3 DEF Unmoved
    <3>2. \/ appended(s, p, E) = s.log /\ Holds(s.log, p, E)
          \/ Joined(appended(s, p, E), s.log, p, E)
      BY <3>1, AppendedLog
    <3> QED
      BY <2>1, <3>1, <3>2
  <2>7. N \in Seq(Entry)
    BY <2>6 DEF Joined
  <2>8. Joins(N, L, args)
    BY <1>3, <1>4, <2>3, <2>6, <2>7, JoinedJoins
  <2>9. LastSlot(args) = p + Len(E) + 1
    BY <1>3, <1>4, <1>6 DEF LastSlot
  <2>10. /\ k \in Nat
         /\ k = r.commitIndex \/ (k > r.commitIndex /\ k <= args.leaderCommit /\ k <= p + Len(E))
    <3>1. s.commitIndex \in Nat /\ p + Len(E) \in Nat /\ s.commitIndex = r.commitIndex
      BY <1>6, <1>8, <1>12
    <3> QED
      BY <2>2, <3>1, FollowerCommits
  <2>11. k <= p + Len(E) => k < LastSlot(args)
    BY <1>6, <2>9, <2>10
  <2>12. Accepts(r, f, args)
    BY <1>5, <1>12, <2>4, <2>8, <2>10, <2>11 DEF Accepts
  <2> QED
    BY <1>1, <1>8, <1>12, <2>4, <2>5, <2>10, <2>12
<1> QED
  BY <1>7, <1>9, <1>10, <1>11, <1>12

-----------------------------------------------------------------------------
(* What a leader does with an answer.                                       *)

\* majorityIndex is an index that enough peers have reached.
LEMMA MajorityIs ==
    ASSUME NEW match \in [Server -> Nat], NEW h \in Nat, \A s \in Server : match[s] <= h
    PROVE  LET k == majorityIndex(match)
           IN k \in Nat /\ k <= h /\ Commits({s \in Server : match[s] >= k})
<1> DEFINE n == Cardinality(Server)
           R == {match[s] : s \in Server}
           T == {k \in R : Cardinality({s \in Server : match[s] >= k}) >= n - n \div 2}
<1>1. n \in Nat
  BY ConstantsOK, FS_CardinalityType
<1>2. R \subseteq Nat /\ R # {}
  BY PeerAssumption DEF PeerAssumption
<1>3. \A s \in Server : match[s] \in R /\ match[s] \in Nat
  OBVIOUS
<1>4. \A k \in R : k <= h
  OBVIOUS
<1>5. T \subseteq R
  OBVIOUS
<1>6. T # {}
  <2> HIDE DEF R, n, T
  <2>1. PICK m \in R : \A y \in R : m <= y
    BY <1>2, SmallestOf
  <2>2. m \in Nat
    BY <1>2
  <2>3. {s \in Server : match[s] >= m} = Server
    BY <1>3, <2>1, <2>2
  <2>4. n >= n - n \div 2
    BY <1>1
  <2>5. m \in T
    BY <2>1, <2>3, <2>4 DEF T, n
  <2> QED
    BY <2>5
<1>7. majorityIndex(match) = Max(T)
  BY DEF majorityIndex
<1>8. \A k \in T : Commits({s \in Server : match[s] >= k})
  BY DEF Commits
<1> HIDE DEF T, R, n
<1>9. Max(T) \in T
  <2>1. T \subseteq Nat /\ \A k \in T : k <= h
    BY <1>2, <1>4, <1>5
  <2> QED
    BY <1>6, <2>1, LargestOf
<1>10. Max(T) \in Nat /\ Max(T) <= h /\ Commits({s \in Server : match[s] >= Max(T)})
  BY <1>2, <1>4, <1>5, <1>8, <1>9
<1> QED
  BY <1>7, <1>10

\* The indices that a leader keeps of its peers, as natural numbers.
LEMMA IndexNat ==
    ASSUME NEW r, LogOK(r), NEW i, IndexOK(r, i)
    PROVE  /\ r.matchIndex \in [Server -> Nat] /\ Len(r.log) \in Nat /\ Len(r.log) >= 1
           /\ \A j \in Server : r.matchIndex[j] < Len(r.log) /\ r.nextIndex[j] \in Int
<1>1. /\ r.matchIndex \in [Server -> Int] /\ r.nextIndex \in [Server -> Int]
      /\ Len(r.log) \in Nat /\ Len(r.log) >= 1
  BY DEF LogOK
<1>2. \A j \in Server : r.matchIndex[j] >= 0 /\ r.matchIndex[j] < Len(r.log)
  BY DEF IndexOK
<1> QED
  BY <1>1, <1>2

LEMMA CommitResult ==
    ASSUME NEW r, LogOK(r), r.snapshotIndex = 0, r.matchIndex \in [Server -> Nat],
           \A j \in Server : r.matchIndex[j] < Len(r.log), r.commitIndex \in Nat, NEW me \in Server
    PROVE  LET s == updateCommitIndex(r, me)
           IN \/ s = r
              \/ \E k \in Nat :
                   /\ s = [r EXCEPT !.commitIndex = k]
                   /\ k > r.commitIndex /\ k < Len(r.log) /\ r.log[k + 1].term = r.currentTerm
                   /\ Commits({v \in Server : v = me \/ r.matchIndex[v] >= k})
<1>1. Len(r.log) \in Nat /\ Len(r.log) >= 1 /\ LastIndex(r) = Len(r.log) - 1
  BY DEF LogOK, LastIndex, LogEnd
<1>2. PICK h \in Nat : h = Len(r.log) - 1
  <2>1. Len(r.log) - 1 \in Nat
    BY <1>1
  <2> QED
    BY <2>1
<1>3. PICK match : match = [r.matchIndex EXCEPT ![me] = LastIndex(r)]
  OBVIOUS
<1>4. match \in [Server -> Nat] /\ \A v \in Server : match[v] = IF v = me THEN h ELSE r.matchIndex[v]
  BY <1>1, <1>2, <1>3
<1>5. \A v \in Server : match[v] <= h
  BY <1>1, <1>2, <1>4
<1>6. PICK k : k = majorityIndex(match)
  OBVIOUS
<1>7. k \in Nat /\ k <= h /\ Commits({v \in Server : match[v] >= k})
  BY <1>4, <1>5, <1>6, MajorityIs
<1>8. {v \in Server : match[v] >= k} = {v \in Server : v = me \/ r.matchIndex[v] >= k}
  BY <1>4, <1>7
<1>9. At(r, k) = r.log[k + 1]
  BY <1>7 DEF At
<1>10. updateCommitIndex(r, me) =
         IF k > r.commitIndex /\ k > r.snapshotIndex /\ At(r, k).term = r.currentTerm
         THEN [r EXCEPT !.commitIndex = k] ELSE r
  BY <1>3, <1>6 DEF updateCommitIndex
<1>11. CASE k > r.commitIndex /\ At(r, k).term = r.currentTerm
  <2>1. k > r.snapshotIndex
    BY <1>7, <1>11
  <2>2. updateCommitIndex(r, me) = [r EXCEPT !.commitIndex = k]
    BY <1>10, <1>11, <2>1, Zenon
  <2>3. k < Len(r.log) /\ r.log[k + 1].term = r.currentTerm
    BY <1>1, <1>2, <1>7, <1>9, <1>11
  <2> QED
    BY <1>7, <1>8, <1>11, <2>2, <2>3
<1>12. CASE ~(k > r.commitIndex /\ At(r, k).term = r.currentTerm)
  BY <1>10, <1>12, Zenon
<1> QED
  BY <1>11, <1>12

LEMMA MaxOfThree ==
    ASSUME NEW a \in Int, NEW b \in Int, NEW d \in Int
    PROVE  Max({a, b, d}) \in {a, b, d} /\ Max({a, b, d}) >= b
<1>1. \E x \in {a, b, d} : \A y \in {a, b, d} : x >= y
  OBVIOUS
<1>2. Max({a, b, d}) \in {a, b, d} /\ \A y \in {a, b, d} : Max({a, b, d}) >= y
  BY <1>1, Zenon DEF Max
<1> QED
  BY <1>2

\* Where a leader looks next is within its log.
LEMMA BackedUpWithin ==
    ASSUME NEW r, LogOK(r), r.snapshotIndex = 0, NEW reply, ReplyOK(reply),
           reply.conflictingLogLen <= Len(r.log), reply.conflictingIndex <= Len(r.log)
    PROVE  backedUp(r, reply) \in Int /\ backedUp(r, reply) <= Len(r.log)
<1> DEFINE same == {k \in r.snapshotIndex + 1 .. LastIndex(r) :
                      At(r, k).term = reply.conflictingTerm}
<1>1. Len(r.log) \in Nat /\ LastIndex(r) = Len(r.log) - 1
  BY DEF LogOK, LastIndex, LogEnd
<1>2. same \subseteq Nat /\ \A x \in same : x <= Len(r.log) /\ x + 1 <= Len(r.log)
  <2>1. r.snapshotIndex + 1 = 1
    OBVIOUS
  <2>2. \A x \in same : x \in 1 .. Len(r.log) - 1
    BY <1>1, <2>1
  <2> QED
    BY <1>1, <2>2
<1> HIDE DEF same
<1>3. same # {} => Max(same) \in same
  BY <1>1, <1>2, LargestOf
<1>4. same # {} => Max(same) + 1 <= Len(r.log)
  BY <1>2, <1>3
<1>5. \/ backedUp(r, reply) = reply.conflictingLogLen
      \/ backedUp(r, reply) = reply.conflictingIndex
      \/ same # {} /\ backedUp(r, reply) = Max(same) + 1
  BY Zenon DEF backedUp, same
<1>6. backedUp(r, reply) <= Len(r.log)
  BY <1>4, <1>5
<1> QED
  BY <1>6, BackedUpInt

\* The answer of server has made the leader me record and perhaps commit more.
Recorded(r, s, me, server, last) ==
    /\ Leads(r, s)
    /\ \A v \in Server : s.matchIndex[v] = r.matchIndex[v] \/ (v = server /\ s.matchIndex[v] = last)
    /\ \/ s.commitIndex = r.commitIndex
       \/ LET k == s.commitIndex
          IN /\ k > r.commitIndex /\ k < Len(r.log) /\ r.log[k + 1].term = r.currentTerm
             /\ \E Q \in SUBSET Server :
                  /\ Commits(Q)
                  /\ \A v \in Q : v = me \/ r.matchIndex[v] >= k \/ (v = server /\ last >= k)

LEMMA SuccessResult ==
    ASSUME NEW r, PeerOK(r), LogOK(r), r.snapshotIndex = 0, r.state = "LEADER", r.commitIndex \in Nat,
           NEW me \in Server, NEW server \in Server, server # me, IndexOK(r, me),
           NEW args, ArgsOK(args), LastSlot(args) <= Len(r.log), NEW reply,
           ~(reply.term > r.currentTerm), reply.success
    PROVE  LET s == handleAppendEntriesResponse(r, me, server, args, reply)
           IN /\ s.log = r.log /\ Unmoved(r, s) /\ s.commitIndex \in Nat /\ IndexOK(s, me)
              /\ Recorded(r, s, me, server, args.prevLogIndex + Len(args.entries))
<1>1. PICK last \in Nat : last = args.prevLogIndex + Len(args.entries)
  BY DEF ArgsOK
<1>2. last < Len(r.log) /\ Len(r.log) \in Nat
  BY <1>1 DEF LastSlot, ArgsOK, LogOK
<1>3. /\ r.matchIndex \in [Server -> Nat] /\ \A j \in Server : r.matchIndex[j] < Len(r.log)
      /\ r.nextIndex \in [Server -> Int]
  BY IndexNat DEF LogOK
<1>4. PICK m : m = [r EXCEPT !.matchIndex[server] = last]
  OBVIOUS
<1>5. /\ DOMAIN m = PeerFields /\ m.log = r.log /\ m.nextIndex = r.nextIndex
      /\ m.matchIndex = [r.matchIndex EXCEPT ![server] = last]
      /\ m.commitIndex = r.commitIndex /\ m.state = r.state /\ m.currentTerm = r.currentTerm
      /\ Unmoved(r, m)
  BY <1>4 DEF PeerOK, PeerFields, Unmoved
<1>6. /\ m.matchIndex \in [Server -> Nat] /\ m.matchIndex[server] = last
      /\ \A j \in Server : j # server => m.matchIndex[j] = r.matchIndex[j]
  BY <1>3, <1>5
<1>7. PICK u : u = IF last > r.matchIndex[server] THEN updateCommitIndex(m, me) ELSE r
  OBVIOUS
<1>8. /\ DOMAIN u = PeerFields /\ u.log = r.log /\ u.nextIndex = r.nextIndex
      /\ u.state = r.state /\ u.currentTerm = r.currentTerm /\ Unmoved(r, u)
      /\ u.commitIndex \in Nat
      /\ u.matchIndex = r.matchIndex \/ u.matchIndex = m.matchIndex
      /\ Recorded(r, u, me, server, last)
  <2>1. CASE ~(last > r.matchIndex[server])
    <3>1. u = r
      BY <1>7, <2>1, Zenon
    <3> QED
      BY <3>1 DEF PeerOK, Unmoved, Recorded, Leads
  <2>2. CASE last > r.matchIndex[server]
    <3>1. u = updateCommitIndex(m, me)
      BY <1>7, <2>2, Zenon
    <3>2. LogOK(m) /\ m.snapshotIndex = 0 /\ m.commitIndex \in Nat
      BY <1>3, <1>5, <1>6 DEF LogOK, Unmoved
    <3>3. \A j \in Server : m.matchIndex[j] < Len(m.log)
      BY <1>2, <1>3, <1>5, <1>6
    <3>4. \A v \in Server : m.matchIndex[v] = r.matchIndex[v] \/ (v = server /\ m.matchIndex[v] = last)
      BY <1>6
    <3>5. CASE u = m
      BY <1>5, <3>2, <3>4, <3>5 DEF Recorded, Leads
    <3>6. CASE u # m
      <4>1. PICK k \in Nat :
              /\ u = [m EXCEPT !.commitIndex = k]
              /\ k > m.commitIndex /\ k < Len(m.log) /\ m.log[k + 1].term = m.currentTerm
              /\ Commits({v \in Server : v = me \/ m.matchIndex[v] >= k})
        <5>1. m.matchIndex \in [Server -> Nat]
          BY <1>6
        <5>2. \/ updateCommitIndex(m, me) = m
              \/ \E k \in Nat :
                   /\ updateCommitIndex(m, me) = [m EXCEPT !.commitIndex = k]
                   /\ k > m.commitIndex /\ k < Len(m.log) /\ m.log[k + 1].term = m.currentTerm
                   /\ Commits({v \in Server : v = me \/ m.matchIndex[v] >= k})
          BY <3>2, <3>3, <5>1, CommitResult
        <5> QED
          BY <3>1, <3>6, <5>2, Zenon
      <4>2. PICK Q \in SUBSET Server : Q = {v \in Server : v = me \/ m.matchIndex[v] >= k}
        OBVIOUS
      <4>3. \A v \in Q : v = me \/ r.matchIndex[v] >= k \/ (v = server /\ last >= k)
        BY <3>4, <4>2
      <4>4. /\ DOMAIN u = PeerFields /\ u.log = m.log /\ u.nextIndex = m.nextIndex
            /\ u.matchIndex = m.matchIndex /\ u.commitIndex = k
            /\ u.state = m.state /\ u.currentTerm = m.currentTerm /\ Unmoved(m, u)
        BY <1>5, <4>1 DEF PeerFields, Unmoved
      <4>5. Recorded(r, u, me, server, last)
        BY <1>5, <3>4, <4>1, <4>2, <4>3, <4>4, ZenonT(60) DEF Recorded, Leads
      <4> QED
        BY <1>5, <4>4, <4>5 DEF Unmoved
    <3> QED
      BY <3>5, <3>6
  <2> QED
    BY <2>1, <2>2
<1>9. PICK x : x = Max({u.nextIndex[server], u.matchIndex[server] + 1})
  OBVIOUS
<1>10. /\ u.matchIndex \in [Server -> Nat]
       /\ \A j \in Server : /\ u.matchIndex[j] < Len(r.log)
                            /\ j # server => u.matchIndex[j] = r.matchIndex[j]
  <2>1. CASE u.matchIndex = r.matchIndex
    BY <1>3, <2>1
  <2>2. CASE u.matchIndex = m.matchIndex
    BY <1>2, <1>3, <1>6, <2>2
  <2> QED
    BY <1>8, <2>1, <2>2
<1>11. x \in Int /\ x <= Len(r.log) /\ x > u.matchIndex[server]
  <2>1. PICK a \in Int : a = u.nextIndex[server] /\ a <= Len(r.log)
    BY <1>3, <1>8 DEF IndexOK
  <2>2. PICK b \in Int : b = u.matchIndex[server] + 1 /\ b <= Len(r.log)
    BY <1>2, <1>10
  <2>3. Max({a, b}) \in {a, b} /\ Max({a, b}) >= b
    BY FewInts
  <2>4. u.matchIndex[server] \in Nat
    BY <1>10
  <2> QED
    BY <1>9, <2>1, <2>2, <2>3, <2>4
<1>12. PICK s : s = [u EXCEPT !.nextIndex[server] = x]
  OBVIOUS
<1>13. handleAppendEntriesResponse(r, me, server, args, reply) = s
  <2>1. handleAppendEntriesResponse(r, me, server, args, reply) =
          [u EXCEPT !.nextIndex[server] = Max({@, u.matchIndex[server] + 1})]
    BY <1>1, <1>4, <1>7 DEF handleAppendEntriesResponse
  <2>2. [u EXCEPT !.nextIndex[server] = Max({@, u.matchIndex[server] + 1})]
          = [u EXCEPT !.nextIndex[server] = Max({u.nextIndex[server], u.matchIndex[server] + 1})]
    OBVIOUS
  <2> QED
    BY <1>9, <1>12, <2>1, <2>2
<1>14. /\ s.log = u.log /\ s.matchIndex = u.matchIndex /\ s.commitIndex = u.commitIndex
       /\ s.state = u.state /\ s.currentTerm = u.currentTerm /\ Unmoved(u, s)
       /\ s.nextIndex = [u.nextIndex EXCEPT ![server] = x]
  BY <1>8, <1>12 DEF PeerFields, Unmoved
<1>15. IndexOK(s, me)
  <2> SUFFICES ASSUME NEW j \in Server
               PROVE  /\ s.matchIndex[j] >= 0 /\ s.matchIndex[j] < Len(s.log)
                      /\ j # me => s.nextIndex[j] <= Len(s.log) /\ s.matchIndex[j] < s.nextIndex[j]
    BY DEF IndexOK
  <2>1. s.matchIndex[j] >= 0 /\ s.matchIndex[j] < Len(s.log)
    BY <1>8, <1>10, <1>14
  <2>2. CASE j = server
    <3>1. s.nextIndex[j] = x
      BY <1>3, <1>8, <1>14, <2>2
    <3> QED
      BY <1>8, <1>10, <1>11, <1>14, <2>1, <2>2, <3>1
  <2>3. CASE j # server
    <3>1. s.nextIndex[j] = r.nextIndex[j] /\ s.matchIndex[j] = r.matchIndex[j] /\ s.log = r.log
      BY <1>3, <1>8, <1>10, <1>14, <2>3
    <3> QED
      BY <2>1, <3>1 DEF IndexOK
  <2> QED
    BY <2>2, <2>3
<1>16. Recorded(r, s, me, server, last)
  BY <1>8, <1>14 DEF Recorded, Leads
<1> QED
  BY <1>1, <1>8, <1>13, <1>14, <1>15, <1>16 DEF Unmoved

LEMMA FailureResult ==
    ASSUME NEW r, PeerOK(r), LogOK(r), r.snapshotIndex = 0,
           NEW me \in Server, NEW server \in Server, server # me, IndexOK(r, me),
           NEW args, ArgsOK(args), LastSlot(args) <= Len(r.log), NEW reply, ReplyOK(reply),
           Conflicts(args, reply)
    PROVE  LET x == Max({backedUp(r, reply), r.matchIndex[server] + 1, 1})
           IN IndexOK([r EXCEPT !.nextIndex[server] = x], me)
<1>1. Len(r.log) \in Nat /\ args.prevLogIndex \in Nat /\ args.prevLogIndex < Len(r.log)
  BY DEF LogOK, ArgsOK, LastSlot
<1>2. PICK a \in Int : a = backedUp(r, reply) /\ a <= Len(r.log)
  <2>1. reply.conflictingLogLen <= Len(r.log) /\ reply.conflictingIndex <= Len(r.log)
    BY <1>1 DEF ReplyOK, Conflicts
  <2> QED
    BY <2>1, BackedUpWithin
<1>3. /\ r.matchIndex \in [Server -> Nat] /\ r.nextIndex \in [Server -> Int] /\ Len(r.log) >= 1
      /\ \A j \in Server : r.matchIndex[j] < Len(r.log)
  BY IndexNat DEF LogOK
<1>4. PICK b \in Int : b = r.matchIndex[server] + 1 /\ b <= Len(r.log)
  BY <1>1, <1>3
<1>5. PICK x : x = Max({a, b, 1})
  OBVIOUS
<1>6. x \in Int /\ x <= Len(r.log) /\ x >= b
  <2>1. x \in {a, b, 1} /\ x >= b
    BY <1>5, MaxOfThree
  <2> QED
    BY <1>1, <1>2, <1>3, <1>4, <2>1
<1>7. PICK s : s = [r EXCEPT !.nextIndex[server] = x]
  OBVIOUS
<1>8. s.log = r.log /\ s.matchIndex = r.matchIndex /\ s.nextIndex = [r.nextIndex EXCEPT ![server] = x]
  BY <1>7 DEF PeerOK, PeerFields
<1>9. ASSUME NEW j \in Server
      PROVE  /\ s.matchIndex[j] >= 0 /\ s.matchIndex[j] < Len(s.log)
             /\ j # me => s.nextIndex[j] <= Len(s.log) /\ s.matchIndex[j] < s.nextIndex[j]
  <2>1. CASE j = server
    <3>1. s.nextIndex[j] = x /\ s.matchIndex[j] \in Nat
      BY <1>3, <1>8, <2>1
    <3> QED
      BY <1>3, <1>4, <1>6, <1>8, <2>1, <3>1
  <2>2. CASE j # server
    BY <1>3, <1>8, <2>2 DEF IndexOK
  <2> QED
    BY <2>1, <2>2
<1>10. IndexOK(s, me)
  BY <1>9 DEF IndexOK
<1> QED
  BY <1>2, <1>4, <1>5, <1>7, <1>10

\* A peer that only does things that nobody else sees.
LEMMA FieldsStill ==
    ASSUME NEW r, NEW s, s.log = r.log, s.commitIndex = r.commitIndex, s.state = r.state,
           s.currentTerm = r.currentTerm, s.matchIndex = r.matchIndex, s.nextIndex = r.nextIndex
    PROVE  Still(r, s) /\ \A i : IndexOK(r, i) => IndexOK(s, i)
  BY DEF Still, IndexOK

\* The whole of sendAndHandle.
LEMMA ReplyResult ==
    ASSUME NEW r, PeerOK(r), LogOK(r), r.snapshotIndex = 0, r.commitIndex \in Nat,
           NEW me \in Server, NEW server \in Server, NEW args, NEW latest, NEW ok, NEW reply,
           ok => ArgsOK(args) /\ ReplyOK(reply) /\ Conflicts(args, reply),
           r.state = "LEADER" => IndexOK(r, me),
           (ok /\ r.state = "LEADER" /\ args.term = r.currentTerm) =>
             server # me /\ LastSlot(args) <= Len(r.log)
    PROVE  LET s == sendAndHandle(r, me, server, args, latest, ok, reply)
           IN /\ s.log = r.log /\ Unmoved(r, s) /\ s.commitIndex \in Nat
              /\ s.state = "LEADER" => IndexOK(s, me)
              /\ \/ Still(r, s)
                 \/ /\ ok /\ reply.success /\ args.term = r.currentTerm
                    /\ Recorded(r, s, me, server, args.prevLogIndex + Len(args.entries))
<1>1. PICK u : u = IF latest THEN [r EXCEPT !.inFlight[server] = FALSE] ELSE r
  OBVIOUS
<1>2. /\ DOMAIN u = PeerFields /\ u.log = r.log /\ u.commitIndex = r.commitIndex /\ u.state = r.state
      /\ u.currentTerm = r.currentTerm /\ u.matchIndex = r.matchIndex /\ u.nextIndex = r.nextIndex
      /\ u.votedFor = r.votedFor /\ u.votes = r.votes /\ Unmoved(r, u)
  <2>1. u = r \/ u = [r EXCEPT !.inFlight[server] = FALSE]
    BY <1>1, Zenon
  <2> QED
    BY <2>1 DEF PeerOK, PeerFields, Unmoved
<1>3. PeerOK(u) /\ LogOK(u) /\ u.snapshotIndex = 0 /\ u.commitIndex \in Nat
  BY <1>2 DEF PeerOK, LogOK, Unmoved
<1>4. Still(r, u) /\ (u.state = "LEADER" => IndexOK(u, me))
  BY <1>2, FieldsStill
<1>5. PICK s : s = sendAndHandle(r, me, server, args, latest, ok, reply)
  OBVIOUS
<1>6. CASE ~ok \/ u.state # "LEADER" \/ u.currentTerm # args.term
  <2>1. s = u
    BY <1>1, <1>5, <1>6, Zenon DEF sendAndHandle
  <2> QED
    BY <1>2, <1>3, <1>4, <1>5, <2>1
<1>7. CASE ~(~ok \/ u.state # "LEADER" \/ u.currentTerm # args.term)
  <2>1. s = handleAppendEntriesResponse(u, me, server, args, reply)
    BY <1>1, <1>5, <1>7, Zenon DEF sendAndHandle
  <2>2. /\ ok /\ u.state = "LEADER" /\ args.term = r.currentTerm /\ ArgsOK(args) /\ ReplyOK(reply)
        /\ Conflicts(args, reply) /\ server # me /\ LastSlot(args) <= Len(u.log) /\ IndexOK(u, me)
    BY <1>2, <1>4, <1>7
  <2>3. CASE reply.term > u.currentTerm
    <3>1. s = stepDownToFollower(u, reply.term)
      BY <2>1, <2>3, Zenon DEF handleAppendEntriesResponse
    <3>2. s = [u EXCEPT !.currentTerm = reply.term, !.votedFor = None, !.dirty = TRUE, !.state = "FOLLOWER"]
      BY <2>3, <3>1, Zenon DEF stepDownToFollower
    <3>3. s.log = u.log /\ s.commitIndex = u.commitIndex /\ s.state = "FOLLOWER" /\ Unmoved(u, s)
      BY <1>2, <3>2 DEF PeerFields, Unmoved
    <3> QED
      BY <1>2, <1>3, <1>5, <3>3 DEF Still, Unmoved
  <2>4. CASE ~(reply.term > u.currentTerm) /\ reply.success
    <3>1. PICK last : last = args.prevLogIndex + Len(args.entries)
      OBVIOUS
    <3>2. /\ s.log = u.log /\ Unmoved(u, s) /\ s.commitIndex \in Nat /\ IndexOK(s, me)
          /\ Recorded(u, s, me, server, last)
      BY <1>3, <2>1, <2>2, <2>4, <3>1, SuccessResult
    <3>3. Recorded(r, s, me, server, last)
      BY <1>2, <3>2 DEF Recorded, Leads
    <3> QED
      BY <1>2, <1>5, <2>2, <2>4, <3>1, <3>2, <3>3 DEF Unmoved
  <2>5. CASE ~(reply.term > u.currentTerm) /\ ~reply.success
    <3>1. PICK x : x = Max({backedUp(u, reply), u.matchIndex[server] + 1, 1})
      OBVIOUS
    <3>2. s = u \/ s = [u EXCEPT !.nextIndex[server] = x]
      BY <2>1, <2>5, <3>1, Zenon DEF handleAppendEntriesResponse
    <3>3. CASE s = u
      BY <1>2, <1>3, <1>4, <1>5, <3>3
    <3>4. CASE s = [u EXCEPT !.nextIndex[server] = x]
      <4>1. IndexOK(s, me)
        BY <1>3, <2>2, <3>1, <3>4, FailureResult
      <4>2. /\ s.log = u.log /\ s.commitIndex = u.commitIndex /\ s.state = u.state
            /\ s.currentTerm = u.currentTerm /\ s.matchIndex = u.matchIndex /\ Unmoved(u, s)
        BY <1>2, <3>4 DEF PeerFields, Unmoved
      <4> QED
        BY <1>2, <1>3, <1>5, <4>1, <4>2 DEF Still, Unmoved
    <3> QED
      BY <3>2, <3>3, <3>4
  <2> QED
    BY <2>3, <2>4, <2>5
<1> QED
  BY <1>6, <1>7

-----------------------------------------------------------------------------
(* What each action does to the peers and the calls.                        *)

\* Everything that is known before a step.
Before == Good /\ NoSnapshot

\* The service, the applier and the snapshot are not concerned, and nothing that
\* is committed is taken back.
Onward(r, s) == Unmoved(r, s) /\ s.commitIndex >= r.commitIndex
Steady == UNCHANGED <<batch, srv>> /\ \A j \in Server : Onward(rf[j], rf'[j])

LEMMA PeerFacts ==
    ASSUME Before, NEW j \in Server
    PROVE  /\ PeerOK(rf[j]) /\ LogOK(rf[j]) /\ rf[j].snapshotIndex = 0 /\ rf[j].commitIndex \in Nat
           /\ rf[j].state = "LEADER" => IndexOK(rf[j], j)
  BY DEF Before, Good, ElectionInv, ElectionTypes, LogInv, LogTypes, BaseInv, CommitTypes,
         IndexInv, NoSnapshot

LEMMA CallFacts ==
    ASSUME Before, NEW c \in calls
    PROVE  /\ CallOK(c) /\ Asks(c) /\ DOMAIN c = CallFields /\ c.to \in Server
           /\ c.rpc \in {"RequestVote", "AppendEntries"} /\ c.pending = "no"
           /\ c.rpc = "AppendEntries" =>
                /\ c \in Appends /\ ArgsOK(c.args) /\ SentGrows(c.args) /\ c.args.leaderCommit \in Nat
                /\ c.reply # None => ReplyOK(c.reply) /\ Conflicts(c.args, c.reply)
           /\ c.rpc = "RequestVote" => c \in Votes /\ BallotOK(c.args)
<1>1. CallOK(c) /\ Asks(c)
  BY DEF Before, Good, ElectionInv, ElectionTypes
<1>2. c.rpc \in {"RequestVote", "AppendEntries"} /\ c.pending = "no"
  BY DEF Before, Good, BaseInv, Plain
<1>3. c.rpc = "AppendEntries" => c \in Appends
  BY DEF Appends
<1>4. c \in Appends => /\ ArgsOK(c.args) /\ SentGrows(c.args) /\ c.args.leaderCommit \in Nat
                       /\ c.reply # None => ReplyOK(c.reply) /\ Conflicts(c.args, c.reply)
  BY DEF Before, Good, LogInv, LogTypes, BaseInv, CommitTypes
<1>5. c.rpc = "RequestVote" => c \in Votes /\ BallotOK(c.args)
  BY DEF Before, Good, BaseInv, Ballots, Votes
<1> QED
  BY <1>1, <1>2, <1>3, <1>4, <1>5 DEF CallOK

\* A peer that is not concerned.
LEMMA IdlePeer ==
    ASSUME Before, NEW j \in Server, rf'[j] = rf[j]
    PROVE  PeerShape(j) /\ Onward(rf[j], rf'[j])
<1>1. Still(rf[j], rf'[j])
  BY DEF Still
<1> QED
  BY <1>1, PeerFacts DEF PeerShape, Onward, Unmoved

\* One peer takes a step.
LEMMA OneShape ==
    ASSUME Before, NEW i \in Server, NEW s, rf' = [rf EXCEPT ![i] = s],
           rf'[i] = s => PeerShape(i)
    PROVE  (\A j \in Server : PeerShape(j)) /\ rf'[i] = s /\ \A j \in Server \ {i} : rf'[j] = rf[j]
<1>1. rf'[i] = s /\ \A j \in Server \ {i} : rf'[j] = rf[j]
  BY DEF Before, Good, ElectionInv, ElectionTypes
<1> QED
  BY <1>1, IdlePeer

\* The calls in progress are some of those there were, with the same answers.
Fewer == \A d \in calls' : \E e \in calls : d.rpc = e.rpc /\ Same(d, e) /\ d.pending = "no"

LEMMA FewerCalls ==
    ASSUME Before, Fewer
    PROVE  /\ \A c \in Appends' : AppendShape(c)
           /\ \A c \in Votes' : VoteShape(c)
           /\ Plain'
           /\ \A v, i, t : GrantOnItsWay(v, i, t)' => GrantOnItsWay(v, i, t)
<1>1. \A c \in Appends' : AppendShape(c)
  BY DEF Fewer, Same, AppendShape, Appends
<1>2. \A c \in Votes' : VoteShape(c)
  BY DEF Fewer, Same, VoteShape, Votes
<1>3. Plain'
  BY DEF Fewer, Before, Good, BaseInv, Plain
<1>4. \A v, i, t : GrantOnItsWay(v, i, t)' => GrantOnItsWay(v, i, t)
  BY DEF Fewer, Same, GrantOnItsWay
<1> QED
  BY <1>1, <1>2, <1>3, <1>4

LEMMA CalmGrants ==
    ASSUME Before, NEW j \in Server, Calm(rf[j], rf'[j]),
           \A v, i, t : GrantOnItsWay(v, i, t)' => GrantOnItsWay(v, i, t)
    PROVE  GrantShape(j)
<1> SUFFICES ASSUME rf'[j].state = "CANDIDATE", NEW v \in Server, Granted(v, j, rf[j].currentTerm)'
             PROVE  /\ rf[j].state = "CANDIDATE" /\ rf[j].currentTerm = rf'[j].currentTerm
                    /\ Granted(v, j, rf[j].currentTerm)
  BY DEF GrantShape
<1>1. /\ rf[j].state = "CANDIDATE" /\ rf[j].currentTerm = rf'[j].currentTerm
      /\ rf'[j].votes = rf[j].votes
  BY DEF Calm
<1>2. GrantOnItsWay(v, j, rf[j].currentTerm)' => GrantOnItsWay(v, j, rf[j].currentTerm)
  BY <1>1 DEF GrantOnItsWay
<1>3. GrantCounted(v, j, rf[j].currentTerm)' => GrantCounted(v, j, rf[j].currentTerm)
  BY <1>1 DEF GrantCounted
<1> QED
  BY <1>1, <1>2, <1>3 DEF Granted

LEMMA FewerStep ==
    ASSUME Before, Fewer, \A j \in Server : PeerShape(j) /\ Calm(rf[j], rf'[j])
    PROVE  StepShape
  BY FewerCalls, CalmGrants DEF StepShape

\* A step that leaves the peers and the calls alone.
LEMMA IdleStep ==
    ASSUME Before, UNCHANGED <<rf, calls>>
    PROVE  StepShape
<1>1. \A j \in Server : PeerShape(j) /\ Calm(rf[j], rf'[j])
  BY IdlePeer, PeerFacts, ReplicationCalm
<1>2. Fewer
  BY CallFacts DEF Fewer, Same
<1> QED
  BY <1>1, <1>2, FewerStep

\* A step of one peer that others do not see.
LEMMA InnerStep ==
    ASSUME Before, UNCHANGED calls, NEW i \in Server, NEW s, rf' = [rf EXCEPT ![i] = s],
           s.log = rf[i].log, s.commitIndex = rf[i].commitIndex, s.state = rf[i].state,
           s.currentTerm = rf[i].currentTerm, s.matchIndex = rf[i].matchIndex,
           s.nextIndex = rf[i].nextIndex, Calm(rf[i], s)
    PROVE  StepShape
<1>1. Still(rf[i], s) /\ (s.state = "LEADER" => IndexOK(s, i)) /\ s.commitIndex \in Nat
  BY PeerFacts, FieldsStill
<1>2. /\ \A j \in Server : PeerShape(j)
      /\ rf'[i] = s /\ \A j \in Server \ {i} : rf'[j] = rf[j]
  BY <1>1, OneShape DEF PeerShape
<1>3. \A j \in Server : Calm(rf[j], rf'[j])
  BY <1>2, PeerFacts, ReplicationCalm
<1>4. Fewer
  BY CallFacts DEF Fewer, Same
<1> QED
  BY <1>2, <1>3, <1>4, FewerStep

\* An answer comes from another peer, and to what is in the leader's log.
LEMMA AnswerToLeader ==
    ASSUME Before, NEW c \in Appends, NEW i \in Server, rf[i].state = "LEADER",
           c.args.term = rf[i].currentTerm
    PROVE  c.to # i /\ LastSlot(c.args) <= Len(rf[i].log)
<1>1. PICK l \in Server : l # c.to /\ TakenBy(l, rf[i].currentTerm)
  BY DEF Before, Good, LogInv, SendersTaken
<1>2. l = i
  BY <1>1, TakenLeader DEF Before, Good, TakenOnce
<1> QED
  BY <1>1, <1>2 DEF Before, Good, BaseInv, LeaderSent, PartOf

LEMMA ReturnShape ==
    ASSUME Before, NEW c \in calls, AppendEntriesReturns(c) \/ CallFails(c)
    PROVE  StepShape /\ Steady
<1>1. /\ CallOK(c) /\ c.to \in Server /\ c.pending = "no" /\ c.from \in Server \union {None}
      /\ c.rpc = "AppendEntries" => c \in Appends
  BY CallFacts DEF CallOK
<1>2. Fewer /\ UNCHANGED <<batch, srv>>
  <2>1. calls' = calls \ {c} /\ UNCHANGED <<batch, srv>>
    BY <1>1 DEF AppendEntriesReturns, CallFails
  <2> QED
    BY <2>1, CallFacts DEF Fewer, Same
<1>3. CASE UNCHANGED rf
  <2>1. \A j \in Server : PeerShape(j) /\ Onward(rf[j], rf'[j]) /\ Calm(rf[j], rf'[j])
    BY <1>3, IdlePeer, PeerFacts, ReplicationCalm
  <2> QED
    BY <1>2, <2>1, FewerStep DEF Steady
<1>4. ASSUME c.rpc = "AppendEntries", NEW ok \in BOOLEAN, NEW reply, ok => reply = c.reply /\ c.reply # None,
             rf' = [rf EXCEPT ![c.from] =
                      sendAndHandle(rf[c.from], c.from, c.to, c.args, c.latest, ok, reply)]
      PROVE  StepShape /\ Steady
  <2>1. PICK i : i = c.from
    OBVIOUS
  <2>2. PICK s : s = sendAndHandle(rf[i], i, c.to, c.args, c.latest, ok, reply)
    OBVIOUS
  <2>3. rf' = [rf EXCEPT ![i] = s]
    BY <1>4, <2>1, <2>2
  <2>4. CASE i \notin Server
    <3>1. rf = [j \in Server |-> rf[j]]
      BY DEF Before, Good, ElectionInv, ElectionTypes
    <3>2. UNCHANGED rf
      BY <2>3, <2>4, <3>1
    <3> QED
      BY <1>3, <3>2
  <2>5. CASE i \in Server
    <3>1. c \in Appends
      BY <1>1, <1>4
    <3>2. ok => ArgsOK(c.args) /\ ReplyOK(reply) /\ Conflicts(c.args, reply) /\ reply.term \in Nat
      BY <1>1, <1>4, CallFacts DEF CallOK
    <3>3. (ok /\ rf[i].state = "LEADER" /\ c.args.term = rf[i].currentTerm) =>
            c.to # i /\ LastSlot(c.args) <= Len(rf[i].log)
      BY <2>5, <3>1, AnswerToLeader
    <3>4. PICK last : last = c.args.prevLogIndex + Len(c.args.entries)
      OBVIOUS
    <3>5. /\ s.log = rf[i].log /\ Unmoved(rf[i], s) /\ s.commitIndex \in Nat
          /\ s.state = "LEADER" => IndexOK(s, i)
          /\ \/ Still(rf[i], s)
             \/ ok /\ reply.success /\ c.args.term = rf[i].currentTerm /\ Recorded(rf[i], s, i, c.to, last)
      BY <1>1, <2>2, <2>5, <3>2, <3>3, <3>4, PeerFacts, ReplyResult
    <3>6. Calm(rf[i], s)
      <4>1. PeerOK(rf[i]) /\ (ok /\ reply # None => reply.term \in Nat) /\ (ok => reply # None)
        BY <1>4, <2>5, <3>2, PeerFacts
      <4> QED
        BY <2>2, <4>1, ReplyCalm
    <3>7. rf'[i] = s
      BY <2>3, <2>5 DEF Before, Good, ElectionInv, ElectionTypes
    <3>8. rf[i].commitIndex \in Nat /\ s.commitIndex >= rf[i].commitIndex
      BY <2>5, <3>5, PeerFacts DEF Still, Recorded
    <3>9. PeerShape(i)
      <4>1. CASE Still(rf[i], s)
        BY <3>5, <3>7, <4>1 DEF PeerShape
      <4>2. CASE ok /\ reply.success /\ c.args.term = rf[i].currentTerm /\ Recorded(rf[i], s, i, c.to, last)
        <5>1. last \in Nat /\ LastSlot(c.args) = last + 1
          BY <3>2, <3>4, <4>2 DEF ArgsOK, LastSlot
        <5>2. ASSUME NEW n \in Nat, last >= n PROVE AckedBy(c, c.to, rf[i].currentTerm, n + 1)
          BY <1>4, <4>2, <5>1, <5>2 DEF AckedBy
        <5>3. \A v \in Server \ {i} :
                \/ rf'[i].matchIndex[v] = rf[i].matchIndex[v]
                \/ \E d \in Appends : AckedBy(d, v, rf[i].currentTerm, rf'[i].matchIndex[v] + 1)
          BY <3>1, <3>7, <4>2, <5>1, <5>2 DEF Recorded
        <5>4. rf'[i].commitIndex = rf[i].commitIndex \/ Decides(i)
          <6>1. CASE s.commitIndex = rf[i].commitIndex
            BY <3>7, <6>1
          <6>2. CASE s.commitIndex # rf[i].commitIndex
            <7>1. PICK k \in Nat : k = s.commitIndex
              BY <3>5
            <7>2. k > rf[i].commitIndex /\ k < Len(rf[i].log) /\ rf[i].log[k + 1].term = rf[i].currentTerm
              BY <4>2, <6>2, <7>1 DEF Recorded
            <7>3. PICK Q \in SUBSET Server :
                    /\ Commits(Q)
                    /\ \A v \in Q : v = i \/ rf[i].matchIndex[v] >= k \/ (v = c.to /\ last >= k)
              BY <4>2, <6>2, <7>1 DEF Recorded
            <7>4. (k + 1) - 1 = k
              BY <7>1
            <7>5. \A v \in Q : Acked(v, i, k + 1)
              BY <3>1, <5>2, <7>3, <7>4 DEF Acked
            <7> QED
              BY <3>7, <7>1, <7>2, <7>3, <7>5 DEF Decides
          <6> QED
            BY <6>1, <6>2
        <5>5. Told(i)
          BY <3>5, <3>7, <4>2, <5>3, <5>4 DEF Told, Recorded
        <5> QED
          BY <3>5, <3>7, <5>5 DEF PeerShape
      <4> QED
        BY <3>5, <4>1, <4>2
    <3>10. (\A j \in Server : PeerShape(j)) /\ \A j \in Server \ {i} : rf'[j] = rf[j]
      BY <2>3, <2>5, <3>9, OneShape
    <3>11. \A j \in Server : Calm(rf[j], rf'[j])
      BY <3>6, <3>7, <3>10, PeerFacts, ReplicationCalm
    <3>12. Onward(rf[i], rf'[i])
      BY <3>5, <3>7, <3>8 DEF Onward
    <3>13. \A j \in Server : Onward(rf[j], rf'[j])
      BY <3>10, <3>12, IdlePeer
    <3> QED
      BY <1>2, <3>10, <3>11, <3>13, FewerStep DEF Steady
  <2> QED
    BY <2>4, <2>5
<1>5. CASE AppendEntriesReturns(c)
  <2>1. c.rpc = "AppendEntries" /\ c.reply # None
        /\ rf' = [rf EXCEPT ![c.from] =
                    sendAndHandle(rf[c.from], c.from, c.to, c.args, c.latest, TRUE, c.reply)]
    BY <1>5, Zenon DEF AppendEntriesReturns
  <2> QED
    BY <1>4, <2>1
<1>6. CASE CallFails(c)
  <2>1. \/ UNCHANGED rf
        \/ c.rpc = "AppendEntries" /\
           rf' = [rf EXCEPT ![c.from] =
                    sendAndHandle(rf[c.from], c.from, c.to, c.args, c.latest, FALSE, None)]
    BY <1>6, Zenon DEF CallFails
  <2> QED
    BY <1>3, <1>4, <2>1
<1> QED
  BY <1>5, <1>6

LEMMA HandleAppendShape ==
    ASSUME Before, NEW c \in calls, HandleAppendEntries(c)
    PROVE  StepShape /\ Steady
<1>1. PICK i \in Server : i = c.to
  BY CallFacts
<1>2. PICK args : args = c.args
  OBVIOUS
<1>3. PICK h : h = AppendEntries(rf[i], args)
  OBVIOUS
<1>4. /\ c.rpc = "AppendEntries" /\ c.reply = None /\ rf' = [rf EXCEPT ![i] = h.rf]
      /\ calls' = Replied(c, h.reply) /\ UNCHANGED <<batch, srv>>
  BY <1>1, <1>2, <1>3, Zenon DEF HandleAppendEntries
<1>5. /\ c \in Appends /\ ArgsOK(args) /\ args.leaderCommit \in Nat /\ args.term \in Nat
      /\ DOMAIN c = CallFields /\ CallOK(c)
  BY <1>2, <1>4, CallFacts DEF CallOK
<1>6. /\ Conflicts(args, h.reply)
      /\ h.rf.matchIndex = rf[i].matchIndex /\ h.rf.nextIndex = rf[i].nextIndex
      /\ Unmoved(rf[i], h.rf)
      /\ \/ /\ ~h.reply.success /\ h.rf.log = rf[i].log /\ h.rf.commitIndex = rf[i].commitIndex
            /\ h.rf.state = "LEADER" => rf[i].state = "LEADER" /\ h.rf.currentTerm = rf[i].currentTerm
         \/ /\ Accepts(rf[i], h.rf, args) /\ h.rf.commitIndex \in Nat
            /\ h.rf.state = "FOLLOWER" \/ (rf[i].state = "LEADER" /\ args.term = rf[i].currentTerm)
  BY <1>3, <1>5, PeerFacts, AppendResult
<1>7. ~(rf[i].state = "LEADER" /\ args.term = rf[i].currentTerm)
  BY <1>1, <1>2, <1>5, AnswerToLeader
<1>8. Calm(rf[i], h.rf)
  BY <1>3, <1>5, PeerFacts, ReplicationCalm
<1>9. rf'[i] = h.rf
  BY <1>4 DEF Before, Good, ElectionInv, ElectionTypes
<1>10. rf[i].commitIndex \in Nat /\ (rf[i].state = "LEADER" => IndexOK(rf[i], i))
  BY PeerFacts
<1>11. /\ PeerShape(i) /\ rf'[i].commitIndex >= rf[i].commitIndex
       /\ h.reply.success => Follows(i) /\ Accepts(rf[i], rf'[i], args)
  <2>1. CASE ~h.reply.success /\ h.rf.log = rf[i].log /\ h.rf.commitIndex = rf[i].commitIndex
             /\ (h.rf.state = "LEADER" => rf[i].state = "LEADER" /\ h.rf.currentTerm = rf[i].currentTerm)
    <3>1. Still(rf[i], rf'[i])
      BY <1>6, <1>9, <2>1 DEF Still
    <3>2. rf'[i].state = "LEADER" => IndexOK(rf'[i], i)
      BY <1>6, <1>9, <1>10, <2>1 DEF IndexOK
    <3> QED
      BY <1>9, <1>10, <2>1, <3>1, <3>2 DEF PeerShape
  <2>2. CASE Accepts(rf[i], h.rf, args) /\ h.rf.commitIndex \in Nat /\ h.rf.state = "FOLLOWER"
    <3>1. Follows(i) /\ Accepts(rf[i], rf'[i], args)
      BY <1>1, <1>2, <1>5, <1>9, <2>2 DEF Follows
    <3>2. rf'[i].commitIndex >= rf[i].commitIndex
      BY <1>9, <1>10, <2>2 DEF Accepts
    <3> QED
      BY <1>9, <2>2, <3>1, <3>2 DEF PeerShape
  <2> QED
    BY <1>6, <1>7, <2>1, <2>2
<1>12. (\A j \in Server : PeerShape(j)) /\ \A j \in Server \ {i} : rf'[j] = rf[j]
  BY <1>4, <1>11, OneShape
<1>13. \A j \in Server : Calm(rf[j], rf'[j])
  BY <1>8, <1>9, <1>12, PeerFacts, ReplicationCalm
<1>14. \A j \in Server : Onward(rf[j], rf'[j])
  BY <1>6, <1>9, <1>11, <1>12, IdlePeer DEF Onward
<1>15. PICK a : a = [c EXCEPT !.reply = h.reply, !.pending = "no"]
  OBVIOUS
<1>16. a.rpc = c.rpc /\ a.to = c.to /\ a.args = c.args /\ a.reply = h.reply /\ a.pending = "no"
  BY <1>5, <1>15 DEF CallFields
<1>17. \A d \in calls' : d \in calls \/ d = a
  BY <1>4, <1>15 DEF Replied
<1>18. AppendShape(a)
  <2>1. Answered(a, c)
    BY <1>1, <1>2, <1>4, <1>6, <1>11, <1>16 DEF Answered
  <2> QED
    BY <1>5, <1>16, <2>1 DEF AppendShape
<1>19. \A d \in Appends' : AppendShape(d)
  <2>1. \A d \in Appends : AppendShape(d)
    BY DEF AppendShape
  <2> QED
    BY <1>17, <1>18, <2>1 DEF Appends
<1>20. \A d \in Votes' : VoteShape(d)
  BY <1>4, <1>16, <1>17 DEF Votes, VoteShape
<1>21. Plain'
  BY <1>4, <1>16, <1>17, CallFacts DEF Plain
<1>22. \A v, k, t : GrantOnItsWay(v, k, t)' => GrantOnItsWay(v, k, t)
  BY <1>4, <1>16, <1>17 DEF GrantOnItsWay
<1>23. \A j \in Server : GrantShape(j)
  BY <1>13, <1>22, CalmGrants
<1> QED
  BY <1>4, <1>12, <1>14, <1>19, <1>20, <1>21, <1>23 DEF StepShape, Steady

LEMMA ClientStartShape ==
    ASSUME Before, NEW i \in Server, NEW command \in Command, ClientStart(i, command)
    PROVE  StepShape /\ Steady
<1>1. PICK r : r = rf[i]
  OBVIOUS
<1>2. PICK e : e = [term |-> r.currentTerm, command |-> command]
  OBVIOUS
<1>3. PICK s : s = [r EXCEPT !.log = Append(r.log, e), !.matchIndex[i] = LogEnd(r), !.dirty = TRUE]
  OBVIOUS
<1>4. /\ r.state = "LEADER" /\ rf' = [rf EXCEPT ![i] = s] /\ UNCHANGED <<calls, batch, srv>>
  <2>1. s = Start(r, i, command)
    BY <1>2, <1>3 DEF Start
  <2> QED
    BY <1>1, <2>1 DEF ClientStart
<1>5. PeerOK(r) /\ LogOK(r) /\ r.snapshotIndex = 0 /\ r.commitIndex \in Nat /\ IndexOK(r, i)
  BY <1>1, <1>4, PeerFacts
<1>6. PICK L \in Seq(Entry) : L = r.log
  BY <1>5 DEF LogOK
<1>7. e \in Entry
  BY <1>2, <1>5 DEF Entry, PeerOK
<1>8. /\ s.log = Append(L, e) /\ s.commitIndex = r.commitIndex /\ s.state = r.state
      /\ s.currentTerm = r.currentTerm /\ s.nextIndex = r.nextIndex
      /\ s.matchIndex = [r.matchIndex EXCEPT ![i] = LogEnd(r)] /\ Unmoved(r, s)
  BY <1>3, <1>5, <1>6 DEF PeerOK, PeerFields, Unmoved
<1>9. /\ Len(Append(L, e)) = Len(L) + 1 /\ Append(L, e)[Len(L) + 1] = e /\ Len(L) \in Nat
      /\ \A n \in 1 .. Len(L) : Append(L, e)[n] = L[n]
  BY <1>7
<1>10. e.term = r.currentTerm
  BY <1>2
<1>11. LogEnd(r) = Len(L)
  BY <1>5, <1>6, <1>9 DEF LogEnd
<1>12. s.matchIndex[i] = Len(L) /\ \A v \in Server \ {i} : s.matchIndex[v] = r.matchIndex[v]
  BY <1>5, <1>8, <1>11 DEF LogOK
<1>13. Extended(r, s, i)
  BY <1>4, <1>6, <1>8, <1>9, <1>10, <1>12 DEF Extended, Leads, EndTerm
<1>14. IndexOK(s, i)
  <2> SUFFICES ASSUME NEW j \in Server
               PROVE  /\ s.matchIndex[j] >= 0 /\ s.matchIndex[j] < Len(s.log)
                      /\ j # i => s.nextIndex[j] <= Len(s.log) /\ s.matchIndex[j] < s.nextIndex[j]
    BY DEF IndexOK
  <2>1. Len(s.log) = Len(L) + 1
    BY <1>8, <1>9
  <2>2. CASE j = i
    BY <1>9, <1>12, <2>1, <2>2
  <2>3. CASE j # i
    <3>1. /\ r.matchIndex[j] >= 0 /\ r.matchIndex[j] < Len(L) /\ r.matchIndex[j] \in Int
          /\ r.nextIndex[j] <= Len(L) /\ r.matchIndex[j] < r.nextIndex[j] /\ r.nextIndex[j] \in Int
      BY <1>5, <1>6, <2>3 DEF IndexOK, LogOK
    <3> QED
      BY <1>8, <1>9, <1>12, <2>1, <2>3, <3>1
  <2> QED
    BY <2>2, <2>3
<1>15. rf'[i] = s => PeerShape(i)
  BY <1>1, <1>5, <1>8, <1>13, <1>14 DEF PeerShape
<1>16. /\ \A j \in Server : PeerShape(j)
       /\ rf'[i] = s /\ \A j \in Server \ {i} : rf'[j] = rf[j]
  BY <1>4, <1>15, OneShape
<1>17. Calm(rf[i], s)
  <2>1. s = Start(rf[i], i, command)
    BY <1>1, <1>2, <1>3 DEF Start
  <2> QED
    BY <1>1, <1>5, <2>1, ReplicationCalm
<1>18. \A j \in Server : Calm(rf[j], rf'[j])
  BY <1>16, <1>17, PeerFacts, ReplicationCalm
<1>19. \A j \in Server : Onward(rf[j], rf'[j])
  BY <1>1, <1>5, <1>8, <1>16, IdlePeer DEF Onward
<1>20. Fewer
  BY <1>4, CallFacts DEF Fewer, Same
<1> QED
  BY <1>4, <1>16, <1>18, <1>19, <1>20, FewerStep DEF Steady

LEMMA SentIsPart ==
    ASSUME NEW r, LogOK(r), r.snapshotIndex = 0, NEW j \in Server,
           r.nextIndex[j] >= 1, r.nextIndex[j] <= Len(r.log)
    PROVE  LET args == AppendEntriesArgs(r, j)
           IN PartOf(args, r.log) /\ args.term = r.currentTerm /\ args.leaderCommit = r.commitIndex
<1>1. PICK args : args = AppendEntriesArgs(r, j)
  OBVIOUS
<1>2. PICK prev \in Nat : prev = r.nextIndex[j] - 1
  BY DEF LogOK
<1>3. PICK L \in Seq(Entry) : L = r.log
  BY DEF LogOK
<1>4. r.nextIndex[j] > 0
  BY DEF LogOK
<1>5. /\ args.term = r.currentTerm /\ args.leaderCommit = r.commitIndex
      /\ args.prevLogIndex = prev /\ args.prevLogTerm = L[prev + 1].term
      /\ args.entries \in Seq(Entry)
      /\ \A k \in 1 .. Len(args.entries) : prev + k < Len(L) /\ args.entries[k] = L[prev + k + 1]
  BY <1>1, <1>2, <1>3, <1>4, SentEntries
<1>6. PICK E \in Seq(Entry) : E = args.entries
  BY <1>5
<1>7. Len(E) \in Nat /\ Len(L) \in Nat /\ prev + 1 <= Len(L)
  <2>1. r.nextIndex[j] \in Int /\ Len(L) \in Nat /\ r.nextIndex[j] <= Len(L)
    BY <1>3 DEF LogOK
  <2> QED
    BY <1>2, <2>1
<1>8. FirstSlot(args) = prev + 1 /\ LastSlot(args) = prev + 1 + Len(E)
  BY <1>5, <1>6 DEF FirstSlot, LastSlot
<1>9. prev + 1 + Len(E) <= Len(L)
  <2>1. CASE Len(E) = 0
    BY <1>7, <2>1
  <2>2. CASE Len(E) # 0
    <3>1. Len(E) \in 1 .. Len(E)
      BY <1>7, <2>2
    <3>2. prev + Len(E) < Len(L)
      BY <1>5, <1>6, <3>1
    <3> QED
      BY <1>7, <3>2
  <2> QED
    BY <2>1, <2>2
<1>10. ASSUME NEW n \in prev + 1 .. prev + 1 + Len(E) PROVE TermAt(args, n) = L[n].term
  <2>1. CASE n = prev + 1
    BY <1>5, <1>8, <2>1 DEF TermAt
  <2>2. CASE n # prev + 1
    <3>1. n - (prev + 1) \in 1 .. Len(E) /\ prev + (n - (prev + 1)) + 1 = n
      BY <1>7, <2>2, SMTT(30)
    <3>2. E[n - (prev + 1)] = L[n]
      BY <1>5, <1>6, <3>1
    <3> QED
      BY <1>6, <1>8, <2>2, <3>2 DEF TermAt
  <2> QED
    BY <2>1, <2>2
<1> QED
  BY <1>1, <1>3, <1>5, <1>8, <1>9, <1>10 DEF PartOf

LEMMA SendAppendShape ==
    ASSUME Before, NEW i \in Server, NEW j \in Server, SendAppendEntries(i, j)
    PROVE  StepShape /\ Steady
<1>1. PICK r : r = rf[i]
  OBVIOUS
<1>2. PICK new : new = Call("AppendEntries", i, j, AppendEntriesArgs(r, j))
  OBVIOUS
<1>3. PICK s : s = [r EXCEPT !.inFlight[j] = TRUE]
  OBVIOUS
<1>4. /\ i # j /\ r.state = "LEADER" /\ UNCHANGED <<batch, srv>>
      /\ rf' = [rf EXCEPT ![i].inFlight[j] = TRUE]
      /\ \A d \in calls' : \/ d \in calls \/ d = new
                           \/ \E c \in calls : d = [c EXCEPT !.latest = FALSE]
  BY <1>1, <1>2 DEF SendAppendEntries, MaySend, InFlight
<1>5. rf' = [rf EXCEPT ![i] = s]
  <2>1. [rf EXCEPT ![i].inFlight[j] = TRUE] = [rf EXCEPT ![i] = [rf[i] EXCEPT !.inFlight[j] = TRUE]]
    BY Zenon
  <2> QED
    BY <1>1, <1>3, <1>4, <2>1
<1>6. PeerOK(r) /\ LogOK(r) /\ r.snapshotIndex = 0 /\ r.commitIndex \in Nat /\ IndexOK(r, i)
  BY <1>1, <1>4, PeerFacts
<1>7. /\ s.log = r.log /\ s.commitIndex = r.commitIndex /\ s.state = r.state
      /\ s.currentTerm = r.currentTerm /\ s.matchIndex = r.matchIndex /\ s.nextIndex = r.nextIndex
      /\ Unmoved(r, s) /\ Calm(r, s)
  BY <1>3, <1>6 DEF PeerOK, PeerFields, Unmoved, Calm
<1>8. Still(r, s) /\ IndexOK(s, i)
  BY <1>6, <1>7, FieldsStill
<1>9. /\ \A k \in Server : PeerShape(k)
      /\ rf'[i] = s /\ \A k \in Server \ {i} : rf'[k] = rf[k]
  BY <1>1, <1>5, <1>6, <1>7, <1>8, OneShape, ZenonT(60) DEF PeerShape
<1>10. \A k \in Server : Calm(rf[k], rf'[k])
  BY <1>1, <1>7, <1>9, PeerFacts, ReplicationCalm
<1>11. \A k \in Server : Onward(rf[k], rf'[k])
  BY <1>1, <1>6, <1>7, <1>9, IdlePeer DEF Onward
<1>12. PICK args : args = AppendEntriesArgs(r, j)
  OBVIOUS
<1>13. /\ new.rpc = "AppendEntries" /\ new.args = args /\ new.reply = None /\ new.pending = "no"
  BY <1>2, <1>12 DEF Call
<1>14. r.nextIndex[j] >= 1 /\ r.nextIndex[j] <= Len(r.log)
  <2>1. r.nextIndex[j] \in Int /\ r.matchIndex[j] \in Int
    BY <1>6 DEF LogOK
  <2>2. r.matchIndex[j] >= 0 /\ r.nextIndex[j] <= Len(r.log) /\ r.matchIndex[j] < r.nextIndex[j]
    BY <1>4, <1>6 DEF IndexOK
  <2> QED
    BY <2>1, <2>2
<1>15. PartOf(args, r.log) /\ args.term = r.currentTerm /\ args.leaderCommit = r.commitIndex
  BY <1>6, <1>12, <1>14, SentIsPart
<1>16. Sent(new, i)
  BY <1>1, <1>4, <1>7, <1>9, <1>13, <1>15 DEF Sent, Leads
<1>17. ASSUME NEW c \in calls, NEW d, d = [c EXCEPT !.latest = FALSE]
       PROVE  d.rpc = c.rpc /\ Same(d, c) /\ d.pending = "no"
  BY <1>17, CallFacts DEF CallFields, Same
<1>18. \A d \in calls' : d = new \/ \E c \in calls : d.rpc = c.rpc /\ Same(d, c) /\ d.pending = "no"
  BY <1>4, <1>17, CallFacts DEF Same
<1>19. \A d \in Appends' : AppendShape(d)
  BY <1>16, <1>18 DEF Appends, AppendShape, Same
<1>20. \A d \in Votes' : VoteShape(d)
  BY <1>13, <1>18 DEF Votes, VoteShape, Same
<1>21. Plain'
  BY <1>13, <1>18, CallFacts DEF Plain
<1>22. \A v, k, t : GrantOnItsWay(v, k, t)' => GrantOnItsWay(v, k, t)
  BY <1>13, <1>18 DEF GrantOnItsWay, Same
<1>23. \A k \in Server : GrantShape(k)
  BY <1>10, <1>22, CalmGrants
<1> QED
  BY <1>4, <1>9, <1>11, <1>19, <1>20, <1>21, <1>23 DEF StepShape, Steady

LEMMA AttemptShape ==
    ASSUME Before, NEW i \in Server, attemptElection(i)
    PROVE  StepShape /\ Steady
<1>1. PICK r : r = rf[i]
  OBVIOUS
<1>2. PICK s : s = startElectionState(r, i)
  OBVIOUS
<1>3. /\ rf' = [rf EXCEPT ![i] = s] /\ UNCHANGED <<batch, srv>>
      /\ \A d \in calls' : \/ d \in calls
                           \/ \E j \in Server : d = Call("RequestVote", i, j, RequestVoteArgs(s, i))
  BY <1>1, <1>2 DEF attemptElection
<1>4. PeerOK(r) /\ LogOK(r) /\ r.snapshotIndex = 0 /\ r.commitIndex \in Nat
  BY <1>1, PeerFacts
<1>5. /\ s.log = r.log /\ s.commitIndex = r.commitIndex /\ s.state = "CANDIDATE"
      /\ s.currentTerm = r.currentTerm + 1 /\ s.votes = {i} /\ Unmoved(r, s)
  BY <1>2, <1>4 DEF startElectionState, PeerOK, PeerFields, Unmoved
<1>6. Still(r, s)
  BY <1>5 DEF Still
<1>7. /\ \A k \in Server : PeerShape(k)
      /\ rf'[i] = s /\ \A k \in Server \ {i} : rf'[k] = rf[k]
  BY <1>1, <1>3, <1>4, <1>5, <1>6, OneShape DEF PeerShape
<1>8. \A k \in Server : Onward(rf[k], rf'[k])
  BY <1>1, <1>4, <1>5, <1>7, IdlePeer DEF Onward
<1>9. PICK args : args = RequestVoteArgs(s, i)
  OBVIOUS
<1>10. /\ args.candidateId = i /\ args.term = s.currentTerm
       /\ args.lastLogIndex = Len(s.log) - 1 /\ args.lastLogTerm = EndTerm(s.log)
  <2>1. s.snapshotIndex = 0 /\ Len(s.log) \in Nat
    BY <1>4, <1>5 DEF Unmoved, LogOK
  <2>2. LastIndex(s) = Len(s.log) - 1
    BY <2>1 DEF LastIndex, LogEnd
  <2> QED
    BY <1>9, <2>2 DEF RequestVoteArgs, LastTerm, EndTerm
<1>11. \A d \in calls' : d \in calls \/ (/\ d.rpc = "RequestVote" /\ d.args = args
                                         /\ d.reply = None /\ d.pending = "no")
  BY <1>3, <1>9 DEF Call
<1>12. \A d \in Appends' : AppendShape(d)
  BY <1>11 DEF Appends, AppendShape
<1>13. \A d \in Votes' : VoteShape(d)
  BY <1>7, <1>10, <1>11 DEF Votes, VoteShape
<1>14. Plain'
  BY <1>11, CallFacts DEF Plain
<1>15. \A v, k, t : GrantOnItsWay(v, k, t)' => GrantOnItsWay(v, k, t)
  BY <1>11 DEF GrantOnItsWay
<1>16. ASSUME NEW k \in Server PROVE GrantShape(k)
  <2>1. CASE k # i
    <3>1. Calm(rf[k], rf'[k])
      BY <1>7, <2>1, PeerFacts, ReplicationCalm
    <3> QED
      BY <1>15, <3>1, CalmGrants
  <2>2. CASE k = i
    <3> SUFFICES ASSUME NEW v \in Server, Granted(v, i, rf[i].currentTerm)'
                 PROVE  AsRecent(rf[i].log, rf[v].log)
      BY <2>2 DEF GrantShape
    <3>1. PICK t \in Nat : t = r.currentTerm + 1 /\ t = rf'[i].currentTerm
      BY <1>4, <1>5, <1>7 DEF PeerOK
    <3>2. ~GrantOnItsWay(v, i, t)
      <4> SUFFICES ASSUME NEW c \in calls, c.rpc = "RequestVote", c.args.candidateId = i, c.args.term = t
                   PROVE  FALSE
        BY DEF GrantOnItsWay
      <4>1. BallotOK(c.args)
        BY CallFacts
      <4>2. t <= r.currentTerm
        BY <1>1, <4>1 DEF BallotOK
      <4> QED
        BY <1>4, <3>1, <4>2 DEF PeerOK
    <3>3. ~GrantOnItsWay(v, i, rf[i].currentTerm)'
      BY <1>15, <3>1, <3>2 DEF GrantOnItsWay
    <3>4. v = i
      BY <1>5, <1>7, <3>3 DEF Granted, GrantCounted
    <3> QED
      BY <3>4 DEF AsRecent
  <2> QED
    BY <2>1, <2>2
<1> QED
  BY <1>3, <1>7, <1>8, <1>12, <1>13, <1>14, <1>16 DEF StepShape, Steady

LEMMA RequestVoteResult ==
    ASSUME NEW r, PeerOK(r), NEW args, args.term \in Nat, args.candidateId \in Server
    PROVE  LET h == RequestVote(r, args)
           IN /\ h.rf.log = r.log /\ h.rf.commitIndex = r.commitIndex
              /\ h.rf.matchIndex = r.matchIndex /\ h.rf.nextIndex = r.nextIndex /\ Unmoved(r, h.rf)
              /\ h.rf.state = "FOLLOWER" \/ (h.rf.state = r.state /\ h.rf.votes = r.votes
                                               /\ h.rf.currentTerm = r.currentTerm)
              /\ h.reply.voteGranted => upToDate(r, args)
<1>1. PICK h : h = RequestVote(r, args)
  OBVIOUS
<1>2. h.rf.state = "FOLLOWER" \/ (h.rf.state = r.state /\ h.rf.votes = r.votes
                                     /\ h.rf.currentTerm = r.currentTerm)
  BY <1>1, RequestVoteOutcome DEF Calm
<1>3. PICK s : s = IF args.term > r.currentTerm THEN stepDownToFollower(r, args.term) ELSE r
  OBVIOUS
<1>4. s \in {r, [r EXCEPT !.currentTerm = args.term, !.votedFor = None, !.dirty = TRUE, !.state = "FOLLOWER"]}
  BY <1>3, Zenon DEF stepDownToFollower
<1>5. /\ DOMAIN s = PeerFields /\ s.log = r.log /\ s.commitIndex = r.commitIndex
      /\ s.matchIndex = r.matchIndex /\ s.nextIndex = r.nextIndex /\ Unmoved(r, s)
  BY <1>4, ZenonT(60) DEF PeerOK, PeerFields, Unmoved
<1>6. h.rf = s \/ h.rf = [s EXCEPT !.votedFor = args.candidateId, !.dirty = TRUE]
  BY <1>1, <1>3, Zenon DEF RequestVote
<1>7. /\ h.rf.log = s.log /\ h.rf.commitIndex = s.commitIndex
      /\ h.rf.matchIndex = s.matchIndex /\ h.rf.nextIndex = s.nextIndex /\ Unmoved(s, h.rf)
  BY <1>5, <1>6 DEF PeerFields, Unmoved
<1>8. h.reply.voteGranted => upToDate(r, args)
  BY <1>1, Zenon DEF RequestVote
<1> QED
  BY <1>1, <1>2, <1>5, <1>7, <1>8 DEF Unmoved

LEMMA HandleVoteShape ==
    ASSUME Before, NEW c \in calls, HandleRequestVote(c)
    PROVE  StepShape /\ Steady
<1>1. PICK v \in Server : v = c.to
  BY CallFacts
<1>2. PICK args : args = c.args
  OBVIOUS
<1>3. PICK h : h = RequestVote(rf[v], args)
  OBVIOUS
<1>4. /\ c.rpc = "RequestVote" /\ c.reply = None /\ rf' = [rf EXCEPT ![v] = h.rf]
      /\ calls' = Replied(c, h.reply) /\ UNCHANGED <<batch, srv>>
  BY <1>1, <1>2, <1>3, Zenon DEF HandleRequestVote
<1>5. /\ c \in Votes /\ BallotOK(args) /\ args.term \in Nat /\ args.candidateId \in Server
      /\ DOMAIN c = CallFields
  BY <1>2, <1>4, CallFacts DEF CallOK, Asks
<1>6. /\ PeerOK(rf[v]) /\ LogOK(rf[v]) /\ rf[v].snapshotIndex = 0 /\ rf[v].commitIndex \in Nat
      /\ rf[v].state = "LEADER" => IndexOK(rf[v], v)
  BY PeerFacts
<1>7. /\ h.rf.log = rf[v].log /\ h.rf.commitIndex = rf[v].commitIndex
      /\ h.rf.matchIndex = rf[v].matchIndex /\ h.rf.nextIndex = rf[v].nextIndex /\ Unmoved(rf[v], h.rf)
      /\ h.rf.state = "FOLLOWER" \/ (h.rf.state = rf[v].state /\ h.rf.votes = rf[v].votes
                                       /\ h.rf.currentTerm = rf[v].currentTerm)
      /\ h.reply.voteGranted => upToDate(rf[v], args)
  BY <1>3, <1>5, <1>6, RequestVoteResult
<1>8. Still(rf[v], h.rf) /\ (h.rf.state = "LEADER" => IndexOK(h.rf, v))
  BY <1>6, <1>7 DEF Still, IndexOK
<1>9. /\ \A k \in Server : PeerShape(k)
      /\ rf'[v] = h.rf /\ \A k \in Server \ {v} : rf'[k] = rf[k]
  BY <1>4, <1>6, <1>7, <1>8, OneShape DEF PeerShape
<1>10. \A k \in Server : Onward(rf[k], rf'[k])
  BY <1>6, <1>7, <1>9, IdlePeer DEF Onward
<1>11. PICK a : a = [c EXCEPT !.reply = h.reply, !.pending = "no"]
  OBVIOUS
<1>12. a.rpc = c.rpc /\ a.to = c.to /\ a.args = c.args /\ a.reply = h.reply /\ a.pending = "no"
  BY <1>5, <1>11 DEF CallFields
<1>13. \A d \in calls' : d \in calls \/ d = a
  BY <1>4, <1>11 DEF Replied
<1>14. \A d \in Appends' : AppendShape(d)
  BY <1>4, <1>12, <1>13 DEF Appends, AppendShape
<1>15. \A d \in Votes' : VoteShape(d)
  BY <1>5, <1>12, <1>13 DEF Votes, VoteShape
<1>16. Plain'
  BY <1>4, <1>12, <1>13, CallFacts DEF Plain
<1>17. ASSUME NEW k \in Server PROVE GrantShape(k)
  <2> SUFFICES ASSUME rf'[k].state = "CANDIDATE", NEW w \in Server, Granted(w, k, rf[k].currentTerm)'
               PROVE  \/ /\ rf[k].state = "CANDIDATE" /\ rf[k].currentTerm = rf'[k].currentTerm
                         /\ Granted(w, k, rf[k].currentTerm)
                      \/ AsRecent(rf[k].log, rf[w].log)
    BY DEF GrantShape
  <2>1. /\ rf[k].state = "CANDIDATE" /\ rf[k].currentTerm = rf'[k].currentTerm
        /\ rf'[k].votes = rf[k].votes
    BY <1>7, <1>9
  <2>2. CASE GrantCounted(w, k, rf[k].currentTerm)'
    BY <2>1, <2>2 DEF Granted, GrantCounted
  <2>3. CASE GrantOnItsWay(w, k, rf[k].currentTerm)'
    <3>1. PICK d \in calls' :
            /\ d.rpc = "RequestVote" /\ d.args.candidateId = k /\ d.args.term = rf[k].currentTerm
            /\ d.to = w /\ d.reply # None /\ d.reply.voteGranted
      BY <2>1, <2>3 DEF GrantOnItsWay
    <3>2. CASE d \in calls
      BY <2>1, <3>1, <3>2 DEF Granted, GrantOnItsWay
    <3>3. CASE d = a
      <4>1. h.reply.voteGranted /\ w = v /\ args.candidateId = k /\ args.term = rf[k].currentTerm
        BY <1>1, <1>2, <1>12, <3>1, <3>3
      <4>2. args.lastLogIndex = Len(rf[k].log) - 1 /\ args.lastLogTerm = EndTerm(rf[k].log)
        BY <1>5, <2>1, <4>1 DEF BallotOK
      <4>3. upToDate(rf[v], args)
        BY <1>7, <4>1
      <4>4. LastIndex(rf[v]) = Len(rf[v].log) - 1 /\ Len(rf[v].log) \in Nat /\ Len(rf[k].log) \in Nat
        BY <1>6, PeerFacts DEF LastIndex, LogEnd, LogOK
      <4>5. LastTerm(rf[v]) = EndTerm(rf[v].log)
        BY DEF LastTerm, EndTerm
      <4> QED
        BY <4>1, <4>2, <4>3, <4>4, <4>5 DEF upToDate, AsRecent
    <3> QED
      BY <1>13, <3>2, <3>3
  <2> QED
    BY <2>2, <2>3 DEF Granted
<1> QED
  BY <1>4, <1>9, <1>10, <1>14, <1>15, <1>16, <1>17 DEF StepShape, Steady

\* A new leader knows nothing of the logs of the others.
LEMMA BecomeResult ==
    ASSUME NEW r, PeerOK(r), LogOK(r), r.snapshotIndex = 0, NEW me \in Server
    PROVE  LET b == becomeLeader(r, me)
           IN /\ b.log = r.log /\ b.commitIndex = r.commitIndex /\ b.currentTerm = r.currentTerm
              /\ b.votes = r.votes /\ b.state = "LEADER" /\ Unmoved(r, b) /\ IndexOK(b, me)
<1>1. PICK n : n = [s \in Server |-> IF s = me THEN r.nextIndex[s] ELSE LogEnd(r)]
  OBVIOUS
<1>2. PICK m : m = [s \in Server |-> IF s = me THEN LastIndex(r) ELSE 0]
  OBVIOUS
<1>3. PICK f : f = [s \in Server |-> IF s = me THEN r.inFlight[s] ELSE FALSE]
  OBVIOUS
<1>4. PICK b : b = [r EXCEPT !.state = "LEADER", !.nextIndex = n, !.matchIndex = m, !.inFlight = f]
  OBVIOUS
<1>5. becomeLeader(r, me) = b
  BY <1>1, <1>2, <1>3, <1>4, Zenon DEF becomeLeader
<1>6. /\ b.log = r.log /\ b.commitIndex = r.commitIndex /\ b.currentTerm = r.currentTerm
      /\ b.votes = r.votes /\ b.state = "LEADER" /\ Unmoved(r, b)
      /\ b.nextIndex = n /\ b.matchIndex = m
  BY <1>4 DEF PeerOK, PeerFields, Unmoved
<1>7. Len(r.log) \in Nat /\ Len(r.log) >= 1 /\ LogEnd(r) = Len(r.log) /\ LastIndex(r) = Len(r.log) - 1
  BY DEF LogOK, LastIndex, LogEnd
<1>8. IndexOK(b, me)
  BY <1>1, <1>2, <1>6, <1>7 DEF IndexOK
<1> QED
  BY <1>5, <1>6, <1>8

LEMMA CountVoteShape ==
    ASSUME Before, NEW c \in calls, CountVote(c)
    PROVE  StepShape /\ Steady
<1>1. /\ CallOK(c) /\ Asks(c) /\ c.to \in Server /\ c.rpc = "RequestVote" /\ c.reply # None
  BY CallFacts DEF CountVote
<1>2. PICK i \in Server : i = c.from /\ i = c.args.candidateId
  BY <1>1 DEF CallOK, Asks
<1>3. PICK r : r = rf[i]
  OBVIOUS
<1>4. PICK n : n = handleVoteReply(r, i, c.to, c.args, c.reply)
  OBVIOUS
<1>5. rf' = [rf EXCEPT ![i] = n] /\ calls' = calls \ {c} /\ UNCHANGED <<batch, srv>>
  BY <1>2, <1>3, <1>4, Zenon DEF CountVote
<1>6. /\ PeerOK(r) /\ LogOK(r) /\ r.snapshotIndex = 0 /\ r.commitIndex \in Nat
      /\ r.state = "LEADER" => IndexOK(r, i)
  BY <1>3, PeerFacts
<1>7. PICK counted : counted = IF c.reply.voteGranted THEN r.votes \union {c.to} ELSE r.votes
  OBVIOUS
<1>8. PICK s : s = [r EXCEPT !.votes = counted]
  OBVIOUS
<1>9. \A v \in counted : v \in r.votes \/ (v = c.to /\ c.reply.voteGranted)
  BY <1>7
<1>10. counted \subseteq Server
  BY <1>1, <1>6, <1>9 DEF PeerOK
<1>11. /\ DOMAIN s = PeerFields /\ s.log = r.log /\ s.commitIndex = r.commitIndex /\ s.state = r.state
       /\ s.currentTerm = r.currentTerm /\ s.matchIndex = r.matchIndex /\ s.nextIndex = r.nextIndex
       /\ s.votes = counted /\ Unmoved(r, s) /\ PeerOK(s)
  BY <1>6, <1>8, <1>10 DEF PeerOK, PeerFields, Unmoved
<1>12. LogOK(s) /\ s.snapshotIndex = 0
  BY <1>6, <1>11 DEF LogOK, Unmoved
<1>13. \/ n = r \/ n = stepDownToFollower(r, c.reply.term)
       \/ /\ r.currentTerm = c.args.term /\ r.state = "CANDIDATE"
          /\ n = s \/ n = becomeLeader(s, i)
  BY <1>4, <1>7, <1>8, Zenon DEF handleVoteReply
<1>14. rf'[i] = n
  BY <1>5 DEF Before, Good, ElectionInv, ElectionTypes
<1>15. Fewer
  BY <1>5, CallFacts DEF Fewer, Same
<1>16. ASSUME r.currentTerm = c.args.term, r.state = "CANDIDATE", NEW v \in counted
       PROVE  Granted(v, i, r.currentTerm)
  <2>1. CASE v \in r.votes
    BY <1>3, <1>16, <2>1 DEF Granted, GrantCounted
  <2>2. CASE v = c.to /\ c.reply.voteGranted
    BY <1>1, <1>2, <1>16, <2>2 DEF Granted, GrantOnItsWay
  <2> QED
    BY <1>9, <2>1, <2>2
<1>17. \A v, k, t : GrantOnItsWay(v, k, t)' => GrantOnItsWay(v, k, t)
  BY <1>15, FewerCalls
<1>18. PeerShape(i) /\ Onward(r, n) /\ GrantShape(i)
  <2>1. CASE n = r
    <3>1. Calm(rf[i], rf'[i])
      BY <1>3, <1>6, <1>14, <2>1, ReplicationCalm
    <3> QED
      BY <1>3, <1>14, <1>17, <2>1, <3>1, IdlePeer, CalmGrants
  <2>2. CASE n = stepDownToFollower(r, c.reply.term)
    <3>1. n \in {[r EXCEPT !.currentTerm = c.reply.term, !.votedFor = None, !.dirty = TRUE,
                           !.state = "FOLLOWER"],
                 [r EXCEPT !.state = "FOLLOWER"]}
      BY <2>2, Zenon DEF stepDownToFollower
    <3>2. n.log = r.log /\ n.commitIndex = r.commitIndex /\ n.state = "FOLLOWER" /\ Unmoved(r, n)
      BY <1>6, <3>1, ZenonT(60) DEF PeerOK, PeerFields, Unmoved
    <3> QED
      BY <1>3, <1>6, <1>14, <3>2 DEF PeerShape, Still, Onward, GrantShape
  <2>3. CASE r.currentTerm = c.args.term /\ r.state = "CANDIDATE" /\ n = s
    <3>1. PeerShape(i) /\ Onward(r, n)
      BY <1>3, <1>6, <1>11, <1>14, <2>3 DEF PeerShape, Still, Onward
    <3>2. ASSUME NEW v \in Server, Granted(v, i, rf[i].currentTerm)'
          PROVE  Granted(v, i, rf[i].currentTerm)
      <4>1. rf'[i].currentTerm = rf[i].currentTerm /\ rf'[i].votes = counted
        BY <1>3, <1>11, <1>14, <2>3
      <4>2. CASE GrantOnItsWay(v, i, rf[i].currentTerm)'
        BY <1>17, <4>1, <4>2 DEF Granted, GrantOnItsWay
      <4>3. CASE GrantCounted(v, i, rf[i].currentTerm)'
        <5>1. v \in counted
          BY <4>1, <4>3 DEF GrantCounted
        <5> QED
          BY <1>3, <1>16, <2>3, <5>1
      <4> QED
        BY <3>2, <4>2, <4>3 DEF Granted
    <3> QED
      BY <1>3, <1>11, <1>14, <2>3, <3>1, <3>2 DEF GrantShape
  <2>4. CASE r.currentTerm = c.args.term /\ r.state = "CANDIDATE" /\ n = becomeLeader(s, i)
    <3>1. /\ n.log = s.log /\ n.commitIndex = s.commitIndex /\ n.currentTerm = s.currentTerm
          /\ n.votes = s.votes /\ n.state = "LEADER" /\ Unmoved(s, n) /\ IndexOK(n, i)
      BY <1>11, <1>12, <2>4, BecomeResult
    <3>2. Elected(i)
      BY <1>3, <1>11, <1>14, <1>16, <2>4, <3>1 DEF Elected
    <3> QED
      BY <1>3, <1>6, <1>11, <1>14, <3>1, <3>2 DEF PeerShape, Onward, Unmoved, GrantShape
  <2> QED
    BY <1>13, <2>1, <2>2, <2>3, <2>4
<1>19. (\A k \in Server : PeerShape(k)) /\ \A k \in Server \ {i} : rf'[k] = rf[k]
  BY <1>5, <1>18, OneShape
<1>20. \A k \in Server : GrantShape(k)
  BY <1>17, <1>18, <1>19, PeerFacts, ReplicationCalm, CalmGrants
<1>21. \A k \in Server : Onward(rf[k], rf'[k])
  BY <1>3, <1>14, <1>18, <1>19, IdlePeer
<1> QED
  BY <1>5, <1>15, <1>19, <1>20, <1>21, FewerCalls DEF StepShape, Steady

LEMMA CrashShape ==
    ASSUME CrashesWhenSaved = TRUE, Before, NEW i \in Server, CrashAndRestart(i)
    PROVE  /\ StepShape /\ rf'[i] = Make(encodeState(rf[i]))
           /\ \A j \in Server \ {i} : rf'[j] = rf[j]
<1>1. PICK r : r = rf[i]
  OBVIOUS
<1>2. PICK s : s = Make(encodeState(r))
  OBVIOUS
<1>3. rf' = [rf EXCEPT ![i] = s]
  BY <1>1, <1>2, Zenon DEF CrashAndRestart
<1>4. PeerOK(r) /\ r.snapshotIndex = 0
  BY <1>1, PeerFacts
<1>5. s.log = r.log /\ s.commitIndex = 0 /\ s.state = "FOLLOWER"
  BY <1>2, <1>4 DEF Make, encodeState
<1>6. /\ \A k \in Server : PeerShape(k)
      /\ rf'[i] = s /\ \A k \in Server \ {i} : rf'[k] = rf[k]
  <2>1. rf'[i] = s => PeerShape(i)
    BY <1>1, <1>5 DEF PeerShape, Restarted
  <2> QED
    BY <1>3, <2>1, OneShape
<1>7. Calm(r, s)
  BY <1>2, <1>4 DEF Calm, PeerOK, PeerFields, Make, encodeState
<1>8. \A k \in Server : Calm(rf[k], rf'[k])
  BY <1>1, <1>6, <1>7, PeerFacts, ReplicationCalm
<1>9. ASSUME NEW d \in calls' PROVE \E c \in calls : d.rpc = c.rpc /\ Same(d, c) /\ d.pending = "no"
  <2>1. d \in calls \/ \E c \in calls : d = [c EXCEPT !.from = None]
    BY <1>9 DEF CrashAndRestart
  <2>2. ASSUME NEW c \in calls, d = [c EXCEPT !.from = None]
        PROVE  d.rpc = c.rpc /\ Same(d, c) /\ d.pending = "no"
    BY <2>2, CallFacts DEF CallFields, Same
  <2> QED
    BY <2>1, <2>2, CallFacts DEF Same
<1>10. Fewer
  BY <1>9 DEF Fewer
<1> QED
  BY <1>1, <1>2, <1>6, <1>8, <1>10, FewerStep

\* What a peer, its service and its persister do by themselves.
LEMMA LocalShape ==
    ASSUME Before, NoSnapshot', NEW i \in Server,
           \/ CopyBatch(i) \/ ReceiveCommand(i) \/ FinishBatch(i) \/ TakeSnapshot(i)
           \/ BeginSave(i) \/ EndSave(i)
    PROVE  /\ StepShape
           /\ TakeSnapshot(i) => UNCHANGED rf
<1>1. /\ PeerOK(rf[i]) /\ rf[i].snapshotIndex = 0 /\ rf'[i].snapshotIndex = 0
      /\ rf[i].commitIndex \in Nat /\ rf = [j \in Server |-> rf[j]]
  BY PeerFacts DEF NoSnapshot, Before, Good, ElectionInv, ElectionTypes
<1>2. UNCHANGED calls
  BY DEF CopyBatch, ReceiveCommand, FinishBatch, TakeSnapshot, BeginSave, EndSave
<1>3. ASSUME TakeSnapshot(i) PROVE UNCHANGED rf
  <2>1. PICK index, snapshot : rf' = [rf EXCEPT ![i] = Snapshot(rf[i], index, snapshot)]
    BY <1>3, Zenon DEF TakeSnapshot
  <2>2. PICK r : r = rf[i]
    OBVIOUS
  <2>3. PICK s : s = Snapshot(r, index, snapshot)
    OBVIOUS
  <2>4. s = r \/ (s.snapshotIndex = index /\ ~(index <= r.snapshotIndex))
    <3>1. CASE index <= r.snapshotIndex \/ index > LastIndex(r)
      BY <2>3, <3>1 DEF Snapshot
    <3>2. CASE ~(index <= r.snapshotIndex \/ index > LastIndex(r))
      BY <1>1, <2>2, <2>3, <3>2 DEF Snapshot, PeerOK, PeerFields
    <3> QED
      BY <3>1, <3>2
  <2>5. rf'[i] = s
    BY <1>1, <2>1, <2>2, <2>3
  <2>6. s = r
    BY <1>1, <2>2, <2>4, <2>5
  <2> QED
    BY <1>1, <2>1, <2>2, <2>3, <2>6
<1>4. CASE CopyBatch(i) \/ ReceiveCommand(i) \/ BeginSave(i) \/ TakeSnapshot(i)
  <2>1. UNCHANGED rf
    BY <1>3, <1>4 DEF CopyBatch, ReceiveCommand, BeginSave
  <2> QED
    BY <1>2, <2>1, IdleStep
<1>5. CASE FinishBatch(i)
  <2>1. PICK k : rf' = [rf EXCEPT ![i] = [rf[i] EXCEPT !.lastApplied = k]]
    BY <1>5, Zenon DEF FinishBatch
  <2>2. PICK s : s = [rf[i] EXCEPT !.lastApplied = k]
    OBVIOUS
  <2>3. /\ s.log = rf[i].log /\ s.commitIndex = rf[i].commitIndex /\ s.state = rf[i].state
        /\ s.currentTerm = rf[i].currentTerm /\ s.matchIndex = rf[i].matchIndex
        /\ s.nextIndex = rf[i].nextIndex /\ Calm(rf[i], s)
    BY <1>1, <2>2 DEF PeerOK, PeerFields, Calm
  <2>4. StepShape
    BY <1>2, <2>1, <2>2, <2>3, InnerStep
  <2> QED
    BY <1>3, <2>4
<1>6. CASE EndSave(i)
  <2>1. rf' = [rf EXCEPT ![i] = [rf[i] EXCEPT !.dirty = FALSE]]
    BY <1>6, Zenon DEF EndSave
  <2>2. PICK s : s = [rf[i] EXCEPT !.dirty = FALSE]
    OBVIOUS
  <2>3. /\ s.log = rf[i].log /\ s.commitIndex = rf[i].commitIndex /\ s.state = rf[i].state
        /\ s.currentTerm = rf[i].currentTerm /\ s.matchIndex = rf[i].matchIndex
        /\ s.nextIndex = rf[i].nextIndex /\ Calm(rf[i], s)
    BY <1>1, <2>2 DEF PeerOK, PeerFields, Calm
  <2>4. StepShape
    BY <1>2, <2>1, <2>2, <2>3, InnerStep
  <2> QED
    BY <1>3, <2>4
<1> QED
  BY <1>4, <1>5, <1>6

\* Nobody sends a snapshot, so that nobody receives one.
LEMMA NoInstall ==
    ASSUME Before
    PROVE  /\ \A i, j \in Server : ~SendInstallSnapshot(i, j)
           /\ \A c \in calls : ~(HandleInstallSnapshot(c) \/ ReceiveSnapshot(c)
                                   \/ FinishInstallSnapshot(c) \/ InstallSnapshotReturns(c))
<1>1. ASSUME NEW i \in Server, NEW j \in Server, SendInstallSnapshot(i, j) PROVE FALSE
  <2>1. i # j /\ rf[i].state = "LEADER" /\ rf[i].nextIndex[j] <= rf[i].snapshotIndex
    BY <1>1 DEF SendInstallSnapshot, MaySend
  <2>2. LogOK(rf[i]) /\ rf[i].snapshotIndex = 0 /\ IndexOK(rf[i], i)
    BY <2>1, PeerFacts
  <2>3. rf[i].nextIndex[j] \in Int /\ rf[i].matchIndex[j] \in Int
    BY <2>2 DEF LogOK
  <2>4. rf[i].matchIndex[j] >= 0 /\ rf[i].matchIndex[j] < rf[i].nextIndex[j]
    BY <2>1, <2>2 DEF IndexOK
  <2> QED
    BY <2>1, <2>2, <2>3, <2>4
<1>2. ASSUME NEW c \in calls, \/ HandleInstallSnapshot(c) \/ ReceiveSnapshot(c)
                              \/ FinishInstallSnapshot(c) \/ InstallSnapshotReturns(c)
      PROVE  FALSE
  <2>1. c.rpc = "InstallSnapshot" \/ c.pending \in {"send", "sent"}
    BY <1>2 DEF HandleInstallSnapshot, ReceiveSnapshot, FinishInstallSnapshot, InstallSnapshotReturns
  <2> QED
    BY <2>1, CallFacts
<1> QED
  BY <1>1, <1>2

LEMMA NextShape ==
    ASSUME CrashesWhenSaved = TRUE, Before, NoSnapshot', [Next]_vars
    PROVE  StepShape
<1>1. CASE UNCHANGED vars
  BY <1>1, IdleStep DEF vars
<1>2. ASSUME NEW i \in Server, attemptElection(i) PROVE StepShape
  BY <1>2, AttemptShape
<1>3. ASSUME NEW i \in Server, NEW command \in Command, ClientStart(i, command) PROVE StepShape
  BY <1>3, ClientStartShape
<1>4. ASSUME NEW i \in Server, NEW j \in Server, SendAppendEntries(i, j) PROVE StepShape
  BY <1>4, SendAppendShape
<1>5. ASSUME NEW i \in Server, \/ CopyBatch(i) \/ ReceiveCommand(i) \/ FinishBatch(i)
                               \/ TakeSnapshot(i) \/ BeginSave(i) \/ EndSave(i)
      PROVE  StepShape
  BY <1>5, LocalShape
<1>6. ASSUME NEW i \in Server, CrashAndRestart(i) PROVE StepShape
  BY <1>6, CrashShape
<1>7. ASSUME NEW c \in calls, CallFails(c) \/ AppendEntriesReturns(c) PROVE StepShape
  BY <1>7, ReturnShape
<1>8. ASSUME NEW c \in calls, HandleRequestVote(c) PROVE StepShape
  BY <1>8, HandleVoteShape
<1>9. ASSUME NEW c \in calls, CountVote(c) PROVE StepShape
  BY <1>9, CountVoteShape
<1>10. ASSUME NEW c \in calls, HandleAppendEntries(c) PROVE StepShape
  BY <1>10, HandleAppendShape
<1>11. /\ \A i, j \in Server : ~SendInstallSnapshot(i, j)
       /\ \A c \in calls : ~(HandleInstallSnapshot(c) \/ ReceiveSnapshot(c)
                               \/ FinishInstallSnapshot(c) \/ InstallSnapshotReturns(c))
  BY NoInstall
<1> QED
  BY <1>1, <1>2, <1>3, <1>4, <1>5, <1>6, <1>7, <1>8, <1>9, <1>10, <1>11, Zenon DEF Next

-----------------------------------------------------------------------------
(* What the services apply is final.                                        *)

\* command is committed for good at index k.
Decided(k, command) ==
    \E P \in Seq(Entry) : Final(P) /\ k \in 1 .. Len(P) - 1 /\ P[k + 1].command = command

AppliedOK(r) ==
    /\ r.lastApplied \in Nat /\ r.lastApplied <= r.commitIndex
    /\ r.snapshot = << >> /\ r.snapshotTerm = 0
BatchOK(i) ==
    batch[i] # None =>
      /\ DOMAIN batch[i] = {"next", "hi", "commands"}
      /\ batch[i].next \in Nat /\ batch[i].hi \in Nat /\ batch[i].hi <= rf[i].commitIndex
      /\ \A k \in batch[i].next .. batch[i].hi : Decided(k, batch[i].commands[k])
ServiceOK(i) ==
    /\ DOMAIN srv[i] = {"log", "lastApplied", "snap", "err"}
    /\ \A k \in DOMAIN srv[i].log : Decided(k, srv[i].log[k])
Applied ==
    /\ batch = [i \in Server |-> batch[i]] /\ srv = [i \in Server |-> srv[i]]
    /\ \A i \in Server : AppliedOK(rf[i]) /\ BatchOK(i) /\ ServiceOK(i)

LEMMA DecidedKept ==
    ASSUME GoodStep
    PROVE  \A k, x : Decided(k, x) => Decided(k, x)'
<1>1. \A P \in Seq(Entry) : Final(P) => Final(P)'
  BY FinalKept
<1> QED
  BY <1>1 DEF Decided

\* The entries up to commitIndex are.
LEMMA CommittedDecided ==
    ASSUME Good, Covered, NEW i \in Server, NEW k \in 1 .. rf[i].commitIndex
    PROVE  Decided(k, rf[i].log[k + 1].command) /\ k < Len(rf[i].log)
<1>1. PICK n \in Nat : n = rf[i].commitIndex
  BY DEF Good, BaseInv, CommitTypes
<1>2. PICK L \in Seq(Entry) : L = rf[i].log
  BY DEF Good, LogInv, LogTypes, LogOK
<1>3. k \in Nat /\ k >= 1 /\ k <= n
  BY <1>1
<1>4. Settled(L, n, rf[i].currentTerm)
  BY <1>1, <1>2 DEF Covered
<1>5. PICK P \in Seq(Entry) : Final(P) /\ n < Len(P) /\ Agrees(L, P, n + 1)
  BY <1>3, <1>4 DEF Settled
<1>6. Len(P) \in Nat /\ Len(L) \in Nat
  OBVIOUS
<1>7. n + 1 <= Len(L) /\ \A m \in 1 .. n + 1 : L[m] = P[m]
  BY <1>5 DEF Agrees
<1>8. k + 1 \in 1 .. n + 1 /\ k \in 1 .. Len(P) - 1 /\ k < Len(L)
  BY <1>3, <1>5, <1>6, <1>7
<1>9. L[k + 1] = P[k + 1]
  BY <1>7, <1>8
<1> QED
  BY <1>2, <1>5, <1>8, <1>9 DEF Decided

\* A peer, its applier and its service, as far as a step does not concern them.
LEMMA AppliedKept ==
    ASSUME GoodStep, Applied, NEW i \in Server, Onward(rf[i], rf'[i])
    PROVE  AppliedOK(rf'[i])
<1>1. rf[i].commitIndex \in Nat /\ rf'[i].commitIndex \in Nat /\ rf'[i].commitIndex >= rf[i].commitIndex
  BY DEF GoodStep, Good, BaseInv, CommitTypes, Onward
<1> QED
  BY <1>1 DEF Applied, AppliedOK, Onward, Unmoved

LEMMA BatchKept ==
    ASSUME GoodStep, Applied, NEW i \in Server, batch'[i] = batch[i],
           rf'[i].commitIndex >= rf[i].commitIndex
    PROVE  BatchOK(i)'
<1>1. rf[i].commitIndex \in Nat /\ rf'[i].commitIndex \in Nat
  BY DEF GoodStep, Good, BaseInv, CommitTypes
<1> SUFFICES ASSUME batch[i] # None
             PROVE  /\ DOMAIN batch[i] = {"next", "hi", "commands"}
                    /\ batch[i].next \in Nat /\ batch[i].hi \in Nat /\ batch[i].hi <= rf'[i].commitIndex
                    /\ \A k \in batch[i].next .. batch[i].hi : Decided(k, batch[i].commands[k])'
  BY DEF BatchOK
<1>2. /\ DOMAIN batch[i] = {"next", "hi", "commands"}
      /\ batch[i].next \in Nat /\ batch[i].hi \in Nat /\ batch[i].hi <= rf[i].commitIndex
      /\ \A k \in batch[i].next .. batch[i].hi : Decided(k, batch[i].commands[k])
  BY DEF Applied, BatchOK
<1>3. batch[i].hi <= rf'[i].commitIndex
  BY <1>1, <1>2
<1>4. ASSUME NEW k \in batch[i].next .. batch[i].hi PROVE Decided(k, batch[i].commands[k])'
  <2>1. PICK x : x = batch[i].commands[k]
    OBVIOUS
  <2>2. Decided(k, x)'
    BY <1>2, <2>1, DecidedKept
  <2> QED
    BY <2>1, <2>2 DEF Decided
<1> QED
  BY <1>2, <1>3, <1>4

LEMMA ServiceKept ==
    ASSUME GoodStep, Applied, NEW i \in Server, DOMAIN srv'[i] = DOMAIN srv[i], srv'[i].log = srv[i].log
    PROVE  ServiceOK(i)'
<1>1. DOMAIN srv'[i] = {"log", "lastApplied", "snap", "err"}
  BY DEF Applied, ServiceOK
<1>2. ASSUME NEW k \in DOMAIN srv'[i].log PROVE Decided(k, srv[i].log[k])'
  <2>1. PICK x : x = srv[i].log[k]
    OBVIOUS
  <2>2. Decided(k, x)'
    BY <1>2, <2>1, DecidedKept DEF Applied, ServiceOK
  <2> QED
    BY <2>1, <2>2 DEF Decided
<1> QED
  BY <1>1, <1>2 DEF ServiceOK

LEMMA SteadyApplied ==
    ASSUME GoodStep, Applied, Steady
    PROVE  Applied'
<1>1. batch' = [i \in Server |-> batch'[i]] /\ srv' = [i \in Server |-> srv'[i]]
  BY DEF Applied, Steady
<1>2. \A i \in Server : AppliedOK(rf'[i]) /\ BatchOK(i)' /\ ServiceOK(i)'
  BY AppliedKept, BatchKept, ServiceKept DEF Steady, Onward
<1> QED
  BY <1>1, <1>2 DEF Applied

LEMMA CopyBatchApplied ==
    ASSUME GoodStep, Covered, NoSnapshot, Applied, NEW i \in Server, CopyBatch(i)
    PROVE  Applied'
<1>1. PICK r : r = rf[i]
  OBVIOUS
<1>2. PICK lo : lo = Max({r.lastApplied, r.snapshotIndex}) + 1
  OBVIOUS
<1>3. PICK n \in Nat : n = r.commitIndex
  BY <1>1 DEF GoodStep, Good, BaseInv, CommitTypes
<1>4. PICK b : b = [next |-> lo, hi |-> n, commands |-> [k \in lo .. n |-> At(r, k).command]]
  OBVIOUS
<1>5. UNCHANGED <<rf, srv>> /\ batch' = [batch EXCEPT ![i] = b]
  BY <1>1, <1>2, <1>3, <1>4, Zenon DEF CopyBatch
<1>6. /\ batch' = [j \in Server |-> batch'[j]] /\ srv' = [j \in Server |-> srv'[j]]
      /\ batch'[i] = b /\ \A j \in Server \ {i} : batch'[j] = batch[j]
  BY <1>5 DEF Applied
<1>7. \A j \in Server : Onward(rf[j], rf'[j])
  BY <1>5 DEF Onward, Unmoved, GoodStep, Good, BaseInv, CommitTypes
<1>8. r.lastApplied \in Nat /\ r.snapshotIndex = 0
  BY <1>1 DEF Applied, AppliedOK, NoSnapshot
<1>9. lo \in Nat /\ lo >= 1
  <2>1. PICK a \in Int : a = r.lastApplied /\ a >= 0
    BY <1>8
  <2>2. 0 \in Int /\ Max({a, 0}) \in {a, 0}
    BY FewInts
  <2> QED
    BY <1>2, <1>8, <2>1, <2>2
<1>10. ASSUME NEW k \in lo .. n PROVE Decided(k, b.commands[k])'
  <2>1. k \in 1 .. rf[i].commitIndex
    BY <1>1, <1>3, <1>9
  <2>2. Decided(k, rf[i].log[k + 1].command)
    BY <2>1, CommittedDecided DEF GoodStep
  <2>3. PICK x : x = rf[i].log[k + 1].command
    OBVIOUS
  <2>4. Decided(k, x)'
    BY <2>2, <2>3, DecidedKept
  <2>5. k - 0 + 1 = k + 1
    BY <2>1
  <2>6. b.commands[k] = x
    BY <1>1, <1>4, <1>8, <2>3, <2>5 DEF At
  <2> QED
    BY <2>4, <2>6
<1>11. DOMAIN b = {"next", "hi", "commands"} /\ b.next = lo /\ b.hi = n
  BY <1>4
<1>12. BatchOK(i)'
  BY <1>1, <1>3, <1>5, <1>6, <1>9, <1>10, <1>11 DEF BatchOK, Decided
<1>13. \A j \in Server : AppliedOK(rf'[j]) /\ BatchOK(j)' /\ ServiceOK(j)'
  BY <1>5, <1>6, <1>7, <1>12, AppliedKept, BatchKept, ServiceKept DEF Onward
<1> QED
  BY <1>6, <1>13 DEF Applied

LEMMA ReceiveApplied ==
    ASSUME GoodStep, Applied, NEW i \in Server, ReceiveCommand(i)
    PROVE  Applied'
<1>1. PICK b : b = batch[i]
  OBVIOUS
<1>2. PICK idx : idx = b.next
  OBVIOUS
<1>3. PICK log : log = srv[i].log
  OBVIOUS
<1>4. PICK N : N = [k \in DOMAIN log \union {idx} |-> IF k = idx THEN b.commands[idx] ELSE log[k]]
  OBVIOUS
<1>5. /\ b # None /\ idx <= b.hi /\ UNCHANGED rf
      /\ batch' = [batch EXCEPT ![i] = [b EXCEPT !.next = idx + 1]]
      /\ \E snap, err : srv' = [srv EXCEPT ![i] =
                                  [log |-> N, lastApplied |-> idx, snap |-> snap, err |-> err]]
  BY <1>1, <1>2, <1>3, <1>4, Zenon DEF ReceiveCommand
<1>6. PICK d : d = [b EXCEPT !.next = idx + 1]
  OBVIOUS
<1>7. PICK snap, err : srv' = [srv EXCEPT ![i] =
                                 [log |-> N, lastApplied |-> idx, snap |-> snap, err |-> err]]
  BY <1>5
<1>8. PICK s : s = [log |-> N, lastApplied |-> idx, snap |-> snap, err |-> err]
  OBVIOUS
<1>9. /\ batch' = [j \in Server |-> batch'[j]] /\ srv' = [j \in Server |-> srv'[j]]
      /\ batch'[i] = d /\ srv'[i] = s
      /\ \A j \in Server \ {i} : batch'[j] = batch[j] /\ srv'[j] = srv[j]
  BY <1>5, <1>6, <1>7, <1>8 DEF Applied
<1>10. /\ DOMAIN b = {"next", "hi", "commands"}
       /\ b.next \in Nat /\ b.hi \in Nat /\ b.hi <= rf[i].commitIndex
       /\ \A k \in b.next .. b.hi : Decided(k, b.commands[k])
  BY <1>1, <1>5 DEF Applied, BatchOK
<1>11. \A j \in Server : Onward(rf[j], rf'[j])
  BY <1>5 DEF Onward, Unmoved, GoodStep, Good, BaseInv, CommitTypes
<1>12. DOMAIN d = {"next", "hi", "commands"} /\ d.next = idx + 1 /\ d.hi = b.hi /\ d.commands = b.commands
  BY <1>6, <1>10
<1>13. ASSUME NEW k \in b.next .. b.hi PROVE Decided(k, b.commands[k])'
  <2>1. PICK x : x = b.commands[k]
    OBVIOUS
  <2>2. Decided(k, x)'
    BY <1>10, <2>1, DecidedKept
  <2> QED
    BY <2>1, <2>2
<1>14. BatchOK(i)'
  <2>1. d.next \in Nat /\ d.hi \in Nat /\ d.hi <= rf'[i].commitIndex
    BY <1>2, <1>5, <1>10, <1>12
  <2>2. ASSUME NEW k \in d.next .. d.hi PROVE Decided(k, d.commands[k])'
    <3>1. k \in b.next .. b.hi
      BY <1>2, <1>10, <1>12
    <3> QED
      BY <1>12, <1>13, <3>1
  <2> QED
    BY <1>9, <1>12, <2>1, <2>2 DEF BatchOK, Decided
<1>15. ServiceOK(i)'
  <2>1. DOMAIN s = {"log", "lastApplied", "snap", "err"} /\ s.log = N
    BY <1>8
  <2>2. ASSUME NEW k \in DOMAIN N PROVE Decided(k, N[k])'
    <3>1. CASE k = idx
      <4>1. idx \in b.next .. b.hi
        BY <1>2, <1>5, <1>10
      <4>2. N[k] = b.commands[k]
        BY <1>4, <3>1
      <4> QED
        BY <1>13, <3>1, <4>1, <4>2
    <3>2. CASE k # idx
      <4>1. k \in DOMAIN log /\ N[k] = log[k]
        BY <1>4, <2>2, <3>2
      <4>2. PICK x : x = log[k]
        OBVIOUS
      <4>3. Decided(k, x)'
        BY <1>3, <4>1, <4>2, DecidedKept DEF Applied, ServiceOK
      <4> QED
        BY <4>1, <4>2, <4>3
    <3> QED
      BY <3>1, <3>2
  <2> QED
    BY <1>9, <2>1, <2>2 DEF ServiceOK, Decided
<1>16. \A j \in Server : AppliedOK(rf'[j]) /\ BatchOK(j)' /\ ServiceOK(j)'
  BY <1>9, <1>11, <1>14, <1>15, AppliedKept, BatchKept, ServiceKept DEF Onward
<1> QED
  BY <1>9, <1>16 DEF Applied

LEMMA FinishBatchApplied ==
    ASSUME GoodStep, Applied, NEW i \in Server, FinishBatch(i)
    PROVE  Applied'
<1>1. PICK r : r = rf[i]
  OBVIOUS
<1>2. PICK k : k = Max({r.lastApplied, batch[i].hi})
  OBVIOUS
<1>3. PICK s : s = [r EXCEPT !.lastApplied = k]
  OBVIOUS
<1>4. batch[i] # None /\ rf' = [rf EXCEPT ![i] = s] /\ UNCHANGED srv /\ batch' = [batch EXCEPT ![i] = None]
  BY <1>1, <1>2, <1>3, Zenon DEF FinishBatch
<1>5. PeerOK(r) /\ rf = [j \in Server |-> rf[j]]
  BY <1>1 DEF GoodStep, Good, ElectionInv, ElectionTypes
<1>6. /\ batch' = [j \in Server |-> batch'[j]] /\ srv' = [j \in Server |-> srv'[j]]
      /\ batch'[i] = None /\ \A j \in Server \ {i} : batch'[j] = batch[j]
  BY <1>4 DEF Applied
<1>7. rf'[i] = s /\ \A j \in Server \ {i} : rf'[j] = rf[j]
  BY <1>4, <1>5
<1>8. /\ s.lastApplied = k /\ s.commitIndex = r.commitIndex /\ s.snapshot = r.snapshot
      /\ s.snapshotTerm = r.snapshotTerm
  BY <1>3, <1>5 DEF PeerOK, PeerFields
<1>9. r.commitIndex \in Nat /\ AppliedOK(r) /\ batch[i].hi \in Nat /\ batch[i].hi <= r.commitIndex
  BY <1>1, <1>4 DEF Applied, BatchOK, GoodStep, Good, BaseInv, CommitTypes
<1>10. k \in Nat /\ k <= r.commitIndex
  <2>1. PICK a \in Int : a = r.lastApplied /\ a >= 0 /\ a <= r.commitIndex
    BY <1>9 DEF AppliedOK
  <2>2. PICK b \in Int : b = batch[i].hi /\ b >= 0 /\ b <= r.commitIndex
    BY <1>9
  <2>3. Max({a, b}) \in {a, b}
    BY FewInts
  <2> QED
    BY <1>2, <2>1, <2>2, <2>3
<1>11. AppliedOK(rf'[i])
  BY <1>7, <1>8, <1>9, <1>10 DEF AppliedOK
<1>12. BatchOK(i)'
  BY <1>6 DEF BatchOK
<1>13. \A j \in Server \ {i} : Onward(rf[j], rf'[j])
  BY <1>7 DEF Onward, Unmoved, GoodStep, Good, BaseInv, CommitTypes
<1>14. \A j \in Server : ServiceOK(j)'
  BY <1>4, ServiceKept
<1>15. \A j \in Server : AppliedOK(rf'[j]) /\ BatchOK(j)'
  BY <1>6, <1>11, <1>12, <1>13, AppliedKept, BatchKept DEF Onward
<1> QED
  BY <1>6, <1>14, <1>15 DEF Applied

\* The snapshot that the service passes is refused.
LEMMA SnapshotApplied ==
    ASSUME GoodStep, Applied, NEW i \in Server, TakeSnapshot(i), UNCHANGED rf
    PROVE  Applied'
<1>1. srv' = [srv EXCEPT ![i] = [srv[i] EXCEPT !.snap = 0]] /\ UNCHANGED batch
  BY Zenon DEF TakeSnapshot
<1>2. PICK s : s = [srv[i] EXCEPT !.snap = 0]
  OBVIOUS
<1>3. /\ batch' = [j \in Server |-> batch'[j]] /\ srv' = [j \in Server |-> srv'[j]]
      /\ srv'[i] = s /\ \A j \in Server \ {i} : srv'[j] = srv[j]
  BY <1>1, <1>2 DEF Applied
<1>4. DOMAIN s = DOMAIN srv[i] /\ s.log = srv[i].log
  BY <1>2
<1>5. \A j \in Server : Onward(rf[j], rf'[j])
  BY DEF Onward, Unmoved, GoodStep, Good, BaseInv, CommitTypes
<1>6. \A j \in Server : ServiceOK(j)'
  BY <1>3, <1>4, ServiceKept
<1>7. \A j \in Server : AppliedOK(rf'[j]) /\ BatchOK(j)'
  BY <1>1, <1>5, AppliedKept, BatchKept DEF Onward
<1> QED
  BY <1>3, <1>6, <1>7 DEF Applied

\* Saving concerns neither.
LEMMA SaveSteady ==
    ASSUME Before, NEW i \in Server, BeginSave(i) \/ EndSave(i) \/ UNCHANGED vars
    PROVE  Steady
<1>1. UNCHANGED <<batch, srv>>
  BY DEF BeginSave, EndSave, vars
<1>2. CASE UNCHANGED rf
  BY <1>1, <1>2, IdlePeer DEF Steady
<1>3. CASE EndSave(i)
  <2>1. PICK s : s = [rf[i] EXCEPT !.dirty = FALSE]
    OBVIOUS
  <2>2. rf' = [rf EXCEPT ![i] = s]
    BY <1>3, <2>1, Zenon DEF EndSave
  <2>3. PeerOK(rf[i]) /\ rf[i].commitIndex \in Nat /\ rf = [j \in Server |-> rf[j]]
    BY PeerFacts DEF Before, Good, ElectionInv, ElectionTypes
  <2>4. Onward(rf[i], s)
    BY <2>1, <2>3 DEF Onward, Unmoved, PeerOK, PeerFields
  <2>5. rf'[i] = s /\ \A j \in Server \ {i} : rf'[j] = rf[j]
    BY <2>2, <2>3
  <2> QED
    BY <1>1, <2>4, <2>5, IdlePeer DEF Steady
<1> QED
  BY <1>2, <1>3 DEF BeginSave, vars

LEMMA CrashApplied ==
    ASSUME CrashesWhenSaved = TRUE, GoodStep, NoSnapshot, Applied, NEW i \in Server, CrashAndRestart(i)
    PROVE  Applied'
<1>1. PICK r : r = rf[i]
  OBVIOUS
<1>2. PICK e : e = encodeState(r)
  OBVIOUS
<1>3. rf'[i] = Make(e) /\ \A j \in Server \ {i} : rf'[j] = rf[j]
  BY <1>1, <1>2, CrashShape DEF Before, GoodStep
<1>4. r.snapshotIndex = 0 /\ r.snapshot = << >> /\ r.snapshotTerm = 0
  BY <1>1 DEF Applied, AppliedOK, NoSnapshot
<1>5. e.snapshotIndex = 0 /\ e.snapshot = << >> /\ e.snapshotTerm = 0
  BY <1>2, <1>4 DEF encodeState
<1>6. AppliedOK(rf'[i])
  BY <1>3, <1>5 DEF Make, AppliedOK
<1>7. PICK m : m = MakeService(<< >>)
  OBVIOUS
<1>8. PICK x : x = srv[i].err
  OBVIOUS
<1>9. disk[i] = e
  BY <1>1, <1>2 DEF CrashAndRestart
<1>10. /\ batch' = [batch EXCEPT ![i] = None]
       /\ srv' = [srv EXCEPT ![i] = [MakeService(disk[i].snapshot) EXCEPT !.err = srv[i].err]]
  BY Zenon DEF CrashAndRestart
<1>11. PICK s : s = [m EXCEPT !.err = x]
  OBVIOUS
<1>12. srv' = [srv EXCEPT ![i] = s]
  BY <1>5, <1>7, <1>8, <1>9, <1>10, <1>11
<1>13. /\ batch' = [j \in Server |-> batch'[j]] /\ srv' = [j \in Server |-> srv'[j]]
       /\ batch'[i] = None /\ srv'[i] = s
       /\ \A j \in Server \ {i} : batch'[j] = batch[j] /\ srv'[j] = srv[j]
  BY <1>10, <1>12 DEF Applied
<1>14. DOMAIN s = {"log", "lastApplied", "snap", "err"} /\ s.log = << >>
  BY <1>7, <1>11 DEF MakeService
<1>15. ServiceOK(i)' /\ BatchOK(i)'
  <2>1. DOMAIN s.log = {}
    BY <1>14
  <2> QED
    BY <1>13, <1>14, <2>1 DEF ServiceOK, BatchOK
<1>16. \A j \in Server \ {i} : Onward(rf[j], rf'[j])
  BY <1>3 DEF Onward, Unmoved, GoodStep, Good, BaseInv, CommitTypes
<1>17. \A j \in Server : AppliedOK(rf'[j]) /\ BatchOK(j)' /\ ServiceOK(j)'
  BY <1>6, <1>13, <1>15, <1>16, AppliedKept, BatchKept, ServiceKept DEF Onward
<1> QED
  BY <1>13, <1>17 DEF Applied

LEMMA NextApplied ==
    ASSUME CrashesWhenSaved = TRUE, GoodStep, Covered, NoSnapshot, NoSnapshot', Applied, [Next]_vars
    PROVE  Applied'
<1>1. Before
  BY DEF GoodStep, Before
<1>2. ASSUME Steady PROVE Applied'
  BY <1>2, SteadyApplied
<1>3. CASE UNCHANGED vars
  <2>1. PICK i \in Server : TRUE
    BY PeerAssumption DEF PeerAssumption
  <2> QED
    BY <1>1, <1>2, <1>3, SaveSteady
<1>4. ASSUME NEW i \in Server, attemptElection(i) PROVE Applied'
  BY <1>1, <1>2, <1>4, AttemptShape
<1>5. ASSUME NEW i \in Server, NEW command \in Command, ClientStart(i, command) PROVE Applied'
  BY <1>1, <1>2, <1>5, ClientStartShape
<1>6. ASSUME NEW i \in Server, NEW j \in Server, SendAppendEntries(i, j) PROVE Applied'
  BY <1>1, <1>2, <1>6, SendAppendShape
<1>7. ASSUME NEW i \in Server, CopyBatch(i) \/ ReceiveCommand(i) \/ FinishBatch(i) PROVE Applied'
  BY <1>7, CopyBatchApplied, ReceiveApplied, FinishBatchApplied
<1>8. ASSUME NEW i \in Server, TakeSnapshot(i) PROVE Applied'
  <2>1. UNCHANGED rf
    BY <1>1, <1>8, LocalShape
  <2> QED
    BY <1>8, <2>1, SnapshotApplied
<1>9. ASSUME NEW i \in Server, BeginSave(i) \/ EndSave(i) PROVE Applied'
  BY <1>1, <1>2, <1>9, SaveSteady
<1>10. ASSUME NEW i \in Server, CrashAndRestart(i) PROVE Applied'
  BY <1>10, CrashApplied
<1>11. ASSUME NEW c \in calls, CallFails(c) \/ AppendEntriesReturns(c) PROVE Applied'
  BY <1>1, <1>2, <1>11, ReturnShape
<1>12. ASSUME NEW c \in calls, HandleRequestVote(c) PROVE Applied'
  BY <1>1, <1>2, <1>12, HandleVoteShape
<1>13. ASSUME NEW c \in calls, CountVote(c) PROVE Applied'
  BY <1>1, <1>2, <1>13, CountVoteShape
<1>14. ASSUME NEW c \in calls, HandleAppendEntries(c) PROVE Applied'
  BY <1>1, <1>2, <1>14, HandleAppendShape
<1>15. /\ \A i, j \in Server : ~SendInstallSnapshot(i, j)
       /\ \A c \in calls : ~(HandleInstallSnapshot(c) \/ ReceiveSnapshot(c)
                               \/ FinishInstallSnapshot(c) \/ InstallSnapshotReturns(c))
  BY <1>1, NoInstall
<1> QED
  BY <1>3, <1>4, <1>5, <1>6, <1>7, <1>8, <1>9, <1>10, <1>11, <1>12, <1>13, <1>14, <1>15, Zenon DEF Next

-----------------------------------------------------------------------------
(* The invariant and what follows from it.                                  *)

CommitInv == Good /\ AcksSafe /\ Covered /\ Applied

LEMMA InitCommit == Init => CommitInv
<1> SUFFICES ASSUME Init PROVE CommitInv
  OBVIOUS
<1> DEFINE first == << [term |-> 0, command |-> None] >>
<1>1. /\ \A i \in Server : /\ rf[i].log = first /\ rf[i].state = "FOLLOWER"
                           /\ rf[i].commitIndex = 0 /\ rf[i].lastApplied = 0 /\ rf[i].currentTerm = 0
                           /\ rf[i].snapshot = << >> /\ rf[i].snapshotTerm = 0
      /\ Appends = {} /\ Votes = {} /\ calls = {}
  BY DEF Init, Make, Bootstrap, Appends, Votes
<1>2. Len(first) = 1 /\ first[1] = [term |-> 0, command |-> None] /\ first[1].term = 0
  OBVIOUS
<1>3. \A i \in Server : TermsGrow(rf[i])
  <2>1. Sorted(first)
    BY <1>2 DEF Sorted
  <2>2. EndTerm(first) = 0
    BY <1>2 DEF EndTerm
  <2> HIDE DEF first
  <2> QED
    BY <1>1, <1>2, <2>1, <2>2 DEF TermsGrow
<1> HIDE DEF first
<1>4. BaseInv
  BY <1>1, <1>3 DEF BaseInv, LeaderSent, IndexInv, Ballots, Plain, CommitTypes
<1>5. Good
  BY <1>4, InitElection, InitLog DEF Good
<1>6. AcksSafe
  BY <1>1 DEF AcksSafe
<1>7. Covered
  BY <1>1 DEF Covered, Settled
<1>8. Applied
  <2>1. \A i \in Server : AppliedOK(rf[i])
    BY <1>1 DEF AppliedOK
  <2>2. batch = [i \in Server |-> None] /\ srv = [i \in Server |-> MakeService(<< >>)]
    BY DEF Init
  <2>3. batch = [i \in Server |-> batch[i]] /\ \A i \in Server : BatchOK(i)
    BY <2>2 DEF BatchOK
  <2>4. srv = [i \in Server |-> srv[i]] /\ \A i \in Server : srv[i] = MakeService(<< >>)
    BY <2>2
  <2>5. DOMAIN << >> = {}
    OBVIOUS
  <2>6. ASSUME NEW i \in Server PROVE ServiceOK(i)
    <3>1. DOMAIN srv[i] = {"log", "lastApplied", "snap", "err"} /\ srv[i].log = << >>
      BY <2>4 DEF MakeService
    <3> QED
      BY <2>5, <3>1 DEF ServiceOK
  <2> QED
    BY <2>1, <2>3, <2>4, <2>6 DEF Applied
<1> QED
  BY <1>5, <1>6, <1>7, <1>8 DEF CommitInv

LEMMA NextCommit ==
    ASSUME CrashesWhenSaved = TRUE, CommitInv, NoSnapshot, NoSnapshot', [Next]_vars
    PROVE  CommitInv' /\ GoodStep
<1>1. ElectionInv' /\ ElectionStep
  BY NextElection DEF CommitInv, Good
<1>2. LogInv'
  BY <1>1, NextLog DEF CommitInv, Good
<1>3. StepShape
  BY NextShape DEF CommitInv, Before
<1>4. BaseInv'
  BY <1>1, <1>2, <1>3, BaseKept DEF CommitInv, Good
<1>5. GoodStep
  BY <1>1, <1>2, <1>3, <1>4 DEF CommitInv, Good, GoodStep
<1>6. AcksSafe' /\ Covered'
  BY <1>5, AcksSafeKept, CoveredKept DEF CommitInv
<1>7. Applied'
  BY <1>5, NextApplied DEF CommitInv
<1> QED
  BY <1>5, <1>6, <1>7 DEF CommitInv, GoodStep

LEMMA CommitInvComplete == CommitInv /\ NoSnapshot => LeaderCompleteness
  BY CoveredIsComplete DEF CommitInv

LEMMA CommitInvApplies == CommitInv => StateMachineSafety
<1> SUFFICES ASSUME CommitInv, NEW i \in Server, NEW j \in Server,
                    NEW k \in DOMAIN srv[i].log \intersect DOMAIN srv[j].log
             PROVE  srv[i].log[k] = srv[j].log[k]
  BY DEF StateMachineSafety
<1>1. Decided(k, srv[i].log[k]) /\ Decided(k, srv[j].log[k])
  BY DEF CommitInv, Applied, ServiceOK
<1>2. PICK P \in Seq(Entry) : Final(P) /\ k \in 1 .. Len(P) - 1 /\ P[k + 1].command = srv[i].log[k]
  BY <1>1 DEF Decided
<1>3. PICK R \in Seq(Entry) : Final(R) /\ k \in 1 .. Len(R) - 1 /\ R[k + 1].command = srv[j].log[k]
  BY <1>1 DEF Decided
<1>4. k + 1 \in Nat /\ k + 1 >= 1 /\ k + 1 <= Len(P) /\ k + 1 <= Len(R)
  <2>1. Len(P) \in Nat /\ Len(R) \in Nat
    OBVIOUS
  <2> QED
    BY <1>2, <1>3, <2>1
<1>5. P[k + 1] = R[k + 1]
  BY <1>2, <1>3, <1>4, FinalsAgree DEF CommitInv
<1> QED
  BY <1>2, <1>3, <1>5

LEMMA CommitInvOrders == CommitInv /\ NoSnapshot => IndicesInOrder
<1> SUFFICES ASSUME CommitInv, NoSnapshot, NEW i \in Server
             PROVE  /\ rf[i].snapshotIndex = Len(rf[i].snapshot)
                    /\ rf[i].snapshotTerm = rf[i].log[1].term
                    /\ rf[i].snapshotIndex <= rf[i].commitIndex
                    /\ rf[i].lastApplied <= rf[i].commitIndex
                    /\ rf[i].commitIndex <= LastIndex(rf[i])
                    /\ rf[i].state = "LEADER" => \A j \in Server \ {i} :
                         rf[i].matchIndex[j] < rf[i].nextIndex[j] /\ rf[i].nextIndex[j] <= LogEnd(rf[i])
  BY DEF IndicesInOrder
<1>1. rf[i].snapshotIndex = 0 /\ AppliedOK(rf[i]) /\ TermsGrow(rf[i]) /\ rf[i].commitIndex \in Nat
  BY DEF NoSnapshot, CommitInv, Applied, Good, BaseInv, CommitTypes
<1>2. LogOK(rf[i]) /\ Len(rf[i].log) \in Nat /\ Len(rf[i].log) >= 1
  BY DEF CommitInv, Good, LogInv, LogTypes, LogOK
<1>3. LogEnd(rf[i]) = Len(rf[i].log) /\ LastIndex(rf[i]) = Len(rf[i].log) - 1
  BY <1>1, <1>2 DEF LastIndex, LogEnd
<1>4. rf[i].snapshotTerm = rf[i].log[1].term
  BY <1>1 DEF AppliedOK, TermsGrow
<1>5. rf[i].snapshotIndex = Len(rf[i].snapshot) /\ rf[i].snapshotIndex <= rf[i].commitIndex
  BY <1>1 DEF AppliedOK
<1>6. rf[i].commitIndex <= LastIndex(rf[i])
  <2>1. CASE rf[i].commitIndex = 0
    BY <1>2, <1>3, <2>1
  <2>2. CASE rf[i].commitIndex # 0
    <3>1. rf[i].commitIndex \in 1 .. rf[i].commitIndex
      BY <1>1, <2>2
    <3>2. rf[i].commitIndex < Len(rf[i].log)
      BY <3>1, CommittedDecided DEF CommitInv
    <3> QED
      BY <1>1, <1>2, <1>3, <3>2
  <2> QED
    BY <2>1, <2>2
<1>7. ASSUME rf[i].state = "LEADER", NEW j \in Server \ {i}
      PROVE  rf[i].matchIndex[j] < rf[i].nextIndex[j] /\ rf[i].nextIndex[j] <= LogEnd(rf[i])
  BY <1>3, <1>7 DEF CommitInv, Good, BaseInv, IndexInv, IndexOK
<1> QED
  BY <1>1, <1>4, <1>5, <1>6, <1>7 DEF AppliedOK

-----------------------------------------------------------------------------
(* Steps of a peer that runs.                                               *)

\* Only a crash takes back what is committed.
LEMMA CommitsGrow ==
    ASSUME Before, NoSnapshot', [Next]_vars, \A i \in Server : ~CrashAndRestart(i), NEW k \in Server
    PROVE  rf'[k].commitIndex >= rf[k].commitIndex
<1>1. ASSUME Steady PROVE rf'[k].commitIndex >= rf[k].commitIndex
  BY <1>1 DEF Steady, Onward
<1>2. ASSUME UNCHANGED rf PROVE rf'[k].commitIndex >= rf[k].commitIndex
  BY <1>2, PeerFacts
<1>3. ASSUME NEW i \in Server, attemptElection(i) PROVE Steady
  BY <1>3, AttemptShape
<1>4. ASSUME NEW i \in Server, NEW command \in Command, ClientStart(i, command) PROVE Steady
  BY <1>4, ClientStartShape
<1>5. ASSUME NEW i \in Server, NEW j \in Server, SendAppendEntries(i, j) PROVE Steady
  BY <1>5, SendAppendShape
<1>6. ASSUME NEW i \in Server, CopyBatch(i) \/ ReceiveCommand(i) \/ TakeSnapshot(i) PROVE UNCHANGED rf
  BY <1>6, LocalShape DEF CopyBatch, ReceiveCommand
<1>7. ASSUME NEW i \in Server, FinishBatch(i) PROVE rf'[k].commitIndex >= rf[k].commitIndex
  <2>1. PICK x : rf' = [rf EXCEPT ![i] = [rf[i] EXCEPT !.lastApplied = x]]
    BY <1>7, Zenon DEF FinishBatch
  <2>2. PeerOK(rf[i]) /\ rf[k].commitIndex \in Nat /\ rf = [j \in Server |-> rf[j]]
    BY PeerFacts DEF Before, Good, ElectionInv, ElectionTypes
  <2>3. rf'[k] = rf[k] \/ (k = i /\ rf'[k] = [rf[i] EXCEPT !.lastApplied = x])
    BY <2>1, <2>2
  <2>4. [rf[i] EXCEPT !.lastApplied = x].commitIndex = rf[i].commitIndex
    BY <2>2 DEF PeerOK, PeerFields
  <2>5. rf'[k].commitIndex = rf[k].commitIndex
    BY <2>3, <2>4
  <2> QED
    BY <2>2, <2>5
<1>8. ASSUME NEW i \in Server, BeginSave(i) \/ EndSave(i) PROVE Steady
  BY <1>8, SaveSteady
<1>9. ASSUME NEW c \in calls, CallFails(c) \/ AppendEntriesReturns(c) PROVE Steady
  BY <1>9, ReturnShape
<1>10. ASSUME NEW c \in calls, HandleRequestVote(c) PROVE Steady
  BY <1>10, HandleVoteShape
<1>11. ASSUME NEW c \in calls, CountVote(c) PROVE Steady
  BY <1>11, CountVoteShape
<1>12. ASSUME NEW c \in calls, HandleAppendEntries(c) PROVE Steady
  BY <1>12, HandleAppendShape
<1>13. /\ \A i, j \in Server : ~SendInstallSnapshot(i, j)
       /\ \A c \in calls : ~(HandleInstallSnapshot(c) \/ ReceiveSnapshot(c)
                               \/ FinishInstallSnapshot(c) \/ InstallSnapshotReturns(c))
  BY NoInstall
<1>14. CASE UNCHANGED vars
  BY <1>2, <1>14 DEF vars
<1> QED
  BY <1>1, <1>2, <1>3, <1>4, <1>5, <1>6, <1>7, <1>8, <1>9, <1>10, <1>11, <1>12, <1>13, <1>14,
     Zenon DEF Next

\* What is committed stays where it is, even through a crash.
LEMMA CommittedKept ==
    ASSUME GoodStep, Covered, NoSnapshot, NoSnapshot', NEW i \in Server,
           NEW k \in Held(i), k <= rf[i].commitIndex
    PROVE  k <= LastIndex(rf'[i]) /\ At(rf'[i], k) = At(rf[i], k)
<1>1. rf[i].snapshotIndex = 0 /\ rf'[i].snapshotIndex = 0
  BY DEF NoSnapshot
<1>2. LogsFine /\ LogsFine'
  BY GoodLogs, PTL DEF GoodStep
<1>3. PICK n \in Nat : n = rf[i].commitIndex
  BY DEF GoodStep, Good, BaseInv, CommitTypes
<1>4. PICK L \in Seq(Entry) : L = rf[i].log
  BY <1>2 DEF LogsFine, LogFine
<1>5. PICK N \in Seq(Entry) : N = rf'[i].log
  BY <1>2 DEF LogsFine, LogFine
<1>6. k \in 1 .. Len(L) - 1 /\ k <= n
  BY <1>1, <1>3, <1>4 DEF Held, LastIndex, LogEnd
<1>7. Settled(rf[i].log, rf[i].commitIndex, rf[i].currentTerm)
  BY DEF Covered
<1>8. PICK P \in Seq(Entry) :
        Final(P) /\ n < Len(P) /\ EndTerm(P) <= rf[i].currentTerm /\ Agrees(L, P, n + 1)
  BY <1>3, <1>4, <1>6, <1>7 DEF Settled
<1>9. EndTerm(P) \in Nat /\ SafeSent(P)
  BY <1>8, FinalIs
<1>10. n + 1 \in Nat /\ Agrees(rf[i].log, P, n + 1)
  BY <1>4, <1>8
<1>11. Agrees(N, P, n + 1)
  BY <1>5, <1>8, <1>9, <1>10, AgreesKept
<1>12. k + 1 \in 1 .. n + 1
  BY <1>6
<1>13. L[k + 1] = P[k + 1] /\ N[k + 1] = P[k + 1] /\ n + 1 <= Len(N) /\ Len(N) \in Nat
  BY <1>8, <1>11, <1>12 DEF Agrees
<1>14. k - 0 + 1 = k + 1 /\ k <= 0 + Len(N) - 1
  BY <1>6, <1>13
<1> QED
  BY <1>1, <1>4, <1>5, <1>13, <1>14 DEF LastIndex, LogEnd, At

\* Nobody has crashed.
NoCrash == crashes = 0

LEMMA CrashesNone ==
    ASSUME MaxCrashes = 0, NoCrash, [Next]_vars
    PROVE  NoCrash' /\ \A i \in Server : ~CrashAndRestart(i)
<1>1. \A i \in Server : ~CrashAndRestart(i)
  BY DEF CrashAndRestart, NoCrash
<1>2. CASE UNCHANGED crashes
  BY <1>1, <1>2 DEF NoCrash
<1>3. CASE \E i \in Server : \/ attemptElection(i)
                             \/ \E command \in Command : ClientStart(i, command)
                             \/ \E j \in Server : SendAppendEntries(i, j) \/ SendInstallSnapshot(i, j)
                             \/ CopyBatch(i) \/ ReceiveCommand(i) \/ FinishBatch(i) \/ TakeSnapshot(i)
                             \/ BeginSave(i) \/ EndSave(i)
  BY <1>2, <1>3, Zenon
     DEF attemptElection, ClientStart, SendAppendEntries, SendInstallSnapshot, CopyBatch,
         ReceiveCommand, FinishBatch, TakeSnapshot, BeginSave, EndSave
<1>4. CASE \E c \in calls : \/ CallFails(c)
                            \/ HandleRequestVote(c) \/ CountVote(c)
                            \/ HandleAppendEntries(c) \/ AppendEntriesReturns(c)
                            \/ HandleInstallSnapshot(c) \/ ReceiveSnapshot(c)
                            \/ FinishInstallSnapshot(c) \/ InstallSnapshotReturns(c)
  BY <1>2, <1>4, Zenon
     DEF CallFails, HandleRequestVote, CountVote, HandleAppendEntries, AppendEntriesReturns,
         HandleInstallSnapshot, ReceiveSnapshot, FinishInstallSnapshot, InstallSnapshotReturns
<1> QED
  BY <1>1, <1>2, <1>3, <1>4, Zenon DEF Next, vars

\* The step that CommittedIsStable speaks of.
StableStep ==
    \A i \in Server :
      /\ rf'[i].currentTerm >= rf[i].currentTerm
      /\ rf'[i].commitIndex >= rf[i].commitIndex
      /\ \A k \in Held(i) : k <= rf[i].commitIndex =>
           \/ k <= rf'[i].snapshotIndex
           \/ k <= LastIndex(rf'[i]) /\ At(rf'[i], k) = At(rf[i], k)

LEMMA NextStable ==
    ASSUME CrashesWhenSaved = TRUE, MaxCrashes = 0, NoCrash, CommitInv, NoSnapshot, NoSnapshot', [Next]_vars
    PROVE  StableStep
<1>1. GoodStep
  BY NextCommit
<1>2. \A i \in Server : rf'[i].currentTerm >= rf[i].currentTerm
  BY <1>1 DEF GoodStep, ElectionStep, PeerStep
<1>3. \A i \in Server : rf'[i].commitIndex >= rf[i].commitIndex
  BY CrashesNone, CommitsGrow DEF CommitInv, Before
<1>4. \A i \in Server : \A k \in Held(i) : k <= rf[i].commitIndex =>
        k <= LastIndex(rf'[i]) /\ At(rf'[i], k) = At(rf[i], k)
  BY <1>1, CommittedKept DEF CommitInv
<1> QED
  BY <1>2, <1>3, <1>4 DEF StableStep

-----------------------------------------------------------------------------
(* Services receive the commands in order.                                  *)

\* None stands for a batch that is not there, and is none itself.
NoBatch == \A n, h, f : [next |-> n, hi |-> h, commands |-> f] # None

\* The service is where its applier is, and when the applier has no batch, that is
\* where the peer is.
OrderOK(i) ==
    /\ srv[i].err = FALSE /\ srv[i].lastApplied \in Nat
    /\ batch[i] = None => srv[i].lastApplied = rf[i].lastApplied
    /\ batch[i] # None => /\ batch[i].next = srv[i].lastApplied + 1
                          /\ srv[i].lastApplied <= batch[i].hi /\ rf[i].lastApplied <= batch[i].hi
InOrder == \A i \in Server : OrderOK(i)

LEMMA OrderKept ==
    ASSUME InOrder, NEW i \in Server, batch'[i] = batch[i], srv'[i].err = srv[i].err,
           srv'[i].lastApplied = srv[i].lastApplied, rf'[i].lastApplied = rf[i].lastApplied
    PROVE  OrderOK(i)'
  BY DEF InOrder, OrderOK

LEMMA SteadyOrder ==
    ASSUME InOrder, Steady
    PROVE  InOrder'
<1>1. \A i \in Server : OrderOK(i)'
  BY OrderKept DEF Steady, Onward, Unmoved
<1> QED
  BY <1>1 DEF InOrder

LEMMA ApplierOrder ==
    ASSUME NoBatch, Before, Applied, InOrder, NEW i \in Server,
           CopyBatch(i) \/ ReceiveCommand(i) \/ FinishBatch(i)
    PROVE  InOrder'
<1>1. /\ PeerOK(rf[i]) /\ rf[i].snapshotIndex = 0 /\ rf[i].commitIndex \in Nat /\ rf[i].lastApplied \in Nat
      /\ rf = [j \in Server |-> rf[j]] /\ batch = [j \in Server |-> batch[j]] /\ srv = [j \in Server |-> srv[j]]
  BY PeerFacts DEF Applied, AppliedOK, Before, Good, ElectionInv, ElectionTypes
<1>2. PICK n \in Nat : n = srv[i].lastApplied
  BY DEF InOrder, OrderOK
<1>3. CASE CopyBatch(i)
  <2>1. PICK lo : lo = Max({rf[i].lastApplied, rf[i].snapshotIndex}) + 1
    OBVIOUS
  <2>2. PICK f : /\ batch[i] = None /\ rf[i].lastApplied < rf[i].commitIndex /\ UNCHANGED <<rf, srv>>
                 /\ batch' = [batch EXCEPT ![i] = [next |-> lo, hi |-> rf[i].commitIndex, commands |-> f]]
    BY <1>3, <2>1, Zenon DEF CopyBatch
  <2>3. n = rf[i].lastApplied
    BY <1>2, <2>2 DEF InOrder, OrderOK
  <2>4. Max({n, 0}) = n
    <3>1. n \in Int /\ 0 \in Int /\ n >= 0
      OBVIOUS
    <3>2. Max({n, 0}) \in {n, 0} /\ Max({n, 0}) >= n
      BY <3>1, FewInts
    <3> QED
      BY <3>1, <3>2
  <2>5. PICK b : b = [next |-> lo, hi |-> rf[i].commitIndex, commands |-> f]
    OBVIOUS
  <2>6. b.next = n + 1 /\ b.hi = rf[i].commitIndex /\ b # None
    BY <1>1, <2>1, <2>3, <2>4, <2>5 DEF NoBatch
  <2>7. batch'[i] = b /\ n <= b.hi
    BY <1>1, <2>2, <2>3, <2>5, <2>6
  <2>8. OrderOK(i)'
    BY <1>2, <2>2, <2>3, <2>6, <2>7 DEF InOrder, OrderOK
  <2>9. \A j \in Server \ {i} : OrderOK(j)'
    BY <1>1, <2>2, OrderKept
  <2> QED
    BY <2>8, <2>9 DEF InOrder
<1>4. CASE ReceiveCommand(i)
  <2>1. PICK b : b = batch[i]
    OBVIOUS
  <2>2. PICK log, snap :
          /\ b # None /\ b.next <= b.hi /\ UNCHANGED rf
          /\ batch' = [batch EXCEPT ![i] = [b EXCEPT !.next = b.next + 1]]
          /\ srv' = [srv EXCEPT ![i] = [log |-> log, lastApplied |-> b.next, snap |-> snap,
                                        err |-> srv[i].err \/ b.next # srv[i].lastApplied + 1]]
    BY <1>4, <2>1, Zenon DEF ReceiveCommand
  <2>3. /\ b.next = n + 1 /\ srv[i].err = FALSE /\ rf[i].lastApplied <= b.hi /\ b.hi \in Nat
        /\ DOMAIN b = {"next", "hi", "commands"}
    BY <1>2, <2>1, <2>2 DEF InOrder, OrderOK, Applied, BatchOK
  <2>4. PICK d : d = [b EXCEPT !.next = b.next + 1]
    OBVIOUS
  <2>5. d.next = (n + 1) + 1 /\ d.hi = b.hi
    BY <2>3, <2>4
  <2>6. d # None
    <3>1. d = [next |-> b.next + 1, hi |-> b.hi, commands |-> b.commands]
      BY <2>3, <2>4
    <3> QED
      BY <3>1 DEF NoBatch
  <2>7. PICK e : e = (srv[i].err \/ b.next # srv[i].lastApplied + 1)
    OBVIOUS
  <2>8. e = FALSE
    BY <1>2, <2>3, <2>7
  <2>9. srv'[i].err = FALSE /\ srv'[i].lastApplied = n + 1 /\ batch'[i] = d
    BY <1>1, <2>2, <2>3, <2>4, <2>7, <2>8
  <2>10. n + 1 <= b.hi /\ n + 1 \in Nat
    BY <2>2, <2>3
  <2>11. OrderOK(i)'
    BY <2>2, <2>3, <2>5, <2>6, <2>9, <2>10 DEF OrderOK
  <2>12. \A j \in Server \ {i} : OrderOK(j)'
    BY <1>1, <2>2, OrderKept
  <2> QED
    BY <2>11, <2>12 DEF InOrder
<1>5. CASE FinishBatch(i)
  <2>1. PICK b : b = batch[i]
    OBVIOUS
  <2>2. PICK k : k = Max({rf[i].lastApplied, b.hi})
    OBVIOUS
  <2>3. /\ b # None /\ b.next > b.hi /\ UNCHANGED srv /\ batch' = [batch EXCEPT ![i] = None]
        /\ rf' = [rf EXCEPT ![i] = [rf[i] EXCEPT !.lastApplied = k]]
    BY <1>5, <2>1, <2>2, Zenon DEF FinishBatch
  <2>4. /\ b.next = n + 1 /\ n <= b.hi /\ rf[i].lastApplied <= b.hi /\ b.hi \in Nat
    BY <1>2, <2>1, <2>3 DEF InOrder, OrderOK, Applied, BatchOK
  <2>5. n = b.hi
    BY <2>3, <2>4
  <2>6. k = n
    <3>1. PICK a \in Int : a = rf[i].lastApplied /\ a <= n
      BY <1>1, <2>4, <2>5
    <3>2. n \in Int /\ Max({a, n}) \in {a, n} /\ Max({a, n}) >= n
      BY FewInts
    <3> QED
      BY <2>2, <2>5, <3>1, <3>2
  <2>7. rf'[i].lastApplied = n /\ batch'[i] = None
    BY <1>1, <2>3, <2>6 DEF PeerOK, PeerFields
  <2>8. OrderOK(i)'
    BY <1>2, <2>3, <2>7 DEF InOrder, OrderOK
  <2>9. \A j \in Server \ {i} : OrderOK(j)'
    BY <1>1, <2>3, OrderKept
  <2> QED
    BY <2>8, <2>9 DEF InOrder
<1> QED
  BY <1>3, <1>4, <1>5

LEMMA CrashOrder ==
    ASSUME CrashesWhenSaved = TRUE, Before, Applied, InOrder, NEW i \in Server, CrashAndRestart(i)
    PROVE  InOrder'
<1>1. PICK e : e = encodeState(rf[i])
  OBVIOUS
<1>2. rf'[i] = Make(e) /\ \A j \in Server \ {i} : rf'[j] = rf[j]
  BY <1>1, CrashShape
<1>3. rf[i].snapshotIndex = 0 /\ rf[i].snapshot = << >>
  BY DEF Applied, AppliedOK, Before, NoSnapshot
<1>4. e.snapshotIndex = 0 /\ e.snapshot = << >> /\ disk[i] = e
  BY <1>1, <1>3 DEF encodeState, CrashAndRestart
<1>5. rf'[i].lastApplied = 0
  BY <1>2, <1>4 DEF Make
<1>6. /\ batch' = [batch EXCEPT ![i] = None]
      /\ srv' = [srv EXCEPT ![i] = [MakeService(disk[i].snapshot) EXCEPT !.err = srv[i].err]]
  BY Zenon DEF CrashAndRestart
<1>7. PICK s : s = [MakeService(<< >>) EXCEPT !.err = srv[i].err]
  OBVIOUS
<1>8. srv' = [srv EXCEPT ![i] = s]
  BY <1>4, <1>6, <1>7
<1>9. s.err = srv[i].err /\ s.lastApplied = 0
  BY <1>7 DEF MakeService
<1>10. /\ batch'[i] = None /\ srv'[i] = s
       /\ \A j \in Server \ {i} : batch'[j] = batch[j] /\ srv'[j] = srv[j]
  BY <1>6, <1>8 DEF Applied
<1>11. OrderOK(i)'
  BY <1>5, <1>9, <1>10 DEF InOrder, OrderOK
<1>12. \A j \in Server \ {i} : OrderOK(j)'
  BY <1>2, <1>10, OrderKept
<1> QED
  BY <1>11, <1>12 DEF InOrder

LEMMA NextOrder ==
    ASSUME CrashesWhenSaved = TRUE, NoBatch, Before, NoSnapshot', Applied, InOrder, [Next]_vars
    PROVE  InOrder'
<1>1. ASSUME Steady PROVE InOrder'
  BY <1>1, SteadyOrder
<1>2. CASE UNCHANGED vars
  <2>1. PICK i \in Server : TRUE
    BY PeerAssumption DEF PeerAssumption
  <2> QED
    BY <1>1, <1>2, SaveSteady
<1>3. ASSUME NEW i \in Server, attemptElection(i) PROVE Steady
  BY <1>3, AttemptShape
<1>4. ASSUME NEW i \in Server, NEW command \in Command, ClientStart(i, command) PROVE Steady
  BY <1>4, ClientStartShape
<1>5. ASSUME NEW i \in Server, NEW j \in Server, SendAppendEntries(i, j) PROVE Steady
  BY <1>5, SendAppendShape
<1>6. ASSUME NEW i \in Server, CopyBatch(i) \/ ReceiveCommand(i) \/ FinishBatch(i) PROVE InOrder'
  BY <1>6, ApplierOrder
<1>7. ASSUME NEW i \in Server, TakeSnapshot(i) PROVE InOrder'
  <2>1. UNCHANGED <<rf, batch>> /\ srv' = [srv EXCEPT ![i] = [srv[i] EXCEPT !.snap = 0]]
    BY <1>7, LocalShape, Zenon DEF TakeSnapshot
  <2>2. DOMAIN srv[i] = {"log", "lastApplied", "snap", "err"} /\ srv = [j \in Server |-> srv[j]]
    BY DEF Applied, ServiceOK
  <2>3. PICK s : s = [srv[i] EXCEPT !.snap = 0]
    OBVIOUS
  <2>4. s.err = srv[i].err /\ s.lastApplied = srv[i].lastApplied
    BY <2>2, <2>3
  <2>5. srv'[i] = s /\ \A j \in Server \ {i} : srv'[j] = srv[j]
    BY <2>1, <2>2, <2>3
  <2>6. \A j \in Server : OrderOK(j)'
    BY <2>1, <2>4, <2>5, OrderKept
  <2> QED
    BY <2>6 DEF InOrder
<1>8. ASSUME NEW i \in Server, BeginSave(i) \/ EndSave(i) PROVE Steady
  BY <1>8, SaveSteady
<1>9. ASSUME NEW i \in Server, CrashAndRestart(i) PROVE InOrder'
  BY <1>9, CrashOrder
<1>10. ASSUME NEW c \in calls, CallFails(c) \/ AppendEntriesReturns(c) PROVE Steady
  BY <1>10, ReturnShape
<1>11. ASSUME NEW c \in calls, HandleRequestVote(c) PROVE Steady
  BY <1>11, HandleVoteShape
<1>12. ASSUME NEW c \in calls, CountVote(c) PROVE Steady
  BY <1>12, CountVoteShape
<1>13. ASSUME NEW c \in calls, HandleAppendEntries(c) PROVE Steady
  BY <1>13, HandleAppendShape
<1>14. /\ \A i, j \in Server : ~SendInstallSnapshot(i, j)
       /\ \A c \in calls : ~(HandleInstallSnapshot(c) \/ ReceiveSnapshot(c)
                               \/ FinishInstallSnapshot(c) \/ InstallSnapshotReturns(c))
  BY NoInstall
<1> QED
  BY <1>1, <1>2, <1>3, <1>4, <1>5, <1>6, <1>7, <1>8, <1>9, <1>10, <1>11, <1>12, <1>13, <1>14,
     Zenon DEF Next

-----------------------------------------------------------------------------
(* Logs too short for a snapshot.                                           *)

\* Nobody takes a snapshot of so few entries.
NoInterval == IsFiniteSet(Command) /\ SnapShotInterval > Cardinality(Command) + 1

\* A log has at most one slot for each command that clients have passed, and the
\* first.
Room == Cardinality(started) + 1
Fits ==
    /\ IsFiniteSet(started) /\ started \subseteq Command
    /\ \A i \in Server : Len(rf[i].log) <= Room
    /\ \A c \in Appends : LastSlot(c.args) <= Room
NeverSnaps == NoSnapshot /\ \A i \in Server : srv[i].snap = 0

LEMMA RoomIs ==
    ASSUME NoInterval, IsFiniteSet(started), started \subseteq Command
    PROVE  Room \in Nat /\ Room < SnapShotInterval /\ SnapShotInterval \in Nat
<1>1. Cardinality(started) \in Nat /\ Cardinality(Command) \in Nat
  BY FS_CardinalityType DEF NoInterval
<1>2. Cardinality(started) <= Cardinality(Command)
  BY FS_Subset DEF NoInterval
<1>3. SnapShotInterval \in Nat
  BY RaftAssumption DEF RaftAssumption
<1> QED
  BY <1>1, <1>2, <1>3 DEF Room, NoInterval

\* The log stays as it is, or is joined with what a leader has sent.
Copies(j) == rf'[j].log = rf[j].log \/ \E c \in Appends : Joins(rf'[j].log, rf[j].log, c.args)

\* One peer takes a step that leaves its log alone.
LEMMA OneCopies ==
    ASSUME Before, NEW i, NEW s, rf' = [rf EXCEPT ![i] = s], i \in Server => s.log = rf[i].log
    PROVE  \A j \in Server : Copies(j)
  BY DEF Before, Good, ElectionInv, ElectionTypes, Copies

\* Only a client makes a log longer than all others.
LEMMA OnlyClients ==
    ASSUME CrashesWhenSaved = TRUE, Before, NoSnapshot', [Next]_vars,
           \A i \in Server, command \in Command : ~ClientStart(i, command)
    PROVE  UNCHANGED started /\ \A j \in Server : Copies(j)
<1>1. \A i \in Server : PeerOK(rf[i]) /\ LogOK(rf[i]) /\ rf[i].snapshotIndex = 0
  BY PeerFacts
<1>2. ASSUME UNCHANGED rf PROVE \A j \in Server : Copies(j)
  BY <1>2 DEF Copies
<1>3. ASSUME NEW i \in Server, attemptElection(i) PROVE UNCHANGED started /\ \A j \in Server : Copies(j)
  <2>1. PICK s : s = startElectionState(rf[i], i)
    OBVIOUS
  <2>2. rf' = [rf EXCEPT ![i] = s] /\ UNCHANGED started
    BY <1>3, <2>1, Zenon DEF attemptElection
  <2>3. s.log = rf[i].log
    BY <1>1, <2>1, ElectionKeeps DEF Keeps
  <2> QED
    BY <2>2, <2>3, OneCopies
<1>4. ASSUME NEW i \in Server, NEW j \in Server, SendAppendEntries(i, j)
      PROVE  UNCHANGED started /\ \A k \in Server : Copies(k)
  <2>1. rf' = [rf EXCEPT ![i] = [rf[i] EXCEPT !.inFlight[j] = TRUE]] /\ UNCHANGED started
    BY <1>4, Zenon DEF SendAppendEntries
  <2>2. [rf[i] EXCEPT !.inFlight[j] = TRUE].log = rf[i].log
    BY <1>1 DEF PeerOK, PeerFields
  <2> QED
    BY <2>1, <2>2, OneCopies
<1>5. ASSUME NEW i \in Server, \/ CopyBatch(i) \/ ReceiveCommand(i) \/ TakeSnapshot(i) \/ BeginSave(i)
      PROVE  UNCHANGED started /\ \A j \in Server : Copies(j)
  <2>1. UNCHANGED <<rf, started>>
    BY <1>5, LocalShape DEF CopyBatch, ReceiveCommand, TakeSnapshot, BeginSave
  <2> QED
    BY <1>2, <2>1
<1>6. ASSUME NEW i \in Server, FinishBatch(i) \/ EndSave(i)
      PROVE  UNCHANGED started /\ \A j \in Server : Copies(j)
  <2>1. /\ UNCHANGED started
        /\ \E x : \/ rf' = [rf EXCEPT ![i] = [rf[i] EXCEPT !.lastApplied = x]]
                  \/ rf' = [rf EXCEPT ![i] = [rf[i] EXCEPT !.dirty = x]]
    BY <1>6, Zenon DEF FinishBatch, EndSave
  <2>2. \A x : /\ [rf[i] EXCEPT !.lastApplied = x].log = rf[i].log
               /\ [rf[i] EXCEPT !.dirty = x].log = rf[i].log
    BY <1>1 DEF PeerOK, PeerFields
  <2> QED
    BY <2>1, <2>2, OneCopies
<1>7. ASSUME NEW i \in Server, CrashAndRestart(i) PROVE UNCHANGED started /\ \A j \in Server : Copies(j)
  <2>1. UNCHANGED started /\ rf'[i] = Make(encodeState(rf[i])) /\ \A j \in Server \ {i} : rf'[j] = rf[j]
    BY <1>7, CrashShape DEF CrashAndRestart
  <2>2. rf'[i].log = rf[i].log
    BY <1>1, <2>1, ElectionKeeps DEF Keeps
  <2> QED
    BY <2>1, <2>2 DEF Copies
<1>8. ASSUME NEW c \in calls, CallFails(c) \/ AppendEntriesReturns(c)
      PROVE  UNCHANGED started /\ \A j \in Server : Copies(j)
  <2>1. /\ c.to \in Server
        /\ c.rpc = "AppendEntries" /\ c.reply # None => ArgsOK(c.args) /\ ReplyOK(c.reply)
    BY CallFacts
  <2>2. CASE UNCHANGED <<rf, started>>
    BY <1>2, <2>2
  <2>3. CASE CallFails(c) /\ ~UNCHANGED rf
    <3>1. PICK s : s = sendAndHandle(rf[c.from], c.from, c.to, c.args, c.latest, FALSE, None)
      OBVIOUS
    <3>2. rf' = [rf EXCEPT ![c.from] = s] /\ UNCHANGED started
      BY <2>3, <3>1, Zenon DEF CallFails
    <3>3. c.from \in Server => s.log = rf[c.from].log
      <4>1. c.from \in Server => Keeps(rf[c.from], sendAndHandle(rf[c.from], c.from, c.to, c.args, c.latest, FALSE, None))
        BY <1>1, <2>1, ReplyKeeps
      <4> QED
        BY <3>1, <4>1 DEF Keeps
    <3> QED
      BY <3>2, <3>3, OneCopies
  <2>4. CASE AppendEntriesReturns(c)
    <3>1. PICK s : s = sendAndHandle(rf[c.from], c.from, c.to, c.args, c.latest, TRUE, c.reply)
      OBVIOUS
    <3>2. rf' = [rf EXCEPT ![c.from] = s] /\ UNCHANGED started
      BY <2>4, <3>1, Zenon DEF AppendEntriesReturns
    <3>3. ArgsOK(c.args) /\ ReplyOK(c.reply)
      BY <2>1, <2>4 DEF AppendEntriesReturns
    <3>4. c.from \in Server => s.log = rf[c.from].log
      <4>1. c.from \in Server => Keeps(rf[c.from], sendAndHandle(rf[c.from], c.from, c.to, c.args, c.latest, TRUE, c.reply))
        BY <1>1, <2>1, <3>3, ReplyKeeps
      <4> QED
        BY <3>1, <4>1 DEF Keeps
    <3> QED
      BY <3>2, <3>4, OneCopies
  <2> QED
    BY <1>8, <2>2, <2>3, <2>4 DEF CallFails
<1>9. ASSUME NEW c \in calls, HandleRequestVote(c) PROVE UNCHANGED started /\ \A j \in Server : Copies(j)
  <2>1. PICK s : s = RequestVote(rf[c.to], c.args).rf
    OBVIOUS
  <2>2. rf' = [rf EXCEPT ![c.to] = s] /\ UNCHANGED started
    BY <1>9, <2>1, Zenon DEF HandleRequestVote
  <2>3. c.to \in Server => s.log = rf[c.to].log
    BY <1>1, <2>1, ElectionKeeps DEF Keeps
  <2> QED
    BY <2>2, <2>3, OneCopies
<1>10. ASSUME NEW c \in calls, CountVote(c) PROVE UNCHANGED started /\ \A j \in Server : Copies(j)
  <2>1. PICK s : s = handleVoteReply(rf[c.from], c.from, c.to, c.args, c.reply)
    OBVIOUS
  <2>2. rf' = [rf EXCEPT ![c.from] = s] /\ UNCHANGED started
    BY <1>10, <2>1, Zenon DEF CountVote
  <2>3. c.from \in Server => s.log = rf[c.from].log
    BY <1>1, <2>1, CallFacts, VoteReplyKeeps DEF Keeps
  <2> QED
    BY <2>2, <2>3, OneCopies
<1>11. ASSUME NEW c \in calls, HandleAppendEntries(c) PROVE UNCHANGED started /\ \A j \in Server : Copies(j)
  <2>1. PICK i \in Server : i = c.to
    BY CallFacts
  <2>2. PICK h : h = AppendEntries(rf[i], c.args)
    OBVIOUS
  <2>3. rf' = [rf EXCEPT ![i] = h.rf] /\ UNCHANGED started /\ c.rpc = "AppendEntries"
    BY <1>11, <2>1, <2>2, Zenon DEF HandleAppendEntries
  <2>4. /\ c \in Appends /\ ArgsOK(c.args) /\ c.args.leaderCommit \in Nat /\ c.args.term \in Nat
        /\ rf[i].commitIndex \in Nat
    BY <2>3, CallFacts, PeerFacts DEF CallOK
  <2>5. h.rf.log = rf[i].log \/ Accepts(rf[i], h.rf, c.args)
    BY <1>1, <2>2, <2>4, AppendResult
  <2>6. rf'[i] = h.rf /\ \A j \in Server \ {i} : rf'[j] = rf[j]
    BY <2>3 DEF Before, Good, ElectionInv, ElectionTypes
  <2> QED
    BY <2>3, <2>4, <2>5, <2>6 DEF Copies, Accepts
<1>12. /\ \A i, j \in Server : ~SendInstallSnapshot(i, j)
       /\ \A c \in calls : ~(HandleInstallSnapshot(c) \/ ReceiveSnapshot(c)
                               \/ FinishInstallSnapshot(c) \/ InstallSnapshotReturns(c))
  BY NoInstall
<1>13. CASE UNCHANGED vars
  BY <1>2, <1>13 DEF vars
<1> QED
  BY <1>3, <1>4, <1>5, <1>6, <1>7, <1>8, <1>9, <1>10, <1>11, <1>12, <1>13, Zenon DEF Next

LEMMA FitsKept ==
    ASSUME CrashesWhenSaved = TRUE, GoodStep, Fits, NoSnapshot, NoSnapshot', [Next]_vars
    PROVE  Fits'
<1>1. Before
  BY DEF Before, GoodStep
<1>2. Cardinality(started) \in Nat
  BY FS_CardinalityType DEF Fits
<1>3. \A j \in Server : Len(rf[j].log) \in Nat /\ Len(rf'[j].log) \in Nat
  BY DEF GoodStep, Good, LogInv, LogTypes, LogOK
<1>4. \A c \in Appends : LastSlot(c.args) \in Nat
  <2> TAKE c \in Appends
  <2>1. ArgsOK(c.args)
    BY DEF GoodStep, Good, LogInv, LogTypes
  <2>2. Len(c.args.entries) \in Nat /\ c.args.prevLogIndex \in Nat
    BY <2>1 DEF ArgsOK
  <2> QED
    BY <2>2 DEF LastSlot
<1>5. ASSUME IsFiniteSet(started'), started' \subseteq Command, Room' \in Nat, Room' >= Room,
             \A j \in Server : Len(rf'[j].log) <= Room'
      PROVE  Fits'
  <2>1. ASSUME NEW c \in Appends' PROVE LastSlot(c.args) <= Room'
    <3>1. AppendShape(c)
      BY DEF GoodStep, StepShape
    <3>2. CASE \E d \in Appends : c.args = d.args
      BY <1>2, <1>4, <1>5, <3>2 DEF Fits, Room
    <3>3. CASE \E i \in Server : Sent(c, i)
      <4>1. PICK i \in Server : Sent(c, i)
        BY <3>3
      <4>2. LastSlot(c.args) <= Len(rf[i].log) /\ rf'[i].log = rf[i].log
        BY <4>1 DEF Sent, PartOf
      <4>3. LastSlot(c.args) \in Nat
        <5>1. ArgsOK(c.args)
          BY DEF GoodStep, Good, LogInv, LogTypes
        <5>2. Len(c.args.entries) \in Nat /\ c.args.prevLogIndex \in Nat
          BY <5>1 DEF ArgsOK
        <5> QED
          BY <5>2 DEF LastSlot
      <4>4. Len(rf'[i].log) <= Room' /\ Len(rf'[i].log) \in Nat
        BY <1>3, <1>5
      <4> QED
        BY <1>5, <4>2, <4>3, <4>4
    <3> QED
      BY <3>1, <3>2, <3>3 DEF AppendShape
  <2> QED
    BY <1>5, <2>1 DEF Fits
<1>6. CASE \A i \in Server, command \in Command : ~ClientStart(i, command)
  <2>1. UNCHANGED started /\ \A j \in Server : Copies(j)
    BY <1>1, <1>6, OnlyClients
  <2>2. ASSUME NEW j \in Server PROVE Len(rf'[j].log) <= Room
    <3>1. CASE rf'[j].log = rf[j].log
      BY <3>1 DEF Fits
    <3>2. CASE \E c \in Appends : Joins(rf'[j].log, rf[j].log, c.args)
      <4>1. PICK c \in Appends : Joins(rf'[j].log, rf[j].log, c.args)
        BY <3>2
      <4>2. rf'[j].log = rf[j].log \/ Len(rf'[j].log) = LastSlot(c.args)
        BY <4>1 DEF Joins
      <4> QED
        BY <4>2 DEF Fits
    <3> QED
      BY <2>1, <3>1, <3>2 DEF Copies
  <2>3. Room' = Room /\ Room \in Nat
    BY <1>2, <2>1 DEF Room
  <2>4. IsFiniteSet(started') /\ started' \subseteq Command
    BY <2>1 DEF Fits
  <2> QED
    BY <1>5, <2>2, <2>3, <2>4
<1>7. ASSUME NEW i \in Server, NEW command \in Command, ClientStart(i, command) PROVE Fits'
  <2>1. started' = started \union {command} /\ command \notin started
    BY <1>7 DEF ClientStart
  <2>2. IsFiniteSet(started') /\ Cardinality(started') = Cardinality(started) + 1
    BY <2>1, FS_AddElement DEF Fits
  <2>3. Room' \in Nat /\ Room' = Room + 1 /\ Room \in Nat
    BY <1>2, <2>2 DEF Room
  <2>4. PICK e : rf' = [rf EXCEPT ![i] = [rf[i] EXCEPT !.log = Append(rf[i].log, e),
                                                       !.matchIndex[i] = LogEnd(rf[i]), !.dirty = TRUE]]
    BY <1>7, Zenon DEF ClientStart, Start
  <2>5. PeerOK(rf[i]) /\ rf = [j \in Server |-> rf[j]]
    BY <1>1, PeerFacts DEF Before, Good, ElectionInv, ElectionTypes
  <2>6. rf'[i].log = Append(rf[i].log, e) /\ \A j \in Server \ {i} : rf'[j] = rf[j]
    BY <2>4, <2>5 DEF PeerOK, PeerFields
  <2>7. Len(rf'[i].log) = Len(rf[i].log) + 1
    <3>1. PICK L \in Seq(Entry) : L = rf[i].log
      BY DEF GoodStep, Good, LogInv, LogTypes, LogOK
    <3>2. Len(Append(L, e)) = Len(L) + 1
      BY <3>1
    <3> QED
      BY <2>6, <3>1, <3>2
  <2>8. ASSUME NEW j \in Server PROVE Len(rf'[j].log) <= Room'
    <3>1. Len(rf[j].log) <= Room /\ Len(rf[j].log) \in Nat
      BY <1>3 DEF Fits
    <3>2. Len(rf'[j].log) = Len(rf[j].log) \/ Len(rf'[j].log) = Len(rf[j].log) + 1
      BY <2>6, <2>7
    <3> QED
      BY <2>3, <3>1, <3>2
  <2>9. started' \subseteq Command
    BY <2>1 DEF Fits
  <2>10. Room' >= Room
    BY <2>3
  <2> QED
    BY <1>5, <2>2, <2>3, <2>8, <2>9, <2>10
<1> QED
  BY <1>6, <1>7

\* Without a snapshot to pass on, a peer keeps its snapshotIndex.
LEMMA NoSnapshotNext ==
    ASSUME CrashesWhenSaved = TRUE, Before, NeverSnaps, [Next]_vars
    PROVE  NoSnapshot'
<1>1. \A i \in Server : PeerOK(rf[i]) /\ rf[i].snapshotIndex = 0 /\ ~TakeSnapshot(i)
  BY PeerFacts DEF NeverSnaps, TakeSnapshot
<1>2. ASSUME Steady PROVE NoSnapshot'
  BY <1>1, <1>2 DEF Steady, Onward, Unmoved, NoSnapshot
<1>3. ASSUME UNCHANGED rf PROVE NoSnapshot'
  BY <1>1, <1>3 DEF NoSnapshot
<1>4. ASSUME NEW i \in Server, attemptElection(i) PROVE Steady
  BY <1>4, AttemptShape
<1>5. ASSUME NEW i \in Server, NEW command \in Command, ClientStart(i, command) PROVE Steady
  BY <1>5, ClientStartShape
<1>6. ASSUME NEW i \in Server, NEW j \in Server, SendAppendEntries(i, j) PROVE Steady
  BY <1>6, SendAppendShape
<1>7. ASSUME NEW i \in Server, CopyBatch(i) \/ ReceiveCommand(i) PROVE UNCHANGED rf
  BY <1>7 DEF CopyBatch, ReceiveCommand
<1>8. ASSUME NEW i \in Server, FinishBatch(i) PROVE NoSnapshot'
  <2>1. PICK x : rf' = [rf EXCEPT ![i] = [rf[i] EXCEPT !.lastApplied = x]]
    BY <1>8, Zenon DEF FinishBatch
  <2>2. [rf[i] EXCEPT !.lastApplied = x].snapshotIndex = 0
    BY <1>1 DEF PeerOK, PeerFields
  <2>3. rf = [j \in Server |-> rf[j]]
    BY DEF Before, Good, ElectionInv, ElectionTypes
  <2> QED
    BY <1>1, <2>1, <2>2, <2>3 DEF NoSnapshot
<1>9. ASSUME NEW i \in Server, BeginSave(i) \/ EndSave(i) PROVE Steady
  BY <1>9, SaveSteady
<1>10. ASSUME NEW i \in Server, CrashAndRestart(i) PROVE NoSnapshot'
  <2>1. rf'[i] = Make(encodeState(rf[i])) /\ \A j \in Server \ {i} : rf'[j] = rf[j]
    BY <1>10, CrashShape
  <2>2. rf'[i].snapshotIndex = 0
    BY <1>1, <2>1 DEF Make, encodeState
  <2> QED
    BY <1>1, <2>1, <2>2 DEF NoSnapshot
<1>11. ASSUME NEW c \in calls, CallFails(c) \/ AppendEntriesReturns(c) PROVE Steady
  BY <1>11, ReturnShape
<1>12. ASSUME NEW c \in calls, HandleRequestVote(c) PROVE Steady
  BY <1>12, HandleVoteShape
<1>13. ASSUME NEW c \in calls, CountVote(c) PROVE Steady
  BY <1>13, CountVoteShape
<1>14. ASSUME NEW c \in calls, HandleAppendEntries(c) PROVE Steady
  BY <1>14, HandleAppendShape
<1>15. /\ \A i, j \in Server : ~SendInstallSnapshot(i, j)
       /\ \A c \in calls : ~(HandleInstallSnapshot(c) \/ ReceiveSnapshot(c)
                               \/ FinishInstallSnapshot(c) \/ InstallSnapshotReturns(c))
  BY NoInstall
<1>16. CASE UNCHANGED vars
  BY <1>3, <1>16 DEF vars
<1> QED
  BY <1>1, <1>2, <1>3, <1>4, <1>5, <1>6, <1>7, <1>8, <1>9, <1>10, <1>11, <1>12, <1>13, <1>14, <1>15,
     <1>16, Zenon DEF Next

LEMMA NoneDivides ==
    ASSUME NEW m \in Nat, NEW k \in Nat, 0 < k, k < m
    PROVE  k % m # 0
  OBVIOUS

\* Services have no snapshot to pass on.
LEMMA NoSnapNext ==
    ASSUME CrashesWhenSaved = TRUE, NoInterval, CommitInv, Fits, NeverSnaps, [Next]_vars
    PROVE  \A i \in Server : srv'[i].snap = 0
<1>1. Before
  BY DEF Before, CommitInv, NeverSnaps
<1>2. \A i \in Server : srv[i].snap = 0 /\ ~TakeSnapshot(i)
  BY DEF NeverSnaps, TakeSnapshot
<1>3. srv = [i \in Server |-> srv[i]]
  BY DEF CommitInv, Applied
<1>4. ASSUME UNCHANGED srv PROVE \A i \in Server : srv'[i].snap = 0
  BY <1>2, <1>4
<1>5. ASSUME NEW i \in Server, ReceiveCommand(i) PROVE \A j \in Server : srv'[j].snap = 0
  <2>1. PICK b : b = batch[i]
    OBVIOUS
  <2>2. PICK k : k = b.next
    OBVIOUS
  <2>3. /\ b # None /\ k <= b.hi
        /\ \E log, last, err :
             srv' = [srv EXCEPT ![i] = [log |-> log, lastApplied |-> last,
                                        snap |-> IF (k + 1) % SnapShotInterval = 0 THEN k ELSE 0,
                                        err |-> err]]
    BY <1>5, <2>1, <2>2, Zenon DEF ReceiveCommand
  <2>4. k \in Nat /\ b.hi \in Nat /\ b.hi <= rf[i].commitIndex
    BY <2>1, <2>2, <2>3 DEF CommitInv, Applied, BatchOK
  <2>5. rf[i].commitIndex \in Nat /\ rf[i].commitIndex <= LastIndex(rf[i])
    BY CommitInvOrders DEF IndicesInOrder, CommitInv, Good, BaseInv, CommitTypes, NeverSnaps
  <2>6. LastIndex(rf[i]) = Len(rf[i].log) - 1 /\ Len(rf[i].log) \in Nat
    <3>1. Len(rf[i].log) \in Nat /\ rf[i].snapshotIndex = 0
      BY DEF CommitInv, Good, LogInv, LogTypes, LogOK, NeverSnaps, NoSnapshot
    <3> QED
      BY <3>1 DEF LastIndex, LogEnd
  <2>7. Len(rf[i].log) <= Room /\ Room \in Nat /\ Room < SnapShotInterval /\ SnapShotInterval \in Nat
    BY RoomIs DEF Fits
  <2>8. k + 1 \in Nat /\ 0 < k + 1 /\ k + 1 < SnapShotInterval
    BY <2>3, <2>4, <2>5, <2>6, <2>7
  <2>9. (k + 1) % SnapShotInterval # 0
    BY <2>7, <2>8, NoneDivides
  <2>10. PICK log, last, err :
           srv' = [srv EXCEPT ![i] = [log |-> log, lastApplied |-> last, snap |-> 0, err |-> err]]
    BY <2>3, <2>9, Zenon
  <2> QED
    BY <1>2, <1>3, <2>10
<1>6. ASSUME NEW i \in Server, CrashAndRestart(i) PROVE \A j \in Server : srv'[j].snap = 0
  <2>1. PICK x, y : srv' = [srv EXCEPT ![i] = [MakeService(x) EXCEPT !.err = y]]
    BY <1>6, Zenon DEF CrashAndRestart
  <2>2. [MakeService(x) EXCEPT !.err = y].snap = 0
    BY DEF MakeService
  <2> QED
    BY <1>2, <1>3, <2>1, <2>2
<1>7. ASSUME NEW i \in Server, \/ attemptElection(i)
                               \/ \E command \in Command : ClientStart(i, command)
                               \/ \E j \in Server : SendAppendEntries(i, j)
                               \/ CopyBatch(i) \/ FinishBatch(i) \/ BeginSave(i) \/ EndSave(i)
      PROVE  UNCHANGED srv
  BY <1>7, Zenon DEF attemptElection, ClientStart, SendAppendEntries, CopyBatch, FinishBatch, BeginSave, EndSave
<1>8. ASSUME NEW c \in calls, \/ CallFails(c) \/ HandleRequestVote(c) \/ CountVote(c)
                              \/ HandleAppendEntries(c) \/ AppendEntriesReturns(c)
      PROVE  UNCHANGED srv
  BY <1>8, Zenon DEF CallFails, HandleRequestVote, CountVote, HandleAppendEntries, AppendEntriesReturns
<1>9. /\ \A i, j \in Server : ~SendInstallSnapshot(i, j)
      /\ \A c \in calls : ~(HandleInstallSnapshot(c) \/ ReceiveSnapshot(c)
                              \/ FinishInstallSnapshot(c) \/ InstallSnapshotReturns(c))
  BY <1>1, NoInstall
<1>10. CASE UNCHANGED vars
  BY <1>4, <1>10 DEF vars
<1> QED
  BY <1>2, <1>4, <1>5, <1>6, <1>7, <1>8, <1>9, <1>10, Zenon DEF Next

ShortInv == CommitInv /\ Fits /\ NeverSnaps

LEMMA InitShort == Init => ShortInv
<1> SUFFICES ASSUME Init PROVE ShortInv
  OBVIOUS
<1>1. \A i \in Server : /\ rf[i].log = << [term |-> 0, command |-> None] >>
                        /\ rf[i].snapshotIndex = 0 /\ srv[i].snap = 0
  BY DEF Init, Make, Bootstrap, MakeService
<1>2. started = {} /\ Appends = {}
  BY DEF Init, Appends
<1>3. Room = 1 /\ IsFiniteSet(started)
  BY <1>2, FS_EmptySet DEF Room
<1>4. \A i \in Server : Len(rf[i].log) = 1
  BY <1>1
<1>5. Fits
  <2>1. ASSUME NEW i \in Server PROVE Len(rf[i].log) <= Room
    <3>1. Len(rf[i].log) = 1 /\ Room = 1
      BY <1>3, <1>4
    <3>2. \A x, y : x = 1 /\ y = 1 => x <= y
      OBVIOUS
    <3> QED
      BY <3>1, <3>2, Zenon
  <2> QED
    BY <1>2, <1>3, <2>1 DEF Fits
<1> QED
  BY <1>1, <1>5, InitCommit DEF ShortInv, NeverSnaps, NoSnapshot

LEMMA NextShort ==
    ASSUME CrashesWhenSaved = TRUE, NoInterval, ShortInv, [Next]_vars
    PROVE  ShortInv'
<1>1. Before
  BY DEF ShortInv, CommitInv, NeverSnaps, Before
<1>2. NoSnapshot'
  BY <1>1, NoSnapshotNext DEF ShortInv
<1>3. CommitInv' /\ GoodStep
  BY <1>2, NextCommit DEF ShortInv, NeverSnaps
<1>4. Fits'
  BY <1>2, <1>3, FitsKept DEF ShortInv, NeverSnaps
<1>5. \A i \in Server : srv'[i].snap = 0
  BY NoSnapNext DEF ShortInv
<1> QED
  BY <1>2, <1>3, <1>4, <1>5 DEF ShortInv, NeverSnaps

-----------------------------------------------------------------------------
(* The theorems.                                                            *)

\* A leader has every entry that a peer of its term or an earlier one takes for
\* committed, whatever calls are lost, late or repeated and whoever crashes after
\* saving: how RequestVote compares logs (raft.go:326-330) and the rule by which a
\* leader commits only entries of its own term (raft.go:165-180) are enough together.
THEOREM LeadersAreComplete ==
    ASSUME CrashesWhenSaved = TRUE
    PROVE  Spec /\ []NoSnapshot => []LeaderCompleteness
<1>1. CommitInv /\ NoSnapshot /\ NoSnapshot' /\ [Next]_vars => CommitInv'
  BY NextCommit
<1> QED
  BY <1>1, InitCommit, CommitInvComplete, PTL DEF Spec

\* No two services apply different commands at one index.
THEOREM ServicesAgree ==
    ASSUME CrashesWhenSaved = TRUE
    PROVE  Spec /\ []NoSnapshot => []StateMachineSafety
<1>1. CommitInv /\ NoSnapshot /\ NoSnapshot' /\ [Next]_vars => CommitInv'
  BY NextCommit
<1> QED
  BY <1>1, InitCommit, CommitInvApplies, PTL DEF Spec

\* The indices by which a peer cuts its log are within it: what is applied is
\* committed, what is committed is in the log, and a leader's nextIndex is behind
\* its matchIndex and no later than the end of its log.
THEOREM IndicesStayInOrder ==
    ASSUME CrashesWhenSaved = TRUE
    PROVE  Spec /\ []NoSnapshot => []IndicesInOrder
<1>1. CommitInv /\ NoSnapshot /\ NoSnapshot' /\ [Next]_vars => CommitInv'
  BY NextCommit
<1> QED
  BY <1>1, InitCommit, CommitInvOrders, PTL DEF Spec

\* A peer that does not crash never lowers its term or its commitIndex and never
\* changes or drops an entry it takes for committed, though AppendEntries cuts logs.
THEOREM CommittedStays ==
    ASSUME CrashesWhenSaved = TRUE, MaxCrashes = 0
    PROVE  Spec /\ []NoSnapshot => CommittedIsStable
<1>1. CommitInv /\ NoSnapshot /\ NoSnapshot' /\ [Next]_vars => CommitInv'
  BY NextCommit
<1>2. NoCrash /\ [Next]_vars => NoCrash'
  BY CrashesNone
<1>3. Init => NoCrash
  BY DEF Init, NoCrash
<1>4. CommitInv /\ NoCrash /\ NoSnapshot /\ NoSnapshot' /\ [Next]_vars => [StableStep]_rf
  BY NextStable
<1>5. CommittedIsStable <=> [][StableStep]_rf
  BY PTL DEF CommittedIsStable, StableStep
<1> QED
  BY <1>1, <1>2, <1>3, <1>4, <1>5, InitCommit, PTL DEF Spec

\* A service receives its commands in order, without a gap or a repetition, across
\* elections, restarts and batches: what it reports as "apply out of
\* order" (server.go:139-141) can only come from a snapshot that overtakes a batch.
THEOREM CommandsComeInOrder ==
    ASSUME CrashesWhenSaved = TRUE, \A n, h, f : [next |-> n, hi |-> h, commands |-> f] # None
    PROVE  Spec /\ []NoSnapshot => []AppliedInOrder
<1>1. CommitInv /\ NoSnapshot /\ NoSnapshot' /\ [Next]_vars => CommitInv'
  BY NextCommit
<1>2. NoBatch
  BY DEF NoBatch
<1>3. CommitInv /\ InOrder /\ NoSnapshot /\ NoSnapshot' /\ [Next]_vars => InOrder'
  BY <1>2, NextOrder DEF CommitInv, Before
<1>4. Init => InOrder
  BY DEF Init, InOrder, OrderOK, Make, Bootstrap, MakeService
<1>5. InOrder => AppliedInOrder
  BY DEF InOrder, OrderOK, AppliedInOrder
<1> QED
  BY <1>1, <1>3, <1>4, <1>5, InitCommit, PTL DEF Spec

\* No peer discards a part of its log while a service that snapshots every
\* SnapShotInterval indices (server.go:154) is given fewer commands than that: what
\* the theorems above, LogsMatch among them, say of behaviours without a snapshot
\* is then true of every behaviour.
THEOREM ShortLogsAreWhole ==
    ASSUME CrashesWhenSaved = TRUE, IsFiniteSet(Command), SnapShotInterval > Cardinality(Command) + 1
    PROVE  Spec => []NoSnapshot
<1>1. NoInterval
  BY DEF NoInterval
<1>2. ShortInv /\ [Next]_vars => ShortInv'
  BY <1>1, NextShort
<1>3. ShortInv => NoSnapshot
  BY DEF ShortInv, NeverSnaps
<1> QED
  BY <1>2, <1>3, InitShort, PTL DEF Spec

\* With so few commands, the peers of every behaviour of the specification agree on
\* what is committed and on what is applied.
THEOREM ShortLogsAgree ==
    ASSUME CrashesWhenSaved = TRUE, IsFiniteSet(Command), SnapShotInterval > Cardinality(Command) + 1
    PROVE  Spec => [](LogMatching /\ LeaderCompleteness /\ StateMachineSafety /\ IndicesInOrder)
  BY ShortLogsAreWhole, LogsMatch, LeadersAreComplete, ServicesAgree, IndicesStayInOrder, PTL
=============================================================================
