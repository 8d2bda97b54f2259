--------------------------- MODULE KVClerkProofs ---------------------------
(***************************************************************************)
(* Clerks and server, for any number of clerks, keys, values and versions: *)
(* a Put takes effect at most once, and, when a clerk only names versions  *)
(* it has learnt (Ahead = 0), its answer is true and the operations are    *)
(* linearizable.                                                           *)
(***************************************************************************)
EXTENDS KVClerk, TLAPS

-----------------------------------------------------------------------------
(* The inductive invariant.                                                 *)

Replied(c) == call[c] \notin {NotSent, Sent}

SeenType == seen \in [Clients -> SUBSET Entries]

\* A key that does not exist has no value.
MissingIsEmpty == \A k \in Keys : data[k].version = 0 => data[k].val = Empty

\* Nothing is left of an operation that has returned.
AtRest == \A c \in Clients : op[c] = NoOp => applied[c] = 0 /\ call[c] = NotSent /\ ~resent[c]

\* An orphan of the operation a clerk is still in is a Put that the clerk resends.
OrphanOwned ==
    \A h \in orphans :
        /\ h.op.type = "Put"
        /\ ~h.returned => op[h.clnt] = h.op /\ resent[h.clnt]

\* Once a Put has taken effect its version is outdated, and stays so.
AppliedPast ==
    \A c \in Clients :
        /\ applied[c] <= 1
        /\ applied[c] > 0 => /\ op[c] # NoOp /\ op[c].type = "Put"
                             /\ op[c].version < data[op[c].key].version

\* What a reply in hand says about the Put.
OKApplied ==
    \A c \in Clients :
        op[c] # NoOp /\ op[c].type = "Put" =>
            /\ call[c].err = "OK" => applied[c] = 1
            /\ call[c].err # "OK" /\ ~resent[c] => applied[c] = 0

\* The state of its key is among those an operation has seen.
CurrentSeen == \A c \in Clients : op[c] # NoOp => data[op[c].key] \in seen[c]

\* A Get's reply is a state it has seen; a Put's ErrVersion comes from one.
ReplySeen ==
    \A c \in Clients :
        op[c] # NoOp /\ Replied(c) =>
            /\ op[c].type = "Get" => call[c] \in Linear!GetAnswers(c)
            /\ op[c].type = "Put" =>
                 /\ call[c].val = Empty /\ call[c].version = 0
                 /\ call[c].err \in {"OK", "ErrNoKey", "ErrVersion"}
                 /\ call[c].err = "ErrVersion" =>
                      \E s \in seen[c] : s.version # op[c].version /\ s.version # 0

ClerkInv ==
    /\ TypeOK /\ SeenType /\ MissingIsEmpty /\ AtRest /\ OrphanOwned
    /\ AppliedPast /\ OKApplied /\ CurrentSeen /\ ReplySeen

\* With Ahead = 0: no version is ahead of the server, so a Put's failure is
\* final, and so is the return of one that left orphans behind.
NotAhead ==
    \A c \in Clients : op[c] # NoOp => op[c].version <= data[op[c].key].version

PutSettled ==
    \A c \in Clients :
        op[c] # NoOp /\ op[c].type = "Put" /\ Replied(c) =>
            /\ call[c].err # "ErrNoKey"
            /\ op[c].version < data[op[c].key].version

OrphansSpent ==
    \A h \in orphans : h.returned => h.op.version < data[h.op.key].version

SettledInv == NotAhead /\ PutSettled /\ OrphansSpent

-----------------------------------------------------------------------------
(* The model's operators.                                                   *)

LEMMA ConstantsOK ==
    /\ MaxVersion \in Nat /\ Ahead \in Nat /\ NoOp \notin Ops
    /\ Empty \notin Values
  BY KVAssumption, ClerkAssumption DEF KVAssumption, ClerkAssumption

\* What the fields of an operation are.
LEMMA OpFields ==
    ASSUME NEW o \in Ops
    PROVE  /\ o # NoOp
           /\ o.key \in Keys /\ o.version \in 0 .. MaxVersion /\ o.version \in Nat
           /\ o.type \in {"Get", "Put"}
           /\ o.type = "Put" => o.value \in Values
  BY ConstantsOK DEF Ops

\* An operation in progress is a Get or a Put.
LEMMA InProgress ==
    ASSUME TypeOK, NEW c \in Clients, op[c] # NoOp
    PROVE  op[c] \in Ops
  BY DEF TypeOK

\* What is known of the map's entries.
LEMMA EntryFields ==
    ASSUME TypeOK, NEW k \in Keys
    PROVE  /\ data[k].version \in 0 .. MaxVersion + 1 /\ data[k].version \in Nat
           /\ data[k].val \in Values \union {Empty}
           /\ data[k] \in Entries
  BY ConstantsOK DEF TypeOK, Entries

\* A reply is neither NotSent nor Sent, and a call is one of the three.
LEMMA CallStates ==
    /\ NotSent # Sent /\ NotSent.err = "none" /\ Sent.err = "sent"
    /\ \A a \in Answers : a.err \in Errs /\ a # NotSent /\ a # Sent
  BY DEF NotSent, Sent, Answers, Errs

\* The Put handler either takes effect on the version it names or changes
\* nothing at all, the histories included.
LEMMA ApplyEffect ==
    ASSUME TypeOK, SeenType, CurrentSeen, NEW o \in Ops, o.type = "Put", Apply(o)
    PROVE  LET new == [val |-> o.value, version |-> o.version + 1]
           IN  \/ /\ data[o.key].version = o.version
                  /\ PutReply(data, o.key, o.version) = "OK"
                  /\ data' = [data EXCEPT ![o.key] = new]
                  /\ seen' = [d \in Clients |-> IF op[d] # NoOp /\ op[d].key = o.key
                                                 THEN seen[d] \union {new} ELSE seen[d]]
               \/ /\ data[o.key].version # o.version
                  /\ PutReply(data, o.key, o.version) \in {"ErrNoKey", "ErrVersion"}
                  /\ data' = data /\ seen' = seen
<1> DEFINE new == [val |-> o.value, version |-> o.version + 1]
<1>1. o.key \in Keys /\ o.version \in Nat
  BY OpFields
<1>2. CASE data[o.key].version = o.version
  <2>1. PutReply(data, o.key, o.version) = "OK"
    BY <1>2 DEF PutReply
  <2>2. data' = [data EXCEPT ![o.key] = new]
    BY <1>2, <2>1 DEF Apply, PutData
  <2>3. PutData(data, o.key, o.value, o.version)[o.key] = new
    BY <1>1, <1>2, <2>1 DEF PutData, TypeOK
  <2> QED
    BY <1>2, <2>1, <2>2, <2>3 DEF Apply
<1>3. CASE data[o.key].version # o.version
  <2>1. PutReply(data, o.key, o.version) \in {"ErrNoKey", "ErrVersion"}
    BY <1>3 DEF PutReply
  <2>2. PutData(data, o.key, o.value, o.version) = data
    BY <2>1 DEF PutData
  <2>3. seen' = seen
    BY <2>2 DEF Apply, SeenType, CurrentSeen
  <2> QED
    BY <1>3, <2>1, <2>2, <2>3 DEF Apply
<1> QED
  BY <1>2, <1>3

\* The map keeps its type, and no version goes back.
LEMMA MapStep ==
    ASSUME TypeOK, SeenType, MissingIsEmpty, CurrentSeen, NEW o \in Ops, o.type = "Put",
           Apply(o), UNCHANGED op
    PROVE  /\ data' \in [Keys -> [val : Values \union {Empty}, version : 0 .. MaxVersion + 1]]
           /\ SeenType' /\ MissingIsEmpty' /\ CurrentSeen'
           /\ \A k \in Keys : data[k].version <= data'[k].version
           /\ \A d \in Clients : seen[d] \subseteq seen'[d]
<1> DEFINE new == [val |-> o.value, version |-> o.version + 1]
<1>1. /\ o.key \in Keys /\ o.version \in 0 .. MaxVersion /\ o.version \in Nat
      /\ o.value \in Values /\ MaxVersion \in Nat
  BY OpFields, ConstantsOK
<1>2. CASE data' = data /\ seen' = seen
  BY <1>2, EntryFields DEF TypeOK, SeenType, MissingIsEmpty, CurrentSeen
<1>3. CASE /\ data[o.key].version = o.version
           /\ data' = [data EXCEPT ![o.key] = new]
           /\ seen' = [d \in Clients |-> IF op[d] # NoOp /\ op[d].key = o.key
                                          THEN seen[d] \union {new} ELSE seen[d]]
  <2>1. /\ new \in [val : Values \union {Empty}, version : 0 .. MaxVersion + 1]
        /\ new \in Entries /\ new.version # 0 /\ new.version = o.version + 1
    BY <1>1 DEF Entries
  <2> HIDE DEF new
  <2>2. /\ data' \in [Keys -> [val : Values \union {Empty}, version : 0 .. MaxVersion + 1]]
        /\ data'[o.key] = new /\ \A k \in Keys : k # o.key => data'[k] = data[k]
    BY <1>1, <1>3, <2>1 DEF TypeOK
  <2>3. SeenType' /\ \A d \in Clients : seen[d] \subseteq seen'[d]
    BY <1>3, <2>1 DEF SeenType
  <2>4. MissingIsEmpty'
    BY <2>1, <2>2 DEF MissingIsEmpty
  <2>5. CurrentSeen'
    <3> SUFFICES ASSUME NEW d \in Clients, op[d] # NoOp
                 PROVE  data'[op[d].key] \in seen'[d]
      BY DEF CurrentSeen
    <3>1. op[d].key \in Keys
      BY InProgress, OpFields
    <3>2. data[op[d].key] \in seen[d]
      BY DEF CurrentSeen
    <3> QED
      BY <1>3, <2>2, <3>1, <3>2
  <2>6. \A k \in Keys : data[k].version <= data'[k].version
    BY <1>1, <1>3, <2>1, <2>2, EntryFields
  <2> QED
    BY <2>2, <2>3, <2>4, <2>5, <2>6
<1> QED
  BY <1>2, <1>3, ApplyEffect

-----------------------------------------------------------------------------
(* ClerkInv is an invariant.                                                *)

LEMMA InitClerkInv == Init => ClerkInv
<1> SUFFICES ASSUME Init PROVE ClerkInv
  OBVIOUS
<1>1. Missing \in [val : Values \union {Empty}, version : 0 .. MaxVersion + 1]
  BY ConstantsOK DEF Missing
<1>2. TypeOK /\ SeenType
  BY <1>1, ConstantsOK DEF Init, TypeOK, SeenType, MakeKVServer
<1> QED
  BY <1>2 DEF Init, ClerkInv, MissingIsEmpty, AtRest, OrphanOwned, AppliedPast, OKApplied,
     CurrentSeen, ReplySeen, Replied, MakeKVServer, Missing

\* An invocation starts the histories of its operation.
LEMMA InvokeClerkInv ==
    ASSUME ClerkInv, NEW c \in Clients, NEW o \in Ops, Invoke(c, o)
    PROVE  ClerkInv'
<1>1. /\ o # NoOp /\ o.key \in Keys /\ op[c] = NoOp
      /\ op' = [op EXCEPT ![c] = o] /\ seen' = [seen EXCEPT ![c] = {data[o.key]}]
      /\ answer' = [answer EXCEPT ![c] = NoOp]
      /\ UNCHANGED <<data, resent, call, orphans, applied>>
  BY OpFields DEF Invoke
<1>2. applied[c] = 0 /\ call[c] = NotSent /\ ~resent[c]
  BY <1>1 DEF ClerkInv, AtRest
<1>3. data[o.key] \in Entries
  BY <1>1, EntryFields DEF ClerkInv
<1>4. TypeOK' /\ SeenType' /\ MissingIsEmpty'
  BY <1>1, <1>3 DEF ClerkInv, TypeOK, SeenType, MissingIsEmpty
<1>5. AtRest' /\ OrphanOwned' /\ AppliedPast' /\ OKApplied' /\ CurrentSeen'
  <2>1. AtRest' /\ CurrentSeen'
    BY <1>1 DEF ClerkInv, TypeOK, SeenType, AtRest, CurrentSeen
  <2>2. OrphanOwned'
    BY <1>1, <1>2 DEF ClerkInv, TypeOK, OrphanOwned
  <2>3. AppliedPast' /\ OKApplied'
    BY <1>1, <1>2, CallStates DEF ClerkInv, TypeOK, AppliedPast, OKApplied
  <2> QED
    BY <2>1, <2>2, <2>3
<1>6. ReplySeen'
  <2> SUFFICES ASSUME NEW d \in Clients, op'[d] # NoOp, Replied(d)'
               PROVE  /\ op'[d].type = "Get" => call'[d] \in Linear!GetAnswers(d)'
                      /\ op'[d].type = "Put" =>
                           /\ call'[d].val = Empty /\ call'[d].version = 0
                           /\ call'[d].err \in {"OK", "ErrNoKey", "ErrVersion"}
                           /\ call'[d].err = "ErrVersion" =>
                                \E s \in seen'[d] : s.version # op'[d].version /\ s.version # 0
    BY DEF ReplySeen
  <2>1. d # c
    BY <1>1, <1>2 DEF Replied
  <2>2. op'[d] = op[d] /\ seen'[d] = seen[d] /\ call'[d] = call[d] /\ Replied(d)
    BY <1>1, <2>1 DEF ClerkInv, TypeOK, SeenType, Replied
  <2>3. Linear!GetAnswers(d)' = Linear!GetAnswers(d)
    BY <2>2 DEF Linear!GetAnswers
  <2> QED
    BY <2>2, <2>3 DEF ClerkInv, ReplySeen
<1> QED
  BY <1>4, <1>5, <1>6 DEF ClerkInv

\* Sending a request and failing Calls: only call, resent and orphans change.
LEMMA CallClerkInv ==
    ASSUME ClerkInv, NEW c \in Clients,
           SendCall(c) \/ RequestLost(c) \/ ReplyLost(c) \/ CallAbandoned(c)
    PROVE  ClerkInv'
<1>1. /\ call' = [call EXCEPT ![c] = NotSent] \/ call' = [call EXCEPT ![c] = Sent]
      /\ resent' = resent \/ resent' = [resent EXCEPT ![c] = TRUE]
      /\ \/ orphans' = orphans
         \/ op[c].type = "Put" /\ resent' = [resent EXCEPT ![c] = TRUE]
            /\ orphans' = orphans \union {[clnt |-> c, op |-> op[c], returned |-> FALSE]}
      /\ UNCHANGED <<data, op, answer, applied, seen>>
  BY DEF SendCall, RequestLost, ReplyLost, CallAbandoned, CallFails
<1>2. call[c].err # "OK" \/ resent' = [resent EXCEPT ![c] = TRUE]
  BY CallStates DEF SendCall, RequestLost, ReplyLost, CallAbandoned, CallFails
<1>3. op[c] # NoOp
  BY CallStates DEF ClerkInv, AtRest, SendCall, RequestLost, ReplyLost, CallAbandoned
<1>4. op[c] \in Ops
  BY <1>3, InProgress DEF ClerkInv
<1>5. TypeOK' /\ SeenType' /\ MissingIsEmpty' /\ CurrentSeen' /\ AppliedPast' /\ AtRest'
  <2>1. TypeOK'
    <3>1. [clnt |-> c, op |-> op[c], returned |-> FALSE] \in [clnt : Clients, op : Ops, returned : BOOLEAN]
      BY <1>4
    <3>2. orphans' \subseteq [clnt : Clients, op : Ops, returned : BOOLEAN]
      BY <1>1, <3>1 DEF ClerkInv, TypeOK
    <3>3. call' \in [Clients -> Answers \union {NotSent, Sent}] /\ resent' \in [Clients -> BOOLEAN]
      BY <1>1 DEF ClerkInv, TypeOK
    <3> QED
      BY <1>1, <3>2, <3>3 DEF ClerkInv, TypeOK
  <2>2. SeenType' /\ MissingIsEmpty' /\ CurrentSeen' /\ AppliedPast'
    BY <1>1 DEF ClerkInv, SeenType, MissingIsEmpty, CurrentSeen, AppliedPast
  <2>3. AtRest'
    BY <1>1, <1>3 DEF ClerkInv, TypeOK, AtRest
  <2> QED
    BY <2>1, <2>2, <2>3
<1>6. OrphanOwned'
  BY <1>1, <1>3, <1>4 DEF ClerkInv, TypeOK, OrphanOwned
<1>7. OKApplied'
  BY <1>1, <1>2, CallStates DEF ClerkInv, TypeOK, OKApplied
<1>8. ReplySeen'
  BY <1>1 DEF ClerkInv, TypeOK, ReplySeen, Replied, Linear!GetAnswers
<1> QED
  BY <1>5, <1>6, <1>7, <1>8 DEF ClerkInv

LEMMA HandleGetClerkInv ==
    ASSUME ClerkInv, NEW c \in Clients, HandleGet(c)
    PROVE  ClerkInv'
<1> DEFINE k == op[c].key
           r == GetReply(data, k)
<1>1. /\ call[c] = Sent /\ op[c].type = "Get" /\ call' = [call EXCEPT ![c] = r]
      /\ UNCHANGED <<data, op, resent, orphans, answer, applied, seen>>
  BY DEF HandleGet
<1>2. op[c] # NoOp /\ op[c] \in Ops /\ k \in Keys
  BY <1>1, CallStates, InProgress, OpFields DEF ClerkInv, AtRest
<1>3. r = Linear!Answer(IF data[k].version = 0 THEN "ErrNoKey" ELSE "OK", data[k])
  BY <1>2 DEF GetReply, Linear!Answer, ClerkInv, MissingIsEmpty
<1>4. r \in Answers
  BY <1>2, EntryFields, ConstantsOK DEF GetReply, Answers, Errs, ClerkInv
<1>5. r \in Linear!GetAnswers(c)'
  BY <1>1, <1>2, <1>3 DEF Linear!GetAnswers, ClerkInv, CurrentSeen
<1> HIDE DEF r, k
<1>6. TypeOK' /\ AtRest' /\ OKApplied'
  <2>1. TypeOK'
    BY <1>1, <1>4 DEF ClerkInv, TypeOK
  <2>2. AtRest' /\ OKApplied'
    BY <1>1, <1>2 DEF ClerkInv, TypeOK, AtRest, OKApplied
  <2> QED
    BY <2>1, <2>2
<1>7. SeenType' /\ MissingIsEmpty' /\ OrphanOwned' /\ AppliedPast' /\ CurrentSeen'
  BY <1>1 DEF ClerkInv, SeenType, MissingIsEmpty, OrphanOwned, AppliedPast, CurrentSeen
<1>8. ReplySeen'
  BY <1>1, <1>5 DEF ClerkInv, TypeOK, ReplySeen, Replied, Linear!GetAnswers
<1> QED
  BY <1>6, <1>7, <1>8 DEF ClerkInv

\* What the histories say of an operation survives the Puts of others.
LEMMA ReplySurvives ==
    ASSUME NEW d \in Clients, ClerkInv, op[d] # NoOp, Replied(d), UNCHANGED op,
           call'[d] = call[d], seen[d] \subseteq seen'[d]
    PROVE  /\ op[d].type = "Get" => call'[d] \in Linear!GetAnswers(d)'
           /\ op[d].type = "Put" =>
                /\ call'[d].val = Empty /\ call'[d].version = 0
                /\ call'[d].err \in {"OK", "ErrNoKey", "ErrVersion"}
                /\ call'[d].err = "ErrVersion" =>
                     \E s \in seen'[d] : s.version # op'[d].version /\ s.version # 0
<1>1. Linear!GetAnswers(d) \subseteq Linear!GetAnswers(d)'
  BY DEF Linear!GetAnswers
<1> QED
  BY <1>1 DEF ClerkInv, ReplySeen

\* A Put that took effect stays outdated while versions only grow.
LEMMA PastStaysPast ==
    ASSUME TypeOK, AppliedPast, NEW d \in Clients, applied'[d] = applied[d],
           data' \in [Keys -> [val : Values \union {Empty}, version : 0 .. MaxVersion + 1]],
           \A k \in Keys : data[k].version <= data'[k].version
    PROVE  /\ applied'[d] <= 1
           /\ applied'[d] > 0 => /\ op[d] # NoOp /\ op[d].type = "Put"
                                 /\ op[d].version < data'[op[d].key].version
<1>1. /\ applied[d] <= 1
      /\ applied[d] > 0 => /\ op[d] # NoOp /\ op[d].type = "Put"
                           /\ op[d].version < data[op[d].key].version
  BY DEF AppliedPast
<1>2. op[d] # NoOp => op[d].key \in Keys /\ op[d].version \in Nat
  BY InProgress, OpFields
<1>3. op[d] # NoOp => data[op[d].key].version \in Nat /\ data'[op[d].key].version \in Nat
  BY <1>2, EntryFields, ConstantsOK
<1> QED
  BY <1>1, <1>2, <1>3

LEMMA HandlePutClerkInv ==
    ASSUME ClerkInv, NEW c \in Clients, HandlePut(c)
    PROVE  ClerkInv'
<1> DEFINE o == op[c]
           err == PutReply(data, o.key, o.version)
           r == [err |-> err, val |-> Empty, version |-> 0]
<1>1. /\ call[c] = Sent /\ o.type = "Put" /\ Apply(o) /\ call' = [call EXCEPT ![c] = r]
      /\ applied' = [applied EXCEPT ![c] = IF err = "OK" /\ applied[c] < 2 THEN applied[c] + 1
                                           ELSE applied[c]]
      /\ UNCHANGED <<op, resent, orphans, answer>>
  BY DEF HandlePut
<1>2. o \in Ops /\ o # NoOp /\ o.key \in Keys /\ o.version \in Nat
  BY <1>1, CallStates, InProgress, OpFields DEF ClerkInv, AtRest
<1>3. /\ data' \in [Keys -> [val : Values \union {Empty}, version : 0 .. MaxVersion + 1]]
      /\ SeenType' /\ MissingIsEmpty' /\ CurrentSeen'
      /\ \A k \in Keys : data[k].version <= data'[k].version
      /\ \A d \in Clients : seen[d] \subseteq seen'[d]
  BY <1>1, <1>2, MapStep DEF ClerkInv
<1>4. err \in {"OK", "ErrNoKey", "ErrVersion"}
  BY DEF PutReply
<1>5. r \in Answers /\ r.err = err /\ r.val = Empty /\ r.version = 0
  BY <1>4, ConstantsOK DEF Answers, Errs
<1>6. applied[c] \in {0, 1} /\ \A d \in Clients : applied[d] \in 0 .. 2
  BY DEF ClerkInv, TypeOK, AppliedPast
<1>7. err = "OK" => /\ applied[c] = 0 /\ applied' = [applied EXCEPT ![c] = 1]
                    /\ o.version < data'[o.key].version
  <2>1. err = "OK" => data[o.key].version = o.version
    BY DEF PutReply
  <2>2. err = "OK" => data' = [data EXCEPT ![o.key] = [val |-> o.value, version |-> o.version + 1]]
    BY <1>1, <1>2, <2>1, ApplyEffect DEF ClerkInv
  <2>3. err = "OK" => data'[o.key].version = o.version + 1
    BY <1>2, <2>2 DEF ClerkInv, TypeOK
  <2>4. err = "OK" => applied[c] = 0
    BY <1>2, <1>6, <2>1 DEF ClerkInv, AppliedPast
  <2> HIDE DEF err
  <2>5. err = "OK" => applied' = [applied EXCEPT ![c] = 1]
    <3>1. err = "OK" =>
            (IF err = "OK" /\ applied[c] < 2 THEN applied[c] + 1 ELSE applied[c]) = 1
      BY <2>4
    <3> QED
      BY <1>1, <3>1
  <2>6. err = "OK" => o.version < data'[o.key].version
    BY <1>2, <2>3
  <2> QED
    BY <2>4, <2>5, <2>6
<1>8. err # "OK" => applied' = applied
  BY <1>1 DEF ClerkInv, TypeOK
<1>9. err = "ErrVersion" => data[o.key].version # o.version /\ data[o.key].version # 0
  BY DEF PutReply
<1> HIDE DEF r, err
<1>10. TypeOK'
  BY <1>1, <1>3, <1>5, <1>7, <1>8 DEF ClerkInv, TypeOK
<1>11. AtRest' /\ OrphanOwned'
  BY <1>1, <1>2, <1>7, <1>8 DEF ClerkInv, TypeOK, AtRest, OrphanOwned
<1>12. AppliedPast'
  <2> SUFFICES ASSUME NEW d \in Clients
               PROVE  /\ applied'[d] <= 1
                      /\ applied'[d] > 0 => /\ op[d] # NoOp /\ op[d].type = "Put"
                                            /\ op[d].version < data'[op[d].key].version
    BY <1>1 DEF AppliedPast
  <2>1. CASE d = c /\ err = "OK"
    BY <1>1, <1>2, <1>7, <2>1 DEF ClerkInv, TypeOK
  <2>2. CASE ~(d = c /\ err = "OK")
    <3>1. applied'[d] = applied[d]
      BY <1>7, <1>8, <2>2 DEF ClerkInv, TypeOK
    <3> QED
      BY <1>3, <3>1, PastStaysPast DEF ClerkInv
  <2> QED
    BY <2>1, <2>2
<1>13. OKApplied'
  BY <1>1, <1>5, <1>6, <1>7, <1>8, CallStates DEF ClerkInv, TypeOK, OKApplied
<1>14. ReplySeen'
  <2> SUFFICES ASSUME NEW d \in Clients, op'[d] # NoOp, Replied(d)'
               PROVE  /\ op[d].type = "Get" => call'[d] \in Linear!GetAnswers(d)'
                      /\ op[d].type = "Put" =>
                           /\ call'[d].val = Empty /\ call'[d].version = 0
                           /\ call'[d].err \in {"OK", "ErrNoKey", "ErrVersion"}
                           /\ call'[d].err = "ErrVersion" =>
                                \E s \in seen'[d] : s.version # op'[d].version /\ s.version # 0
    BY <1>1 DEF ReplySeen
  <2>1. CASE d = c
    <3>1. call'[d] = r /\ op'[d] = o
      BY <1>1, <2>1 DEF ClerkInv, TypeOK
    <3>2. data[o.key] \in seen'[d]
      BY <1>2, <1>3, <2>1 DEF ClerkInv, CurrentSeen
    <3> QED
      BY <1>1, <1>4, <1>5, <1>9, <2>1, <3>1, <3>2
  <2>2. CASE d # c
    <3>1. call'[d] = call[d] /\ Replied(d)
      BY <1>1, <2>2 DEF ClerkInv, TypeOK, Replied
    <3> QED
      BY <1>1, <1>3, <3>1, ReplySurvives
  <2> QED
    BY <2>1, <2>2
<1> QED
  BY <1>3, <1>10, <1>11, <1>12, <1>13, <1>14 DEF ClerkInv

LEMMA HandleOrphanClerkInv ==
    ASSUME ClerkInv, NEW h \in orphans, HandleOrphan(h)
    PROVE  ClerkInv'
<1> DEFINE o == h.op
           c == h.clnt
           ok == PutReply(data, o.key, o.version) = "OK"
<1>1. /\ Apply(o) /\ orphans' \subseteq orphans
      /\ applied' = [applied EXCEPT ![c] = IF ok /\ ~h.returned /\ applied[c] < 2 THEN applied[c] + 1
                                           ELSE applied[c]]
      /\ UNCHANGED <<op, resent, call, answer>>
  BY DEF HandleOrphan
<1>2. /\ c \in Clients /\ o \in Ops /\ o.type = "Put" /\ h.returned \in BOOLEAN
      /\ ~h.returned => op[c] = o /\ resent[c]
  BY DEF ClerkInv, TypeOK, OrphanOwned
<1>3. o # NoOp /\ o.key \in Keys /\ o.version \in Nat
  BY <1>2, OpFields
<1>4. /\ data' \in [Keys -> [val : Values \union {Empty}, version : 0 .. MaxVersion + 1]]
      /\ SeenType' /\ MissingIsEmpty' /\ CurrentSeen'
      /\ \A k \in Keys : data[k].version <= data'[k].version
      /\ \A d \in Clients : seen[d] \subseteq seen'[d]
  BY <1>1, <1>2, MapStep DEF ClerkInv
<1>5. applied[c] \in {0, 1} /\ \A d \in Clients : applied[d] \in 0 .. 2
  BY <1>2 DEF ClerkInv, TypeOK, AppliedPast
<1>6. ok /\ ~h.returned => /\ applied[c] = 0 /\ applied' = [applied EXCEPT ![c] = 1]
                           /\ o.version < data'[o.key].version
  <2>1. ok => data[o.key].version = o.version
    BY DEF PutReply
  <2>2. ok => data' = [data EXCEPT ![o.key] = [val |-> o.value, version |-> o.version + 1]]
    BY <1>1, <1>2, <2>1, ApplyEffect DEF ClerkInv
  <2>3. ok => data'[o.key].version = o.version + 1
    BY <1>3, <2>2 DEF ClerkInv, TypeOK
  <2>4. ok /\ ~h.returned => applied[c] = 0
    BY <1>2, <1>3, <1>5, <2>1 DEF ClerkInv, AppliedPast
  <2> HIDE DEF ok, o, c
  <2>5. ok /\ ~h.returned => applied' = [applied EXCEPT ![c] = 1]
    <3>1. ok /\ ~h.returned =>
            (IF ok /\ ~h.returned /\ applied[c] < 2 THEN applied[c] + 1 ELSE applied[c]) = 1
      BY <2>4
    <3> QED
      BY <1>1, <3>1
  <2>6. ok => o.version < data'[o.key].version
    BY <1>3, <2>3
  <2> QED
    BY <2>4, <2>5, <2>6
<1>7. ~(ok /\ ~h.returned) => applied' = applied
  BY <1>1, <1>2 DEF ClerkInv, TypeOK
<1> HIDE DEF ok
<1>8. TypeOK'
  BY <1>1, <1>2, <1>4, <1>6, <1>7 DEF ClerkInv, TypeOK
<1>9. AtRest' /\ OrphanOwned'
  <2>1. OrphanOwned'
    BY <1>1 DEF ClerkInv, OrphanOwned
  <2>2. AtRest'
    BY <1>1, <1>2, <1>3, <1>6, <1>7 DEF ClerkInv, TypeOK, AtRest
  <2> QED
    BY <2>1, <2>2
<1>10. AppliedPast'
  <2> SUFFICES ASSUME NEW d \in Clients
               PROVE  /\ applied'[d] <= 1
                      /\ applied'[d] > 0 => /\ op[d] # NoOp /\ op[d].type = "Put"
                                            /\ op[d].version < data'[op[d].key].version
    BY <1>1 DEF AppliedPast
  <2>1. CASE d = c /\ ok /\ ~h.returned
    BY <1>2, <1>3, <1>6, <2>1 DEF ClerkInv, TypeOK
  <2>2. CASE ~(d = c /\ ok /\ ~h.returned)
    <3>1. applied'[d] = applied[d]
      BY <1>6, <1>7, <2>2 DEF ClerkInv, TypeOK
    <3> QED
      BY <1>4, <3>1, PastStaysPast DEF ClerkInv
  <2> QED
    BY <2>1, <2>2
<1>11. OKApplied'
  <2> SUFFICES ASSUME NEW d \in Clients, op[d] # NoOp, op[d].type = "Put"
               PROVE  /\ call[d].err = "OK" => applied'[d] = 1
                      /\ call[d].err # "OK" /\ ~resent[d] => applied'[d] = 0
    BY <1>1 DEF OKApplied
  <2>1. CASE d = c /\ ok /\ ~h.returned
    BY <1>2, <1>6, <2>1 DEF ClerkInv, TypeOK
  <2>2. CASE ~(d = c /\ ok /\ ~h.returned)
    <3>1. applied'[d] = applied[d]
      BY <1>6, <1>7, <2>2 DEF ClerkInv, TypeOK
    <3> QED
      BY <3>1 DEF ClerkInv, OKApplied
  <2> QED
    BY <2>1, <2>2
<1>12. ReplySeen'
  <2> SUFFICES ASSUME NEW d \in Clients, op'[d] # NoOp, Replied(d)'
               PROVE  /\ op[d].type = "Get" => call'[d] \in Linear!GetAnswers(d)'
                      /\ op[d].type = "Put" =>
                           /\ call'[d].val = Empty /\ call'[d].version = 0
                           /\ call'[d].err \in {"OK", "ErrNoKey", "ErrVersion"}
                           /\ call'[d].err = "ErrVersion" =>
                                \E s \in seen'[d] : s.version # op'[d].version /\ s.version # 0
    BY <1>1 DEF ReplySeen
  <2>1. Replied(d) /\ call'[d] = call[d]
    BY <1>1 DEF Replied
  <2> QED
    BY <1>1, <1>4, <2>1, ReplySurvives
<1> QED
  BY <1>4, <1>8, <1>9, <1>10, <1>11, <1>12 DEF ClerkInv

\* What a returning operation leaves of the orphans.
LEMMA OrphansAfterReturn ==
    ASSUME TypeOK, NEW c \in Clients, Return(c), NEW g \in orphans'
    PROVE  /\ g \in [clnt : Clients, op : Ops, returned : BOOLEAN]
           /\ \E h \in orphans : /\ g.clnt = h.clnt /\ g.op = h.op
                                 /\ g.returned = (h.returned \/ h.clnt = c)
<1>1. PICK h \in orphans : g = [h EXCEPT !.returned = (h.returned \/ h.clnt = c)]
  BY DEF Return
<1>2. h \in [clnt : Clients, op : Ops, returned : BOOLEAN]
  BY DEF TypeOK
<1> QED
  BY <1>1, <1>2

LEMMA ReturnClerkInv ==
    ASSUME ClerkInv, NEW c \in Clients, Return(c)
    PROVE  ClerkInv'
<1>1. /\ Replied(c) /\ op' = [op EXCEPT ![c] = NoOp] /\ call' = [call EXCEPT ![c] = NotSent]
      /\ resent' = [resent EXCEPT ![c] = FALSE] /\ applied' = [applied EXCEPT ![c] = 0]
      /\ seen' = [seen EXCEPT ![c] = {}] /\ answer' = [answer EXCEPT ![c] = Result(c)]
      /\ UNCHANGED data
  BY DEF Return, Replied
<1>2. call[c] \in Answers
  BY <1>1 DEF Replied, ClerkInv, TypeOK
<1>3. Result(c) \in Answers
  BY <1>2 DEF Result, Answers, Errs
<1>4. TypeOK'
  <2>1. orphans' \subseteq [clnt : Clients, op : Ops, returned : BOOLEAN]
    BY OrphansAfterReturn DEF ClerkInv
  <2> QED
    BY <1>1, <1>3, <2>1 DEF ClerkInv, TypeOK
<1>5. SeenType' /\ MissingIsEmpty' /\ AtRest' /\ CurrentSeen'
  BY <1>1 DEF ClerkInv, TypeOK, SeenType, MissingIsEmpty, AtRest, CurrentSeen
<1>6. OrphanOwned'
  <2> SUFFICES ASSUME NEW g \in orphans'
               PROVE  g.op.type = "Put" /\ (~g.returned => op'[g.clnt] = g.op /\ resent'[g.clnt])
    BY DEF OrphanOwned
  <2>1. PICK h \in orphans : /\ g.clnt = h.clnt /\ g.op = h.op
                             /\ g.returned = (h.returned \/ h.clnt = c)
    BY OrphansAfterReturn DEF ClerkInv
  <2>2. /\ h.op.type = "Put" /\ h.clnt \in Clients
        /\ ~h.returned => op[h.clnt] = h.op /\ resent[h.clnt]
    BY DEF ClerkInv, TypeOK, OrphanOwned
  <2> QED
    BY <1>1, <2>1, <2>2 DEF ClerkInv, TypeOK
<1>7. AppliedPast' /\ OKApplied'
  BY <1>1 DEF ClerkInv, TypeOK, AppliedPast, OKApplied
<1>8. ReplySeen'
  BY <1>1 DEF ClerkInv, TypeOK, SeenType, ReplySeen, Replied, Linear!GetAnswers
<1> QED
  BY <1>4, <1>5, <1>6, <1>7, <1>8 DEF ClerkInv

LEMMA NextClerkInv == ClerkInv /\ [Next]_vars => ClerkInv'
<1> SUFFICES ASSUME ClerkInv, [Next]_vars PROVE ClerkInv'
  OBVIOUS
<1>1. CASE UNCHANGED vars
  <2>1. /\ UNCHANGED <<data, op, resent, call, orphans, answer, applied, seen>>
    BY <1>1 DEF vars
  <2>2. ReplySeen'
    BY <2>1 DEF ClerkInv, ReplySeen, Replied, Linear!GetAnswers
  <2> QED
    BY <2>1, <2>2 DEF ClerkInv, TypeOK, SeenType, MissingIsEmpty, AtRest, OrphanOwned,
       AppliedPast, OKApplied, CurrentSeen
<1> QED
  BY <1>1, InvokeClerkInv, CallClerkInv, HandleGetClerkInv, HandlePutClerkInv,
     HandleOrphanClerkInv, ReturnClerkInv
  DEF Next, ClerkStep

\* ClerkInv holds in every reachable state.
LEMMA ClerkInvHolds == Safe => []ClerkInv
  BY InitClerkInv, NextClerkInv, PTL DEF Safe

\* The types of the variables, and the bounds on versions.
THEOREM ClerkTypes == Spec => []TypeOK
<1>1. ClerkInv => TypeOK
  BY DEF ClerkInv
<1> QED
  BY <1>1, ClerkInvHolds, PTL DEF Spec

\* A Put takes effect at most once, however often the clerk resends it and
\* whichever orphaned handlers run (client.go:46-80, labrpc.go:324-336).
THEOREM PutAtMostOnce == Spec => []AtMostOnce
<1>1. ClerkInv => AtMostOnce
  BY DEF ClerkInv, AppliedPast, AtMostOnce
<1> QED
  BY <1>1, ClerkInvHolds, PTL DEF Spec

-----------------------------------------------------------------------------
(* With Ahead = 0: answers are final.                                       *)

LEMMA InitSettled == Init => SettledInv
  BY DEF Init, SettledInv, NotAhead, PutSettled, OrphansSpent

\* A version that is not ahead, or outdated, stays so while versions only grow.
LEMMA VersionsGrow ==
    ASSUME TypeOK,
           data' \in [Keys -> [val : Values \union {Empty}, version : 0 .. MaxVersion + 1]],
           \A k \in Keys : data[k].version <= data'[k].version, NEW o \in Ops
    PROVE  /\ o.version <= data[o.key].version => o.version <= data'[o.key].version
           /\ o.version < data[o.key].version => o.version < data'[o.key].version
<1>1. o.key \in Keys /\ o.version \in Nat
  BY OpFields
<1>2. data[o.key].version \in Nat /\ data'[o.key].version \in Nat
  BY <1>1, EntryFields, ConstantsOK
<1> QED
  BY <1>1, <1>2

\* A handler runs, a clerk's or an orphan, and no operation ends.
LEMMA ApplySettled ==
    ASSUME ClerkInv, SettledInv, NEW o \in Ops, o.type = "Put", Apply(o), UNCHANGED op
    PROVE  /\ NotAhead'
           /\ \A c \in Clients :
                op[c] # NoOp /\ op[c].version < data[op[c].key].version =>
                    op[c].version < data'[op[c].key].version
           /\ \A h \in orphans : h.returned => h.op.version < data'[h.op.key].version
<1>1. /\ data' \in [Keys -> [val : Values \union {Empty}, version : 0 .. MaxVersion + 1]]
      /\ \A k \in Keys : data[k].version <= data'[k].version
  BY MapStep DEF ClerkInv
<1>2. /\ \A h \in orphans : h.op \in Ops
      /\ \A c \in Clients : op[c] # NoOp => op[c] \in Ops
  BY DEF ClerkInv, TypeOK
<1> QED
  BY <1>1, <1>2, VersionsGrow DEF ClerkInv, SettledInv, NotAhead, OrphansSpent

LEMMA NextSettled ==
    ASSUME ClerkInv, SettledInv, [Next]_vars, Ahead = 0
    PROVE  SettledInv'
<1>1. ASSUME NEW c \in Clients, NEW o \in Ops, Invoke(c, o) PROVE SettledInv'
  <2>1. /\ op' = [op EXCEPT ![c] = o] /\ op[c] = NoOp /\ UNCHANGED <<data, call, orphans>>
        /\ o.version <= data[o.key].version + Ahead
    BY <1>1 DEF Invoke
  <2>2. o.version <= data[o.key].version
    BY <2>1, OpFields, EntryFields DEF ClerkInv
  <2>3. call[c] = NotSent
    BY <2>1 DEF ClerkInv, AtRest
  <2> QED
    BY <2>1, <2>2, <2>3 DEF ClerkInv, TypeOK, SettledInv, NotAhead, PutSettled, OrphansSpent, Replied
<1>2. ASSUME NEW c \in Clients,
             SendCall(c) \/ RequestLost(c) \/ ReplyLost(c) \/ CallAbandoned(c)
      PROVE  SettledInv'
  <2>1. /\ call' = [call EXCEPT ![c] = NotSent] \/ call' = [call EXCEPT ![c] = Sent]
        /\ \A h \in orphans' : h.returned => h \in orphans
        /\ UNCHANGED <<data, op>>
    BY <1>2 DEF SendCall, RequestLost, ReplyLost, CallAbandoned, CallFails
  <2> QED
    BY <2>1 DEF ClerkInv, TypeOK, SettledInv, NotAhead, PutSettled, OrphansSpent, Replied
<1>3. ASSUME NEW c \in Clients, HandleGet(c) PROVE SettledInv'
  BY <1>3 DEF HandleGet, ClerkInv, TypeOK, SettledInv, NotAhead, PutSettled, OrphansSpent, Replied
<1>4. ASSUME NEW c \in Clients, HandlePut(c) PROVE SettledInv'
  <2> DEFINE o == op[c]
             err == PutReply(data, o.key, o.version)
  <2>1. /\ call[c] = Sent /\ o.type = "Put" /\ Apply(o) /\ UNCHANGED <<op, orphans>>
        /\ call' = [call EXCEPT ![c] = [err |-> err, val |-> Empty, version |-> 0]]
    BY <1>4 DEF HandlePut
  <2>2. o \in Ops /\ o # NoOp /\ o.key \in Keys /\ o.version \in Nat
    BY <2>1, CallStates, InProgress, OpFields DEF ClerkInv, AtRest
  <2>3. o.version <= data[o.key].version /\ data[o.key].version \in Nat
    BY <2>2, EntryFields DEF ClerkInv, SettledInv, NotAhead
  <2>4. err # "ErrNoKey" /\ o.version < data'[o.key].version
    <3>1. CASE data[o.key].version = o.version
      <4>1. data' = [data EXCEPT ![o.key] = [val |-> o.value, version |-> o.version + 1]]
        BY <2>1, <2>2, <3>1, ApplyEffect DEF ClerkInv
      <4>2. data'[o.key].version = o.version + 1
        BY <2>2, <4>1 DEF ClerkInv, TypeOK
      <4> QED
        BY <2>2, <3>1, <4>2 DEF PutReply
    <3>2. CASE data[o.key].version # o.version
      <4>1. data' = data
        BY <2>1, <2>2, <3>2, ApplyEffect DEF ClerkInv
      <4> QED
        BY <2>2, <2>3, <3>2, <4>1 DEF PutReply
    <3> QED
      BY <3>1, <3>2
  <2>5. /\ NotAhead'
        /\ \A d \in Clients :
             op[d] # NoOp /\ op[d].version < data[op[d].key].version =>
                 op[d].version < data'[op[d].key].version
        /\ \A h \in orphans : h.returned => h.op.version < data'[h.op.key].version
    BY <2>1, <2>2, ApplySettled
  <2> HIDE DEF err
  <2>6. PutSettled'
    BY <2>1, <2>4, <2>5 DEF ClerkInv, TypeOK, SettledInv, PutSettled, Replied
  <2> QED
    BY <2>1, <2>5, <2>6 DEF SettledInv, OrphansSpent
<1>5. ASSUME NEW h \in orphans, HandleOrphan(h) PROVE SettledInv'
  <2>1. h.op \in Ops /\ h.op.type = "Put"
    BY DEF ClerkInv, TypeOK, OrphanOwned
  <2>2. Apply(h.op) /\ orphans' \subseteq orphans /\ UNCHANGED <<op, call>>
    BY <1>5 DEF HandleOrphan
  <2>3. /\ NotAhead'
        /\ \A d \in Clients :
             op[d] # NoOp /\ op[d].version < data[op[d].key].version =>
                 op[d].version < data'[op[d].key].version
        /\ \A g \in orphans : g.returned => g.op.version < data'[g.op.key].version
    BY <2>1, <2>2, ApplySettled
  <2> QED
    BY <2>2, <2>3 DEF SettledInv, PutSettled, OrphansSpent, Replied
<1>6. ASSUME NEW c \in Clients, Return(c) PROVE SettledInv'
  <2>1. /\ Replied(c) /\ op' = [op EXCEPT ![c] = NoOp] /\ call' = [call EXCEPT ![c] = NotSent]
        /\ UNCHANGED data
    BY <1>6 DEF Return, Replied
  <2>2. op[c] # NoOp
    BY <2>1 DEF ClerkInv, AtRest, Replied
  <2>3. OrphansSpent'
    <3> SUFFICES ASSUME NEW g \in orphans', g.returned
                 PROVE  g.op.version < data'[g.op.key].version
      BY DEF OrphansSpent
    <3>1. PICK h \in orphans : /\ g.clnt = h.clnt /\ g.op = h.op
                               /\ g.returned = (h.returned \/ h.clnt = c)
      BY <1>6, OrphansAfterReturn DEF ClerkInv
    <3>2. CASE h.returned
      BY <2>1, <3>1, <3>2 DEF SettledInv, OrphansSpent
    <3>3. CASE ~h.returned
      <4>1. h.clnt = c /\ op[c] = h.op /\ h.op.type = "Put"
        BY <3>1, <3>3 DEF ClerkInv, OrphanOwned
      <4> QED
        BY <2>1, <2>2, <3>1, <4>1 DEF SettledInv, PutSettled
    <3> QED
      BY <3>2, <3>3
  <2> QED
    BY <2>1, <2>3 DEF ClerkInv, TypeOK, SettledInv, NotAhead, PutSettled, Replied
<1>7. CASE UNCHANGED vars
  BY <1>7 DEF vars, SettledInv, NotAhead, PutSettled, OrphansSpent, Replied
<1> QED
  BY <1>1, <1>2, <1>3, <1>4, <1>5, <1>6, <1>7 DEF Next, ClerkStep

\* SettledInv holds in every reachable state.
LEMMA SettledHolds == ASSUME Ahead = 0 PROVE Safe => []SettledInv
<1>1. ClerkInv /\ SettledInv /\ [Next]_vars => SettledInv'
  BY NextSettled
<1> QED
  BY <1>1, InitSettled, ClerkInvHolds, PTL DEF Safe

\* A clerk that names only versions it has learnt gets true answers: OK if the
\* Put took effect, ErrVersion only if it did not and never will (client.go:46-80).
THEOREM TrueAnswers == ASSUME Ahead = 0 PROVE Spec => []AnswerIsTrue
<1>1. ClerkInv /\ SettledInv => AnswerIsTrue
  <2> SUFFICES ASSUME ClerkInv, SettledInv, NEW c \in Clients, op[c] # NoOp,
                      op[c].type = "Put", call[c] \notin {NotSent, Sent}
               PROVE  /\ Result(c).err = "OK" => applied[c] = 1
                      /\ Result(c).err \in {"ErrVersion", "ErrNoKey"} => applied[c] = 0
    BY DEF AnswerIsTrue
  <2>1. call[c] \in Answers /\ call[c].err # "ErrNoKey"
    BY DEF ClerkInv, TypeOK, SettledInv, PutSettled, Replied
  <2>2. CASE resent[c] /\ call[c].err = "ErrVersion"
    <3>1. Result(c).err = "ErrMaybe"
      BY <2>1, <2>2 DEF Result, Answers
    <3> QED
      BY <3>1
  <2>3. CASE ~(resent[c] /\ call[c].err = "ErrVersion")
    <3>1. Result(c) = call[c]
      BY <2>3 DEF Result
    <3> QED
      BY <2>1, <2>3, <3>1 DEF ClerkInv, OKApplied
  <2> QED
    BY <2>2, <2>3
<1> QED
  BY <1>1, ClerkInvHolds, SettledHolds, PTL DEF Spec

-----------------------------------------------------------------------------
(* With Ahead = 0: the clerks and the server implement KVLinear.            *)

\* How the map of done flags changes with applied.
LEMMA DoneFlips ==
    ASSUME applied \in [Clients -> 0 .. 2], NEW c \in Clients, NEW n \in {0, 1},
           applied' = [applied EXCEPT ![c] = n]
    PROVE  [d \in Clients |-> applied'[d] > 0] = [[d \in Clients |-> applied[d] > 0] EXCEPT ![c] = (n > 0)]
<1>1. ASSUME NEW d \in Clients PROVE (applied'[d] > 0) = (IF d = c THEN n > 0 ELSE applied[d] > 0)
  <2>1. CASE d = c
    <3>1. applied'[d] = n
      BY <2>1
    <3> QED
      BY <2>1, <3>1
  <2>2. CASE d # c
    <3>1. applied'[d] = applied[d]
      BY <2>2
    <3> QED
      BY <2>2, <3>1
  <2> QED
    BY <2>1, <2>2
<1> QED
  BY <1>1, Zenon

\* A state change of the server that takes effect is a Perform of the clerk
\* whose Put it was; one that does not is a stutter.
LEMMA ApplyRefines ==
    ASSUME ClerkInv, NEW c \in Clients, op[c] # NoOp, op[c].type = "Put", Apply(op[c]),
           UNCHANGED <<op, answer>>,
           IF PutReply(data, op[c].key, op[c].version) = "OK"
           THEN applied' = [applied EXCEPT ![c] = 1]
           ELSE applied' = applied
    PROVE  Linear!Perform(c) \/ UNCHANGED Linear!linVars
<1> DEFINE o == op[c]
           done == [d \in Clients |-> applied[d] > 0]
<1>1. o \in Ops /\ o.key \in Keys /\ o.version \in Nat
  BY InProgress, OpFields DEF ClerkInv
<1>2. CASE data[o.key].version = o.version
  <2>1. /\ PutReply(data, o.key, o.version) = "OK"
        /\ data' = [data EXCEPT ![o.key] = [val |-> o.value, version |-> o.version + 1]]
        /\ seen' = [d \in Clients |-> IF op[d] # NoOp /\ op[d].key = o.key
                                      THEN seen[d] \union {[val |-> o.value, version |-> o.version + 1]}
                                      ELSE seen[d]]
    BY <1>1, <1>2, ApplyEffect DEF ClerkInv
  <2>2. ~(applied[c] > 0)
    BY <1>1, <1>2 DEF ClerkInv, AppliedPast
  <2>3. applied' = [applied EXCEPT ![c] = 1]
    BY <2>1
  <2>4. done' = [done EXCEPT ![c] = TRUE]
    <3>1. done' = [done EXCEPT ![c] = (1 > 0)]
      BY <2>3, DoneFlips DEF ClerkInv, TypeOK
    <3>2. (1 > 0) = TRUE
      OBVIOUS
    <3> HIDE DEF done
    <3> QED
      BY <3>1, <3>2, Zenon
  <2>5. ~done[c]
    BY <2>2
  <2> HIDE DEF done
  <2> QED
    BY <1>2, <2>1, <2>4, <2>5 DEF Linear!Perform, done
<1>3. CASE data[o.key].version # o.version
  <2>1. /\ PutReply(data, o.key, o.version) \in {"ErrNoKey", "ErrVersion"}
        /\ data' = data /\ seen' = seen
    BY <1>1, <1>3, ApplyEffect DEF ClerkInv
  <2>2. applied' = applied
    BY <2>1
  <2> QED
    BY <2>1, <2>2 DEF Linear!linVars
<1> QED
  BY <1>2, <1>3

\* What a clerk returns is an answer that KVLinear allows.
LEMMA ReturnAllowed ==
    ASSUME ClerkInv, SettledInv, NEW c \in Clients, op[c] # NoOp, Replied(c)
    PROVE  Result(c) \in IF op[c].type = "Get" THEN Linear!GetAnswers(c) ELSE Linear!PutAnswers(c)
<1> DEFINE o == op[c]
<1>1. o \in Ops /\ o.type \in {"Get", "Put"} /\ call[c] \in Answers
  BY InProgress, OpFields DEF ClerkInv, TypeOK, Replied
<1>2. CASE o.type = "Get"
  BY <1>2 DEF Result, ClerkInv, ReplySeen
<1>3. CASE o.type = "Put"
  <2>1. /\ call[c].val = Empty /\ call[c].version = 0
        /\ call[c].err \in {"OK", "ErrVersion"}
        /\ call[c].err = "ErrVersion" => \E s \in seen[c] : s.version # o.version /\ s.version # 0
    BY <1>3 DEF ClerkInv, ReplySeen, SettledInv, PutSettled
  <2>2. CASE call[c].err = "OK"
    <3>1. applied[c] > 0
      BY <1>3, <2>2 DEF ClerkInv, OKApplied
    <3>2. Result(c) = Linear!Answer("OK", Linear!Missing)
      BY <1>1, <2>1, <2>2 DEF Result, Linear!Answer, Linear!Missing, Answers
    <3> QED
      BY <1>3, <3>1, <3>2 DEF Linear!PutAnswers
  <2>3. CASE call[c].err = "ErrVersion" /\ resent[c]
    <3>1. Result(c) = Linear!Answer("ErrMaybe", Linear!Missing)
      BY <1>1, <1>3, <2>1, <2>3 DEF Result, Linear!Answer, Linear!Missing, Answers
    <3> QED
      BY <1>3, <3>1 DEF Linear!PutAnswers
  <2>4. CASE call[c].err = "ErrVersion" /\ ~resent[c]
    <3>1. applied[c] = 0
      BY <1>3, <2>4 DEF ClerkInv, OKApplied
    <3>2. Result(c) = Linear!Answer("ErrVersion", Linear!Missing)
      BY <1>1, <2>1, <2>4 DEF Result, Linear!Answer, Linear!Missing, Answers
    <3>3. PICK s \in seen[c] : s.version # o.version /\ s.version # 0
      BY <2>1, <2>4
    <3>4. ~[d \in Clients |-> applied[d] > 0][c]
      <4>1. ~(applied[c] > 0)
        BY <3>1
      <4> QED
        BY <4>1, Zenon
    <3>5. Result(c) \in {Linear!Answer(IF t.version = 0 THEN "ErrNoKey" ELSE "ErrVersion", Linear!Missing) :
                            t \in {u \in seen[c] : u.version # o.version}}
      BY <3>2, <3>3
    <3>6. Result(c) \in Linear!PutAnswers(c)
      BY <3>4, <3>5 DEF Linear!PutAnswers
    <3> QED
      BY <1>3, <3>6
  <2> QED
    BY <2>1, <2>2, <2>3, <2>4
<1> QED
  BY <1>1, <1>2, <1>3

\* The initial states, and every step, map to those of KVLinear.
LEMMA StepRefines ==
    ASSUME ClerkInv, SettledInv, [Next]_vars
    PROVE  [Linear!Next]_(Linear!linVars)
<1>1. ASSUME NEW c \in Clients, NEW o \in Ops, Invoke(c, o) PROVE Linear!Invoke(c, o)
  BY <1>1 DEF Invoke, Linear!Invoke
<1>2. ASSUME NEW c \in Clients,
             SendCall(c) \/ RequestLost(c) \/ ReplyLost(c) \/ CallAbandoned(c) \/ HandleGet(c)
      PROVE  UNCHANGED Linear!linVars
  <2>1. UNCHANGED <<data, op, answer, applied, seen>>
    BY <1>2 DEF SendCall, RequestLost, ReplyLost, CallAbandoned, CallFails, HandleGet
  <2> QED
    BY <2>1 DEF Linear!linVars
<1>3. ASSUME NEW c \in Clients, HandlePut(c)
      PROVE  Linear!Perform(c) \/ UNCHANGED Linear!linVars
  <2> DEFINE err == PutReply(data, op[c].key, op[c].version)
  <2>1. /\ call[c] = Sent /\ op[c].type = "Put" /\ Apply(op[c]) /\ UNCHANGED <<op, answer>>
        /\ applied' = [applied EXCEPT ![c] = IF err = "OK" /\ applied[c] < 2 THEN applied[c] + 1
                                             ELSE applied[c]]
    BY <1>3 DEF HandlePut
  <2>2. op[c] # NoOp /\ op[c].key \in Keys /\ op[c].version \in Nat
    BY <2>1, CallStates, InProgress, OpFields DEF ClerkInv, AtRest
  <2>3. err = "OK" => applied[c] = 0
    BY <2>2 DEF PutReply, ClerkInv, TypeOK, AppliedPast
  <2>4. err = "OK" =>
          (IF err = "OK" /\ applied[c] < 2 THEN applied[c] + 1 ELSE applied[c]) = 1
    BY <2>3
  <2>5. err # "OK" => applied' = applied
    BY <2>1 DEF ClerkInv, TypeOK
  <2>6. err = "OK" => applied' = [applied EXCEPT ![c] = 1]
    BY <2>1, <2>4
  <2> QED
    BY <2>1, <2>2, <2>5, <2>6, ApplyRefines
<1>4. ASSUME NEW h \in orphans, HandleOrphan(h)
      PROVE  (h.clnt \in Clients /\ Linear!Perform(h.clnt)) \/ UNCHANGED Linear!linVars
  <2> DEFINE c == h.clnt
             ok == PutReply(data, h.op.key, h.op.version) = "OK"
  <2>1. /\ Apply(h.op) /\ UNCHANGED <<op, answer>>
        /\ applied' = [applied EXCEPT ![c] = IF ok /\ ~h.returned /\ applied[c] < 2
                                             THEN applied[c] + 1 ELSE applied[c]]
    BY <1>4 DEF HandleOrphan
  <2>2. /\ c \in Clients /\ h.op \in Ops /\ h.op.type = "Put" /\ h.returned \in BOOLEAN
        /\ ~h.returned => op[c] = h.op
    BY DEF ClerkInv, TypeOK, OrphanOwned
  <2>3. h.op # NoOp /\ h.op.key \in Keys /\ h.op.version \in Nat
    BY <2>2, OpFields
  <2>4. CASE h.returned
    <3>1. data[h.op.key].version # h.op.version
      BY <2>3, <2>4 DEF SettledInv, OrphansSpent
    <3>2. data' = data /\ seen' = seen
      BY <2>1, <2>2, <3>1, ApplyEffect DEF ClerkInv
    <3>3. applied' = applied
      BY <2>1, <2>2, <2>4 DEF ClerkInv, TypeOK
    <3> QED
      BY <2>1, <3>2, <3>3 DEF Linear!linVars
  <2>5. CASE ~h.returned
    <3>1. op[c] = h.op
      BY <2>2, <2>5
    <3>2. ok => applied[c] = 0
      BY <2>2, <2>3, <3>1 DEF PutReply, ClerkInv, TypeOK, AppliedPast
    <3>3. ok => (IF ok /\ ~h.returned /\ applied[c] < 2 THEN applied[c] + 1 ELSE applied[c]) = 1
      BY <2>5, <3>2
    <3>4. ok => applied' = [applied EXCEPT ![c] = 1]
      BY <2>1, <3>3
    <3>5. ~ok => applied' = applied
      BY <2>1, <2>2 DEF ClerkInv, TypeOK
    <3> QED
      BY <2>1, <2>2, <2>3, <3>1, <3>4, <3>5, ApplyRefines
  <2> QED
    BY <2>2, <2>4, <2>5
<1>5. ASSUME NEW c \in Clients, Return(c)
      PROVE  /\ op[c] # NoOp
             /\ \E a \in IF op[c].type = "Get" THEN Linear!GetAnswers(c) ELSE Linear!PutAnswers(c) :
                    Linear!Respond(c, a)
  <2>1. /\ Replied(c) /\ op' = [op EXCEPT ![c] = NoOp] /\ applied' = [applied EXCEPT ![c] = 0]
        /\ seen' = [seen EXCEPT ![c] = {}] /\ answer' = [answer EXCEPT ![c] = Result(c)]
        /\ UNCHANGED data
    BY <1>5 DEF Return, Replied
  <2>2. op[c] # NoOp
    BY <2>1 DEF ClerkInv, AtRest, Replied
  <2>3. [d \in Clients |-> applied'[d] > 0] = [[d \in Clients |-> applied[d] > 0] EXCEPT ![c] = FALSE]
    <3>1. [d \in Clients |-> applied'[d] > 0] = [[d \in Clients |-> applied[d] > 0] EXCEPT ![c] = (0 > 0)]
      BY <2>1, DoneFlips DEF ClerkInv, TypeOK
    <3>2. (0 > 0) = FALSE
      OBVIOUS
    <3> QED
      BY <3>1, <3>2, Zenon
  <2>4. \A a : a = Result(c) => Linear!Respond(c, a)
    BY <2>1, <2>3 DEF Linear!Respond
  <2>5. Result(c) \in IF op[c].type = "Get" THEN Linear!GetAnswers(c) ELSE Linear!PutAnswers(c)
    BY <2>1, <2>2, ReturnAllowed
  <2> QED
    BY <2>2, <2>4, <2>5
<1>6. CASE UNCHANGED vars
  BY <1>6 DEF vars, Linear!linVars
<1> QED
  BY <1>1, <1>2, <1>3, <1>4, <1>5, <1>6 DEF Next, ClerkStep, Linear!Next

\* The clerks and the server, with lost messages, resends and orphaned handlers,
\* implement the sequential model made concurrent (models1/kv.go): every
\* operation appears to take effect at one point between invocation and return.
THEOREM ClerkLinearizable == ASSUME Ahead = 0 PROVE Spec => Linearizable
<1>1. Init => Linear!Init
  <2> SUFFICES ASSUME Init PROVE Linear!Init
    OBVIOUS
  <2>1. ASSUME NEW c \in Clients PROVE (applied[c] > 0) = FALSE
    <3>1. applied[c] = 0
      BY DEF Init
    <3> QED
      BY <3>1
  <2>2. [c \in Clients |-> applied[c] > 0] = [c \in Clients |-> FALSE]
    BY <2>1, Zenon
  <2> QED
    BY <2>2 DEF Init, Linear!Init, MakeKVServer, Missing, Linear!Missing
<1>2. ClerkInv /\ SettledInv /\ [Next]_vars => [Linear!Next]_(Linear!linVars)
  BY StepRefines
<1> QED
  BY <1>1, <1>2, ClerkInvHolds, SettledHolds, PTL DEF Spec, Safe, Linearizable, Linear!Spec
=============================================================================
