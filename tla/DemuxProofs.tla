---------------------------- MODULE DemuxProofs ----------------------------
(***************************************************************************)
(* The demultiplexer gives every caller its own reply, and never meets a   *)
(* reply without a call, for any number of callers and any stream size.    *)
(***************************************************************************)
EXTENDS Demux, TLAPS

-----------------------------------------------------------------------------
(* The inductive invariant.                                                 *)

\* The types of the variables the argument is about; tags are not bounded.
Requests == [tag : Nat, who : Callers]
Types ==
    /\ nextTag \in Nat /\ calls \subseteq Nat /\ fatal \in BOOLEAN
    /\ conn \in {"dial", "init", "ready"}
    /\ pc \in [Callers -> {"idle", "put", "lock", "write", "wait", "done"}]
    /\ tag \in [Callers -> Nat]
    /\ got \in [Callers -> Callers \union {None, "error"}]
    /\ reader \in [at : {"none", "read", "deliver", "closing", "drain", "fail", "exit"},
                   tag : Nat, who : Callers \union {None}, left : SUBSET Nat]
    /\ toSrv \in Seq(Requests \union {InitMsg})
    /\ toClnt \in Seq(Requests)
    /\ srv \in [reading : BOOLEAN, closed : BOOLEAN, mu : Callers \union {None},
                closing : BOOLEAN]
    /\ serving \subseteq [tag : Nat, who : Callers, at : {"serve", "lock", "write"}]
    /\ served \in [Callers -> 0 .. 2]

\* Tags come from nextTag, so no two calls have the same one.
TagsUnique ==
    /\ \A c \in Callers : pc[c] # "idle" => tag[c] < nextTag
    /\ \A c, d \in Callers : pc[c] # "idle" /\ pc[d] # "idle" /\ tag[c] = tag[d] => c = d

\* Nobody calls before the connection is made; requests are only read once the
\* InitMsg has been.
Opened ==
    /\ conn = "dial" => \A c \in Callers : pc[c] = "idle"
    /\ srv.reading => conn = "ready"

\* The reader has not failed yet.
Reading == reader.at \in {"none", "read", "deliver"}

\* m stands for the request of a caller that waits for its reply.
Outgoing(m) ==
    /\ m.who \in Callers /\ m.tag = tag[m.who]
    /\ pc[m.who] \in {"wait", "done"}
    /\ Reading => pc[m.who] = "wait"
    /\ reader.at = "deliver" => m.who # reader.who

\* Wherever a request is on its way to the server and back, ...
InToSrv ==
    \A i \in 1 .. Len(toSrv) :
        \/ conn = "init" /\ i = 1 /\ toSrv[i] = InitMsg
        \/ Outgoing(toSrv[i]) /\ served[toSrv[i].who] = 0
InServer ==
    \A h \in serving :
        /\ Outgoing(h)
        /\ served[h.who] = IF h.at = "serve" THEN 0 ELSE 1
InToClnt ==
    \A i \in 1 .. Len(toClnt) : Outgoing(toClnt[i]) /\ served[toClnt[i].who] = 1

\* ... it is nowhere else.
OncePlace ==
    /\ \A i, j \in 1 .. Len(toSrv) : toSrv[i].who = toSrv[j].who => i = j
    /\ \A i, j \in 1 .. Len(toClnt) : toClnt[i].who = toClnt[j].who => i = j
    /\ \A g, h \in serving : g.who = h.who => g = h
    /\ \A h \in serving :
         /\ \A i \in 1 .. Len(toSrv) : toSrv[i].who # h.who
         /\ \A i \in 1 .. Len(toClnt) : toClnt[i].who # h.who

\* A request that was not written is not served.
NotWritten == \A c \in Callers : pc[c] \in {"idle", "put", "lock", "write"} => served[c] = 0

\* Until the reader fails, a call that waits is in the callMap, but for the one
\* whose reply the reader is handing over.
InCallMap ==
    \A c \in Callers :
        /\ Reading /\ pc[c] \in {"lock", "write", "wait"} =>
             tag[c] \in calls \/ (reader.at = "deliver" /\ reader.tag = tag[c])
        /\ reader.at = "deliver" /\ reader.who = c =>
             reader.tag = tag[c] /\ pc[c] = "wait" /\ served[c] = 1

ReaderHolds ==
    /\ reader.at = "deliver" => reader.who \in Callers
    /\ reader.at \in {"drain", "fail"} => reader.left \subseteq calls

DemuxInv ==
    /\ Types /\ TagsUnique /\ Opened /\ InToSrv /\ InServer /\ InToClnt
    /\ OncePlace /\ NotWritten /\ InCallMap /\ ReaderHolds
    /\ OwnReply /\ RepliesMatch

-----------------------------------------------------------------------------
(* Streams.                                                                 *)

LEMMA ConstantsOK == None \notin Callers /\ "error" \notin Callers
  BY DemuxAssumption DEF DemuxAssumption

\* What reading the first message of a stream leaves.
LEMMA TailOf ==
    ASSUME NEW S, NEW s \in Seq(S), s # <<>>
    PROVE  /\ Tail(s) \in Seq(S) /\ Len(s) \in Nat /\ Len(s) >= 1 /\ Len(Tail(s)) = Len(s) - 1
           /\ Head(s) = s[1] /\ s[1] \in S
           /\ \A i \in 1 .. Len(Tail(s)) : i + 1 \in 1 .. Len(s) /\ i + 1 # 1 /\ Tail(s)[i] = s[i + 1]
  OBVIOUS

\* What writing a message to a stream adds.
LEMMA AppendOf ==
    ASSUME NEW S, NEW s \in Seq(S), NEW m \in S
    PROVE  /\ Append(s, m) \in Seq(S) /\ Len(s) \in Nat /\ Len(Append(s, m)) = Len(s) + 1
           /\ \A i \in 1 .. Len(Append(s, m)) :
                \/ i \in 1 .. Len(s) /\ Append(s, m)[i] = s[i]
                \/ i = Len(s) + 1 /\ Append(s, m)[i] = m
  OBVIOUS

-----------------------------------------------------------------------------
(* DemuxInv is an invariant.                                                *)

LEMMA InitDemuxInv == Init => DemuxInv
<1> SUFFICES ASSUME Init PROVE DemuxInv
  OBVIOUS
<1>1. Types
  <2>1. toSrv \in Seq(Requests \union {InitMsg}) /\ toClnt \in Seq(Requests)
    BY DEF Init
  <2>2. reader \in [at : {"none", "read", "deliver", "closing", "drain", "fail", "exit"},
                    tag : Nat, who : Callers \union {None}, left : SUBSET Nat]
    BY DEF Init, Idle
  <2>3. srv \in [reading : BOOLEAN, closed : BOOLEAN, mu : Callers \union {None}, closing : BOOLEAN]
    BY DEF Init
  <2>4. /\ pc \in [Callers -> {"idle", "put", "lock", "write", "wait", "done"}]
        /\ tag \in [Callers -> Nat] /\ served \in [Callers -> 0 .. 2]
        /\ got \in [Callers -> Callers \union {None, "error"}]
    BY DEF Init
  <2>5. /\ nextTag \in Nat /\ calls \subseteq Nat /\ fatal \in BOOLEAN
        /\ conn \in {"dial", "init", "ready"}
        /\ serving \subseteq [tag : Nat, who : Callers, at : {"serve", "lock", "write"}]
    BY DEF Init
  <2> QED
    BY <2>1, <2>2, <2>3, <2>4, <2>5 DEF Types
<1>2. TagsUnique /\ Opened /\ InToSrv /\ InServer /\ InToClnt /\ OncePlace /\ NotWritten
  BY DEF Init, TagsUnique, Opened, InToSrv, InServer, InToClnt, OncePlace, NotWritten
<1>3. InCallMap /\ ReaderHolds /\ OwnReply /\ RepliesMatch
  BY ConstantsOK DEF Init, Idle, InCallMap, ReaderHolds, OwnReply, RepliesMatch
<1> QED
  BY <1>1, <1>2, <1>3 DEF DemuxInv

\* A step that only opens or closes an end, a listener or a callMap.
LEMMA ClosingDemuxInv ==
    ASSUME DemuxInv,
           UNCHANGED <<conn, toSrv, toClnt, nextTag, calls, pc, tag, got, reader, serving, served, fatal>>,
           srv' \in [reading : BOOLEAN, closed : BOOLEAN, mu : Callers \union {None}, closing : BOOLEAN],
           srv'.reading => srv.reading
    PROVE  DemuxInv'
<1>1. Types' /\ TagsUnique' /\ Opened'
  BY DEF DemuxInv, Types, TagsUnique, Opened
<1>2. InToSrv' /\ InServer' /\ InToClnt' /\ OncePlace'
  BY DEF DemuxInv, InToSrv, InServer, InToClnt, OncePlace, Outgoing, Reading
<1>3. NotWritten' /\ InCallMap' /\ ReaderHolds' /\ OwnReply' /\ RepliesMatch'
  BY DEF DemuxInv, NotWritten, InCallMap, Reading, ReaderHolds, OwnReply, RepliesMatch
<1> QED
  BY <1>1, <1>2, <1>3 DEF DemuxInv

LEMMA DialDemuxInv == ASSUME DemuxInv, Dial PROVE DemuxInv'
<1>1. /\ conn = "dial" /\ conn' = "init" /\ toSrv' = <<InitMsg>> /\ nextTag' = 1
      /\ reader' = Idle("read")
      /\ UNCHANGED <<toClnt, fatal, calls, pc, tag, got, srv, serving, served>>
  BY DEF Dial, srvVars
<1>2. \A c \in Callers : pc[c] = "idle"
  BY <1>1 DEF DemuxInv, Opened
<1>3. serving = {} /\ ~srv.reading
  BY <1>1, <1>2 DEF DemuxInv, Types, InServer, Outgoing, Opened
<1>4. \A i \in 1 .. Len(toClnt) : FALSE
  BY <1>2 DEF DemuxInv, InToClnt, Outgoing
<1>5. Len(toSrv') = 1 /\ toSrv'[1] = InitMsg /\ toSrv' \in Seq(Requests \union {InitMsg})
  BY <1>1
<1>6. Types'
  BY <1>1, <1>5 DEF DemuxInv, Types, Idle
<1>7. TagsUnique' /\ Opened' /\ NotWritten'
  BY <1>1, <1>2, <1>3 DEF DemuxInv, TagsUnique, Opened, NotWritten
<1>8. InToSrv' /\ InServer' /\ InToClnt' /\ OncePlace'
  BY <1>1, <1>3, <1>4, <1>5 DEF InToSrv, InServer, InToClnt, OncePlace
<1>9. InCallMap' /\ ReaderHolds' /\ OwnReply' /\ RepliesMatch'
  BY <1>1, <1>2 DEF DemuxInv, InCallMap, Reading, ReaderHolds, OwnReply, RepliesMatch, Idle
<1> QED
  BY <1>6, <1>7, <1>8, <1>9 DEF DemuxInv

LEMMA AcceptDemuxInv == ASSUME DemuxInv, Accept PROVE DemuxInv'
<1>1. /\ conn = "init" /\ toSrv # <<>> /\ conn' = "ready" /\ toSrv' = Tail(toSrv)
      /\ srv' = [srv EXCEPT !.reading = TRUE]
      /\ UNCHANGED <<toClnt, fatal, nextTag, calls, pc, tag, got, reader, serving, served>>
  BY DEF Accept, clntVars
<1>2. /\ toSrv' \in Seq(Requests \union {InitMsg})
      /\ \A i \in 1 .. Len(toSrv') : i + 1 \in 1 .. Len(toSrv) /\ i + 1 # 1 /\ toSrv'[i] = toSrv[i + 1]
      /\ Len(toSrv') \in Nat
  BY <1>1, TailOf DEF DemuxInv, Types
<1>3. Types' /\ TagsUnique' /\ Opened'
  BY <1>1, <1>2 DEF DemuxInv, Types, TagsUnique, Opened
<1>4. InToSrv'
  BY <1>1, <1>2 DEF DemuxInv, InToSrv, Outgoing, Reading
<1>5. InServer' /\ InToClnt'
  BY <1>1 DEF DemuxInv, InServer, InToClnt, Outgoing, Reading
<1>6. OncePlace'
  BY <1>1, <1>2 DEF DemuxInv, OncePlace
<1>7. NotWritten' /\ InCallMap' /\ ReaderHolds' /\ OwnReply' /\ RepliesMatch'
  BY <1>1 DEF DemuxInv, NotWritten, InCallMap, Reading, ReaderHolds, OwnReply, RepliesMatch
<1> QED
  BY <1>3, <1>4, <1>5, <1>6, <1>7 DEF DemuxInv

LEMMA TakeTagDemuxInv == ASSUME DemuxInv, NEW c \in Callers, TakeTag(c) PROVE DemuxInv'
<1>1. /\ conn # "dial" /\ pc[c] = "idle" /\ tag' = [tag EXCEPT ![c] = nextTag]
      /\ nextTag' = nextTag + 1 /\ pc' = [pc EXCEPT ![c] = "put"]
      /\ UNCHANGED <<conn, toClnt, fatal, reader, srv, serving, served, calls, got, toSrv>>
  BY DEF TakeTag, sendUnchanged, srvVars
<1>2. \A m : Outgoing(m) => Outgoing(m)'
  BY <1>1 DEF DemuxInv, Types, Outgoing, Reading
<1>3. Types'
  BY <1>1 DEF DemuxInv, Types
<1>4. TagsUnique' /\ Opened'
  BY <1>1 DEF DemuxInv, Types, TagsUnique, Opened
<1>5. InToSrv' /\ InServer' /\ InToClnt' /\ OncePlace'
  BY <1>1, <1>2 DEF DemuxInv, InToSrv, InServer, InToClnt, OncePlace
<1>6. NotWritten' /\ InCallMap'
  BY <1>1 DEF DemuxInv, Types, NotWritten, InCallMap, Reading
<1>7. ReaderHolds' /\ OwnReply' /\ RepliesMatch'
  BY <1>1 DEF DemuxInv, ReaderHolds, OwnReply, RepliesMatch
<1> QED
  BY <1>3, <1>4, <1>5, <1>6, <1>7 DEF DemuxInv

LEMMA PutDemuxInv == ASSUME DemuxInv, NEW c \in Callers, Put(c) PROVE DemuxInv'
<1>1. /\ pc[c] = "put"
      /\ \/ /\ got' = [got EXCEPT ![c] = "error"] /\ pc' = [pc EXCEPT ![c] = "done"]
            /\ UNCHANGED calls
         \/ /\ calls' = calls \union {tag[c]} /\ pc' = [pc EXCEPT ![c] = "lock"]
            /\ UNCHANGED got
      /\ UNCHANGED <<conn, toClnt, fatal, reader, srv, serving, served, nextTag, tag, toSrv>>
  BY DEF Put, sendUnchanged, srvVars
<1>2. \A m : Outgoing(m) => Outgoing(m)'
  BY <1>1 DEF DemuxInv, Types, Outgoing, Reading
<1>3. Types'
  <2>1. /\ pc' \in [Callers -> {"idle", "put", "lock", "write", "wait", "done"}]
        /\ got' \in [Callers -> Callers \union {None, "error"}]
        /\ calls' \subseteq Nat
    <3>1. CASE /\ got' = [got EXCEPT ![c] = "error"] /\ pc' = [pc EXCEPT ![c] = "done"]
               /\ UNCHANGED calls
      BY <3>1 DEF DemuxInv, Types
    <3>2. CASE /\ calls' = calls \union {tag[c]} /\ pc' = [pc EXCEPT ![c] = "lock"]
               /\ UNCHANGED got
      BY <3>2 DEF DemuxInv, Types
    <3> QED
      BY <1>1, <3>1, <3>2
  <2> QED
    BY <1>1, <2>1 DEF DemuxInv, Types
<1>4. TagsUnique' /\ Opened'
  <2>1. \A d \in Callers : pc'[d] = "idle" <=> pc[d] = "idle"
    BY <1>1 DEF DemuxInv, Types
  <2> QED
    BY <1>1, <2>1 DEF DemuxInv, TagsUnique, Opened
<1>5. InToSrv' /\ InServer' /\ InToClnt' /\ OncePlace'
  BY <1>1, <1>2 DEF DemuxInv, InToSrv, InServer, InToClnt, OncePlace
<1>6. NotWritten' /\ InCallMap'
  BY <1>1 DEF DemuxInv, Types, NotWritten, InCallMap, Reading
<1>7. ReaderHolds' /\ RepliesMatch'
  BY <1>1 DEF DemuxInv, ReaderHolds, RepliesMatch
<1>8. OwnReply'
  BY <1>1, ConstantsOK DEF DemuxInv, Types, OwnReply
<1> QED
  BY <1>3, <1>4, <1>5, <1>6, <1>7, <1>8 DEF DemuxInv

LEMMA LockDemuxInv == ASSUME DemuxInv, NEW c \in Callers, LockToWrite(c) PROVE DemuxInv'
<1>1. /\ pc[c] = "lock" /\ pc' = [pc EXCEPT ![c] = "write"]
      /\ UNCHANGED <<conn, toClnt, fatal, reader, srv, serving, served, nextTag, tag, calls, got, toSrv>>
  BY DEF LockToWrite, sendUnchanged, srvVars
<1>2. \A m : Outgoing(m) => Outgoing(m)'
  BY <1>1 DEF DemuxInv, Types, Outgoing, Reading
<1>3. Types' /\ TagsUnique' /\ Opened'
  BY <1>1 DEF DemuxInv, Types, TagsUnique, Opened
<1>4. InToSrv' /\ InServer' /\ InToClnt' /\ OncePlace'
  BY <1>1, <1>2 DEF DemuxInv, InToSrv, InServer, InToClnt, OncePlace
<1>5. NotWritten' /\ InCallMap'
  BY <1>1 DEF DemuxInv, Types, NotWritten, InCallMap, Reading
<1>6. ReaderHolds' /\ OwnReply' /\ RepliesMatch'
  BY <1>1 DEF DemuxInv, ReaderHolds, OwnReply, RepliesMatch
<1> QED
  BY <1>3, <1>4, <1>5, <1>6 DEF DemuxInv

\* Whether or not it is written, the request of a caller that waits is in no
\* second place.
LEMMA WriteCallDemuxInv == ASSUME DemuxInv, NEW c \in Callers, WriteCall(c) PROVE DemuxInv'
<1>m. PICK m \in Requests : m = [tag |-> tag[c], who |-> c]
  BY DEF DemuxInv, Types, Requests
<1>1. /\ pc[c] = "write" /\ pc' = [pc EXCEPT ![c] = "wait"]
      /\ toSrv' = toSrv \/ toSrv' = Append(toSrv, m)
      /\ UNCHANGED <<conn, toClnt, fatal, reader, srv, serving, served, nextTag, tag, calls, got>>
  BY <1>m DEF WriteCall, sendUnchanged, srvVars
<1>2. \A n : Outgoing(n) => Outgoing(n)' /\ n.who # c
  BY <1>1 DEF DemuxInv, Types, Outgoing, Reading
<1>3. Outgoing(m)' /\ served[c] = 0 /\ m.who = c
  BY <1>m, <1>1 DEF DemuxInv, Types, Outgoing, InCallMap, NotWritten, Requests
<1>4. /\ toSrv' \in Seq(Requests \union {InitMsg})
      /\ Len(toSrv) \in Nat /\ Len(toSrv') \in Nat
      /\ \A i \in 1 .. Len(toSrv') : \/ i \in 1 .. Len(toSrv) /\ toSrv'[i] = toSrv[i]
                                     \/ i = Len(toSrv) + 1 /\ toSrv'[i] = m
  <2> DEFINE S == Requests \union {InitMsg}
  <2>1. toSrv \in Seq(S) /\ m \in S
    BY <1>3 DEF DemuxInv, Types
  <2> HIDE DEF S
  <2>2. CASE toSrv' = toSrv
    BY <2>1, <2>2 DEF S
  <2>3. CASE toSrv' = Append(toSrv, m)
    BY <2>1, <2>3, AppendOf DEF S
  <2> QED
    BY <1>1, <2>2, <2>3
<1>5. Types'
  BY <1>1, <1>4 DEF DemuxInv, Types
<1>6. TagsUnique' /\ Opened'
  BY <1>1 DEF DemuxInv, Types, TagsUnique, Opened
<1>7. InToSrv'
  <2> SUFFICES ASSUME NEW i \in 1 .. Len(toSrv')
               PROVE  \/ conn' = "init" /\ i = 1 /\ toSrv'[i] = InitMsg
                      \/ Outgoing(toSrv[i])' /\ served'[toSrv'[i].who] = 0
    BY DEF InToSrv
  <2>1. CASE i \in 1 .. Len(toSrv) /\ toSrv'[i] = toSrv[i]
    BY <1>1, <1>2, <2>1 DEF DemuxInv, InToSrv, Outgoing
  <2>2. CASE toSrv'[i] = m
    BY <1>1, <1>3, <2>2 DEF Outgoing
  <2> QED
    BY <1>4, <2>1, <2>2
<1>8. InServer' /\ InToClnt'
  BY <1>1, <1>2 DEF DemuxInv, InServer, InToClnt
<1>9. OncePlace'
  <2>1. \A i \in 1 .. Len(toSrv) : toSrv[i].who # c
    BY <1>2, ConstantsOK DEF DemuxInv, InToSrv, InitMsg
  <2>2. \A h \in serving : h.who # c
    BY <1>2 DEF DemuxInv, InServer
  <2> QED
    BY <1>1, <1>3, <1>4, <2>1, <2>2 DEF DemuxInv, OncePlace
<1>10. NotWritten' /\ InCallMap'
  BY <1>1 DEF DemuxInv, Types, NotWritten, InCallMap, Reading
<1>11. ReaderHolds' /\ OwnReply' /\ RepliesMatch'
  BY <1>1 DEF DemuxInv, ReaderHolds, OwnReply, RepliesMatch
<1> QED
  BY <1>5, <1>6, <1>7, <1>8, <1>9, <1>10, <1>11 DEF DemuxInv

\* The reader takes a reply: its call is in the callMap, and is the one call
\* that is from now on in the reader's hands.
LEMMA ReadReplyDemuxInv == ASSUME DemuxInv, ReadReply PROVE DemuxInv'
<1>m. PICK m \in Requests : m = Head(toClnt)
  BY TailOf DEF ReadReply, DemuxInv, Types
<1>1. /\ reader.at = "read" /\ toClnt # <<>> /\ toClnt' = Tail(toClnt)
      /\ calls' = calls \ {m.tag} /\ fatal' = (fatal \/ m.tag \notin calls)
      /\ reader' = [at |-> "deliver", tag |-> m.tag, who |-> m.who, left |-> {}]
      /\ UNCHANGED <<conn, toSrv, nextTag, tag, srv, serving, served, pc, got>>
  BY <1>m DEF ReadReply, Remove, Idle, readUnchanged, srvVars
<1>2. /\ toClnt' \in Seq(Requests) /\ 1 \in 1 .. Len(toClnt) /\ m = toClnt[1]
      /\ \A i \in 1 .. Len(toClnt') : i + 1 \in 1 .. Len(toClnt) /\ i + 1 # 1 /\ toClnt'[i] = toClnt[i + 1]
      /\ Len(toClnt) \in Nat /\ Len(toClnt') \in Nat
  BY <1>m, <1>1, TailOf DEF DemuxInv, Types
<1>3. /\ m.who \in Callers /\ m.tag = tag[m.who] /\ pc[m.who] = "wait" /\ served[m.who] = 1
      /\ m.tag \in Nat
  BY <1>1, <1>2 DEF DemuxInv, InToClnt, Outgoing, Reading, Requests
<1>4. m.tag \in calls
  BY <1>1, <1>3 DEF DemuxInv, InCallMap, Reading
<1>5. \A n : Outgoing(n) /\ n.who # m.who => Outgoing(n)'
  BY <1>1, <1>3 DEF Outgoing, Reading
<1>6. Types'
  BY <1>1, <1>2, <1>3 DEF DemuxInv, Types
<1>7. TagsUnique' /\ Opened' /\ NotWritten'
  BY <1>1 DEF DemuxInv, TagsUnique, Opened, NotWritten
<1>8. InToSrv'
  <2> SUFFICES ASSUME NEW i \in 1 .. Len(toSrv)
               PROVE  \/ conn = "init" /\ i = 1 /\ toSrv[i] = InitMsg
                      \/ Outgoing(toSrv[i])' /\ served[toSrv[i].who] = 0
    BY <1>1 DEF InToSrv
  <2>1. Outgoing(toSrv[i]) /\ served[toSrv[i].who] = 0 => toSrv[i].who # m.who
    BY <1>3
  <2> QED
    BY <1>1, <1>5, <2>1 DEF DemuxInv, InToSrv, Outgoing
<1>9. InServer'
  <2>1. \A h \in serving : h.who # m.who
    BY <1>2 DEF DemuxInv, OncePlace
  <2> QED
    BY <1>1, <1>5, <2>1 DEF DemuxInv, InServer
<1>10. InToClnt'
  <2> SUFFICES ASSUME NEW i \in 1 .. Len(toClnt')
               PROVE  Outgoing(toClnt[i])' /\ served[toClnt'[i].who] = 1
    BY <1>1 DEF InToClnt
  <2>1. PICK n : n = toClnt[i + 1]
    OBVIOUS
  <2>2. n = toClnt'[i] /\ n.who # m.who
    BY <1>2, <2>1 DEF DemuxInv, OncePlace
  <2>3. Outgoing(n) /\ served[n.who] = 1
    BY <1>2, <2>1 DEF DemuxInv, InToClnt
  <2> QED
    BY <1>5, <2>2, <2>3 DEF Outgoing
<1>11. OncePlace'
  <2>1. \A i, j \in 1 .. Len(toClnt') : toClnt'[i].who = toClnt'[j].who => i = j
    <3> TAKE i, j \in 1 .. Len(toClnt')
    <3>1. i \in Nat /\ j \in Nat /\ toClnt'[i] = toClnt[i + 1] /\ toClnt'[j] = toClnt[j + 1]
      BY <1>2
    <3>2. toClnt[i + 1].who = toClnt[j + 1].who => i + 1 = j + 1
      BY <1>2 DEF DemuxInv, OncePlace
    <3> QED
      BY <3>1, <3>2
  <2>2. \A h \in serving : \A i \in 1 .. Len(toClnt') : toClnt'[i].who # h.who
    <3> TAKE h \in serving
    <3> TAKE i \in 1 .. Len(toClnt')
    <3>1. i + 1 \in 1 .. Len(toClnt) /\ toClnt'[i] = toClnt[i + 1]
      BY <1>2
    <3> QED
      BY <3>1 DEF DemuxInv, OncePlace
  <2> QED
    BY <1>1, <2>1, <2>2 DEF DemuxInv, OncePlace
<1>12. InCallMap'
  BY <1>1, <1>3 DEF DemuxInv, Types, InCallMap, Reading
<1>13. ReaderHolds' /\ OwnReply' /\ RepliesMatch'
  BY <1>1, <1>3, <1>4 DEF DemuxInv, ReaderHolds, OwnReply, RepliesMatch
<1> QED
  BY <1>6, <1>7, <1>8, <1>9, <1>10, <1>11, <1>12, <1>13 DEF DemuxInv

\* Once reading has failed the reader only answers calls of the callMap.
LEMMA FailingDemuxInv ==
    ASSUME DemuxInv, ReadError \/ Outstanding \/ Drain
    PROVE  DemuxInv'
<1>1. /\ reader'.at \in {"closing", "drain", "fail", "exit"}
      /\ reader' \in [at : {"none", "read", "deliver", "closing", "drain", "fail", "exit"},
                      tag : Nat, who : Callers \union {None}, left : SUBSET Nat]
      /\ calls' \subseteq Nat
      /\ UNCHANGED <<conn, toSrv, toClnt, nextTag, tag, srv, serving, served, pc, got, fatal>>
      /\ reader'.at \in {"drain", "fail"} => reader'.left \subseteq calls'
  <2>1. CASE ReadError
    BY <2>1 DEF ReadError, readUnchanged, srvVars, Idle, DemuxInv, Types
  <2>2. CASE Outstanding
    BY <2>2 DEF Outstanding, readUnchanged, srvVars, Idle, DemuxInv, Types
  <2>3. CASE Drain
    <3>1. reader.at = "drain" /\ reader.left \subseteq calls
      BY <2>3 DEF Drain, DemuxInv, ReaderHolds
    <3>2. UNCHANGED <<conn, toSrv, toClnt, nextTag, tag, srv, serving, served, pc, got>>
      BY <2>3 DEF Drain, readUnchanged, srvVars
    <3>3. CASE reader.left = {} /\ reader' = Idle("exit") /\ UNCHANGED <<calls, fatal>>
      BY <3>2, <3>3 DEF Idle, DemuxInv, Types
    <3>4. CASE \E t \in reader.left :
                 /\ Remove(t)
                 /\ reader' = [reader EXCEPT !.at = "fail", !.tag = t, !.left = reader.left \ {t}]
      <4>t. PICK t \in reader.left :
                 /\ Remove(t)
                 /\ reader' = [reader EXCEPT !.at = "fail", !.tag = t, !.left = reader.left \ {t}]
        BY <3>4
      <4>1. t \in Nat /\ t \in calls /\ calls' = calls \ {t} /\ fatal' = fatal
        BY <3>1, <4>t DEF Remove, DemuxInv, Types
      <4>2. /\ reader'.at = "fail" /\ reader'.left = reader.left \ {t}
            /\ reader' \in [at : {"none", "read", "deliver", "closing", "drain", "fail", "exit"},
                            tag : Nat, who : Callers \union {None}, left : SUBSET Nat]
        BY <4>t, <4>1 DEF DemuxInv, Types
      <4> QED
        BY <3>1, <3>2, <4>1, <4>2 DEF DemuxInv, Types
    <3> QED
      BY <2>3, <3>3, <3>4 DEF Drain
  <2> QED
    BY <2>1, <2>2, <2>3
<1>2. \A n : Outgoing(n) => Outgoing(n)'
  BY <1>1 DEF Outgoing, Reading
<1>3. Types'
  BY <1>1 DEF DemuxInv, Types
<1>4. TagsUnique' /\ Opened' /\ NotWritten'
  BY <1>1 DEF DemuxInv, TagsUnique, Opened, NotWritten
<1>5. InToSrv' /\ InServer' /\ InToClnt' /\ OncePlace'
  BY <1>1, <1>2 DEF DemuxInv, InToSrv, InServer, InToClnt, OncePlace
<1>6. InCallMap' /\ ReaderHolds' /\ OwnReply' /\ RepliesMatch'
  BY <1>1 DEF DemuxInv, InCallMap, Reading, ReaderHolds, OwnReply, RepliesMatch
<1> QED
  BY <1>3, <1>4, <1>5, <1>6 DEF DemuxInv

\* The reader hands a reply, or a failure, to the caller with its tag.
LEMMA DeliverDemuxInv == ASSUME DemuxInv, NEW c \in Callers, Deliver(c) PROVE DemuxInv'
<1>1. /\ reader.at \in {"deliver", "fail"} /\ reader.tag = tag[c] /\ pc[c] = "wait"
      /\ pc' = [pc EXCEPT ![c] = "done"]
      /\ got' = [got EXCEPT ![c] = IF reader.at = "fail" THEN "error" ELSE reader.who]
      /\ reader' = IF reader.at = "fail" THEN [reader EXCEPT !.at = "drain"] ELSE Idle("read")
      /\ UNCHANGED <<conn, toSrv, toClnt, nextTag, tag, srv, serving, served, calls, fatal>>
  BY DEF Deliver, readUnchanged, srvVars
<1>2. reader.at = "deliver" => c = reader.who /\ served[c] = 1
  BY <1>1 DEF DemuxInv, Types, ReaderHolds, InCallMap, TagsUnique
<1>3. reader' \in [at : {"none", "read", "deliver", "closing", "drain", "fail", "exit"},
                   tag : Nat, who : Callers \union {None}, left : SUBSET Nat]
  BY <1>1 DEF Idle, DemuxInv, Types
<1>4. /\ reader.at = "fail" => reader'.at = "drain" /\ reader'.left = reader.left
      /\ reader.at = "deliver" => reader'.at = "read"
  BY <1>1 DEF Idle, DemuxInv, Types
<1>5. /\ pc' \in [Callers -> {"idle", "put", "lock", "write", "wait", "done"}]
      /\ pc'[c] = "done" /\ \A d \in Callers : d # c => pc'[d] = pc[d]
  BY <1>1 DEF DemuxInv, Types
<1>6. got' \in [Callers -> Callers \union {None, "error"}]
  BY <1>1, <1>2 DEF DemuxInv, Types
<1>7. \A n : Outgoing(n) => Outgoing(n)'
  BY <1>1, <1>2, <1>4, <1>5 DEF Outgoing, Reading
<1>8. Types'
  BY <1>1, <1>3, <1>5, <1>6 DEF DemuxInv, Types
<1>9. TagsUnique' /\ Opened' /\ NotWritten'
  <2>1. \A d \in Callers : pc'[d] = "idle" <=> pc[d] = "idle"
    BY <1>1, <1>5
  <2>2. \A d \in Callers : pc'[d] = pc[d] \/ pc'[d] = "done"
    BY <1>5
  <2> QED
    BY <1>1, <2>1, <2>2 DEF DemuxInv, TagsUnique, Opened, NotWritten
<1>10. InToSrv' /\ InServer' /\ InToClnt' /\ OncePlace'
  BY <1>1, <1>7 DEF DemuxInv, InToSrv, InServer, InToClnt, OncePlace
<1>11. InCallMap'
  <2>1. CASE reader.at = "fail"
    BY <1>4, <2>1 DEF InCallMap, Reading
  <2>2. CASE reader.at = "deliver"
    <3>1. \A d \in Callers : pc'[d] \in {"lock", "write", "wait"} => d # c /\ pc[d] = pc'[d]
      BY <1>5
    <3>2. \A d \in Callers : d # c /\ pc[d] # "idle" => tag[d] # tag[c]
      BY <1>1 DEF DemuxInv, TagsUnique
    <3>3. \A d \in Callers : pc'[d] \in {"lock", "write", "wait"} => tag[d] \in calls
      BY <1>1, <2>2, <3>1, <3>2 DEF DemuxInv, InCallMap, Reading
    <3> QED
      BY <1>1, <1>4, <2>2, <3>3 DEF InCallMap
  <2> QED
    BY <1>1, <2>1, <2>2
<1>12. ReaderHolds' /\ RepliesMatch'
  BY <1>1, <1>4 DEF DemuxInv, ReaderHolds, RepliesMatch
<1>13. OwnReply'
  <2>1. got'[c] \in {"error", c} /\ (got'[c] = c => reader.at = "deliver" \/ c = "error")
    BY <1>1, <1>2 DEF DemuxInv, Types
  <2>2. \A d \in Callers : d # c => got'[d] = got[d]
    BY <1>1 DEF DemuxInv, Types
  <2>3. got'[c] \in Callers => got'[c] = c /\ served[c] = 1
    BY <1>1, <1>2, <2>1, ConstantsOK
  <2> QED
    BY <1>1, <2>2, <2>3 DEF DemuxInv, OwnReply
<1> QED
  BY <1>8, <1>9, <1>10, <1>11, <1>12, <1>13 DEF DemuxInv

-----------------------------------------------------------------------------
(* The server.                                                              *)

\* Steps of the server change neither the calls nor the reader.
LEMMA ServerFrame ==
    ASSUME DemuxInv, UNCHANGED <<conn, fatal, clntVars>>
    PROVE  /\ UNCHANGED <<conn, fatal, nextTag, calls, pc, tag, got, reader>>
           /\ \A n : Outgoing(n) => Outgoing(n)'
           /\ TagsUnique' /\ ReaderHolds' /\ RepliesMatch'
<1>1. UNCHANGED <<conn, fatal, nextTag, calls, pc, tag, got, reader>>
  BY DEF clntVars
<1> QED
  BY <1>1 DEF Outgoing, Reading, DemuxInv, TagsUnique, ReaderHolds, RepliesMatch

LEMMA SrvReadDemuxInv == ASSUME DemuxInv, SrvRead PROVE DemuxInv'
<1>1. /\ srv.reading /\ toSrv # <<>> /\ toSrv' = Tail(toSrv)
      /\ serving' = serving \union {[tag |-> Head(toSrv).tag, who |-> Head(toSrv).who, at |-> "serve"]}
      /\ UNCHANGED <<conn, fatal, clntVars, toClnt, srv, served>>
  BY DEF SrvRead, serverUnchanged
<1>2. /\ toSrv' \in Seq(Requests \union {InitMsg}) /\ 1 \in 1 .. Len(toSrv) /\ Head(toSrv) = toSrv[1]
      /\ \A i \in 1 .. Len(toSrv') : i + 1 \in 1 .. Len(toSrv) /\ i + 1 # 1 /\ toSrv'[i] = toSrv[i + 1]
      /\ Len(toSrv) \in Nat /\ Len(toSrv') \in Nat /\ toSrv[1] \in Requests \union {InitMsg}
  BY <1>1, TailOf DEF DemuxInv, Types
<1>3. /\ UNCHANGED <<conn, fatal, nextTag, calls, pc, tag, got, reader>>
      /\ \A n : Outgoing(n) => Outgoing(n)'
      /\ TagsUnique' /\ ReaderHolds' /\ RepliesMatch'
  BY <1>1, ServerFrame
<1>4. conn = "ready"
  BY <1>1 DEF DemuxInv, Opened
<1>5. Outgoing(toSrv[1]) /\ served[toSrv[1].who] = 0
  BY <1>2, <1>4 DEF DemuxInv, InToSrv
<1>6. PICK h : /\ h = [tag |-> toSrv[1].tag, who |-> toSrv[1].who, at |-> "serve"]
               /\ serving' = serving \union {h}
  BY <1>1, <1>2
<1>7. /\ h \in [tag : Nat, who : Callers, at : {"serve", "lock", "write"}]
      /\ h.who = toSrv[1].who /\ h.at = "serve" /\ served[h.who] = 0
  BY <1>2, <1>5, <1>6, ConstantsOK DEF Outgoing, Requests, InitMsg
<1>8. Outgoing(h)
  BY <1>5, <1>6 DEF Outgoing
<1>9. Types'
  BY <1>1, <1>2, <1>3, <1>6, <1>7 DEF DemuxInv, Types
<1>10. Opened' /\ NotWritten' /\ InCallMap' /\ OwnReply'
  BY <1>1, <1>3 DEF DemuxInv, Opened, NotWritten, InCallMap, Reading, OwnReply
<1>11. InToSrv'
  <2> SUFFICES ASSUME NEW i \in 1 .. Len(toSrv')
               PROVE  Outgoing(toSrv[i])' /\ served'[toSrv'[i].who] = 0
    BY DEF InToSrv
  <2>1. PICK n : n = toSrv[i + 1]
    OBVIOUS
  <2>2. n = toSrv'[i] /\ Outgoing(n) /\ served[n.who] = 0
    BY <1>2, <1>4, <2>1 DEF DemuxInv, InToSrv
  <2> QED
    BY <1>1, <1>3, <2>2 DEF Outgoing
<1>12. InServer'
  BY <1>1, <1>3, <1>6, <1>7, <1>8 DEF DemuxInv, InServer
<1>13. InToClnt'
  BY <1>1, <1>3 DEF DemuxInv, InToClnt
<1>14. OncePlace'
  <2>1. \A g \in serving : g.who # h.who
    BY <1>2, <1>7 DEF DemuxInv, OncePlace
  <2>2. \A i \in 1 .. Len(toSrv') : toSrv'[i].who # h.who
    BY <1>2, <1>7 DEF DemuxInv, OncePlace
  <2>3. \A i \in 1 .. Len(toClnt) : toClnt[i].who # h.who
    BY <1>7 DEF DemuxInv, InToClnt
  <2>4. \A i, j \in 1 .. Len(toSrv') : toSrv'[i].who = toSrv'[j].who => i = j
    BY <1>2 DEF DemuxInv, OncePlace
  <2>5. \A g \in serving : \A i \in 1 .. Len(toSrv') : toSrv'[i].who # g.who
    BY <1>2 DEF DemuxInv, OncePlace
  <2> QED
    BY <1>1, <1>6, <2>1, <2>2, <2>3, <2>4, <2>5 DEF DemuxInv, OncePlace
<1> QED
  BY <1>3, <1>9, <1>10, <1>11, <1>12, <1>13, <1>14 DEF DemuxInv

\* A goroutine of the server serves its request, or takes the lock to answer it.
LEMMA AdvanceDemuxInv ==
    ASSUME DemuxInv, NEW h \in serving, ServeRequest(h) \/ SrvLock(h)
    PROVE  DemuxInv'
<1>1. PICK g : g = [h EXCEPT !.at = IF h.at = "serve" THEN "lock" ELSE "write"]
  OBVIOUS
<1>2. /\ h \in [tag : Nat, who : Callers, at : {"serve", "lock", "write"}]
      /\ g \in [tag : Nat, who : Callers, at : {"serve", "lock", "write"}]
      /\ g.tag = h.tag /\ g.who = h.who /\ g.at # "serve"
  <2>1. h \in [tag : Nat, who : Callers, at : {"serve", "lock", "write"}]
    BY DEF DemuxInv, Types
  <2> QED
    BY <1>1, <2>1
<1>3. /\ serving' = (serving \ {h}) \union {g}
      /\ UNCHANGED <<conn, fatal, clntVars, toSrv, toClnt>>
      /\ srv' \in [reading : BOOLEAN, closed : BOOLEAN, mu : Callers \union {None}, closing : BOOLEAN]
      /\ srv'.reading = srv.reading
  BY <1>1, <1>2 DEF ServeRequest, SrvLock, Advance, serverUnchanged, DemuxInv, Types
<1>4. /\ served' \in [Callers -> 0 .. 2] /\ served'[h.who] = 1
      /\ \A c \in Callers : c # h.who => served'[c] = served[c]
  <2>1. CASE ServeRequest(h)
    <3>1. /\ h.at = "serve"
          /\ served' = [served EXCEPT ![h.who] = IF served[h.who] < 2 THEN served[h.who] + 1 ELSE served[h.who]]
      BY <2>1 DEF ServeRequest
    <3>2. served[h.who] = 0
      BY <3>1 DEF DemuxInv, InServer
    <3>3. (IF served[h.who] < 2 THEN served[h.who] + 1 ELSE served[h.who]) = 1
      BY <3>2
    <3>4. served' = [served EXCEPT ![h.who] = 1]
      BY <3>1, <3>3
    <3> QED
      BY <1>2, <3>4 DEF DemuxInv, Types
  <2>2. CASE SrvLock(h)
    BY <1>2, <2>2 DEF SrvLock, DemuxInv, Types, InServer
  <2> QED
    BY <2>1, <2>2
<1>5. /\ UNCHANGED <<conn, fatal, nextTag, calls, pc, tag, got, reader>>
      /\ \A n : Outgoing(n) => Outgoing(n)'
      /\ TagsUnique' /\ ReaderHolds' /\ RepliesMatch'
  BY <1>3, ServerFrame
<1>6. Outgoing(h) /\ Outgoing(g)
  BY <1>2 DEF Outgoing, DemuxInv, InServer
<1>7. Types'
  BY <1>2, <1>3, <1>4, <1>5 DEF DemuxInv, Types
<1>8. Opened' /\ NotWritten' /\ InCallMap' /\ OwnReply'
  <2>1. pc[h.who] \in {"wait", "done"} /\ h.who \in Callers
    BY <1>6 DEF Outgoing
  <2>2. \A c \in Callers : served[c] = 1 => served'[c] = 1
    BY <1>4
  <2>3. \A c \in Callers : served'[c] <= 1
    BY <1>4 DEF DemuxInv, OwnReply
  <2> QED
    BY <1>3, <1>4, <1>5, <2>1, <2>2, <2>3 DEF DemuxInv, Opened, NotWritten, InCallMap, Reading, OwnReply
<1>9. InToSrv'
  <2>1. \A i \in 1 .. Len(toSrv) : Outgoing(toSrv[i]) => served'[toSrv[i].who] = served[toSrv[i].who]
    BY <1>4 DEF DemuxInv, OncePlace, Outgoing
  <2> QED
    BY <1>3, <1>5, <2>1 DEF DemuxInv, InToSrv
<1>10. InToClnt'
  <2>1. \A i \in 1 .. Len(toClnt) : Outgoing(toClnt[i]) => served'[toClnt[i].who] = served[toClnt[i].who]
    BY <1>4 DEF DemuxInv, OncePlace, Outgoing
  <2> QED
    BY <1>3, <1>5, <2>1 DEF DemuxInv, InToClnt
<1>11. InServer'
  <2> SUFFICES ASSUME NEW n \in serving'
               PROVE  Outgoing(n)' /\ served'[n.who] = IF n.at = "serve" THEN 0 ELSE 1
    BY DEF InServer
  <2>1. CASE n = g
    BY <1>2, <1>4, <1>5, <1>6, <2>1
  <2>2. CASE n # g
    <3>1. n \in serving /\ n.who # h.who /\ n.who \in Callers
      BY <1>3, <2>2 DEF DemuxInv, OncePlace, InServer, Outgoing
    <3> QED
      BY <1>4, <1>5, <3>1 DEF DemuxInv, InServer
  <2> QED
    BY <2>1, <2>2
<1>12. OncePlace'
  BY <1>2, <1>3 DEF DemuxInv, OncePlace
<1> QED
  BY <1>5, <1>7, <1>8, <1>9, <1>10, <1>11, <1>12 DEF DemuxInv

\* The reply is written to the stream, or lost with the connection.
LEMMA SrvWriteDemuxInv ==
    ASSUME DemuxInv, NEW h \in serving, SrvWrite(h)
    PROVE  DemuxInv'
<1>m. PICK m : m = [tag |-> h.tag, who |-> h.who]
  OBVIOUS
<1>1. /\ h.at = "write" /\ serving' = serving \ {h}
      /\ toClnt' = toClnt \/ toClnt' = Append(toClnt, m)
      /\ srv' \in [reading : BOOLEAN, closed : BOOLEAN, mu : Callers \union {None}, closing : BOOLEAN]
      /\ srv'.reading = srv.reading
      /\ UNCHANGED <<conn, fatal, clntVars, toSrv, served>>
  BY <1>m DEF SrvWrite, serverUnchanged, DemuxInv, Types
<1>2. m \in Requests /\ m.tag = h.tag /\ m.who = h.who /\ served[m.who] = 1
  BY <1>m, <1>1 DEF Requests, DemuxInv, Types, InServer
<1>3. Outgoing(m)
  BY <1>2 DEF Outgoing, DemuxInv, InServer
<1>4. /\ toClnt' \in Seq(Requests)
      /\ Len(toClnt) \in Nat /\ Len(toClnt') \in Nat
      /\ \A i \in 1 .. Len(toClnt') : \/ i \in 1 .. Len(toClnt) /\ toClnt'[i] = toClnt[i]
                                      \/ i = Len(toClnt) + 1 /\ toClnt'[i] = m
  <2>1. toClnt \in Seq(Requests)
    BY DEF DemuxInv, Types
  <2>2. CASE toClnt' = toClnt
    BY <2>1, <2>2
  <2>3. CASE toClnt' = Append(toClnt, m)
    BY <1>2, <2>1, <2>3, AppendOf
  <2> QED
    BY <1>1, <2>2, <2>3
<1>5. /\ UNCHANGED <<conn, fatal, nextTag, calls, pc, tag, got, reader>>
      /\ \A n : Outgoing(n) => Outgoing(n)'
      /\ TagsUnique' /\ ReaderHolds' /\ RepliesMatch'
  BY <1>1, ServerFrame
<1>6. Types'
  BY <1>1, <1>4, <1>5 DEF DemuxInv, Types
<1>7. Opened' /\ NotWritten' /\ InCallMap' /\ OwnReply'
  BY <1>1, <1>5 DEF DemuxInv, Opened, NotWritten, InCallMap, Reading, OwnReply
<1>8. InToSrv' /\ InServer'
  BY <1>1, <1>5 DEF DemuxInv, InToSrv, InServer
<1>9. InToClnt'
  <2> SUFFICES ASSUME NEW i \in 1 .. Len(toClnt')
               PROVE  Outgoing(toClnt[i])' /\ served[toClnt'[i].who] = 1
    BY <1>1 DEF InToClnt
  <2>1. PICK n : n = toClnt'[i]
    OBVIOUS
  <2>2. Outgoing(n) /\ served[n.who] = 1
    BY <1>2, <1>3, <1>4, <2>1 DEF DemuxInv, InToClnt
  <2> QED
    BY <1>5, <2>1, <2>2 DEF Outgoing
<1>10. OncePlace'
  <2>1. \A i \in 1 .. Len(toClnt) : toClnt[i].who # m.who
    BY <1>2 DEF DemuxInv, OncePlace
  <2>2. \A g \in serving' : g.who # m.who
    BY <1>1, <1>2 DEF DemuxInv, OncePlace
  <2> QED
    BY <1>1, <1>4, <2>1, <2>2, SMTT(30) DEF DemuxInv, OncePlace
<1> QED
  BY <1>5, <1>6, <1>7, <1>8, <1>9, <1>10 DEF DemuxInv

LEMMA SrvKilledDemuxInv == ASSUME DemuxInv, SrvKilled PROVE DemuxInv'
<1>1. /\ serving' = {}
      /\ srv' \in [reading : BOOLEAN, closed : BOOLEAN, mu : Callers \union {None}, closing : BOOLEAN]
      /\ ~srv'.reading
      /\ UNCHANGED <<conn, fatal, clntVars, toSrv, toClnt, served>>
  BY DEF SrvKilled, serverUnchanged, DemuxInv, Types
<1>2. /\ UNCHANGED <<conn, fatal, nextTag, calls, pc, tag, got, reader>>
      /\ \A n : Outgoing(n) => Outgoing(n)'
      /\ TagsUnique' /\ ReaderHolds' /\ RepliesMatch'
  BY <1>1, ServerFrame
<1>3. Types' /\ Opened' /\ NotWritten' /\ InCallMap' /\ OwnReply'
  BY <1>1, <1>2 DEF DemuxInv, Types, Opened, NotWritten, InCallMap, Reading, OwnReply
<1>4. InToSrv' /\ InServer' /\ InToClnt' /\ OncePlace'
  BY <1>1, <1>2 DEF DemuxInv, InToSrv, InServer, InToClnt, OncePlace
<1> QED
  BY <1>2, <1>3, <1>4 DEF DemuxInv

\* Every step of the connection preserves the invariant.
LEMMA NextDemuxInv == DemuxInv /\ [Next]_vars => DemuxInv'
<1> SUFFICES ASSUME DemuxInv, [Next]_vars PROVE DemuxInv'
  OBVIOUS
<1> DEFINE Frame ==
      /\ UNCHANGED <<conn, toSrv, toClnt, nextTag, calls, pc, tag, got, reader, serving, served, fatal>>
      /\ srv' \in [reading : BOOLEAN, closed : BOOLEAN, mu : Callers \union {None}, closing : BOOLEAN]
      /\ srv'.reading => srv.reading
<1>1. Frame => DemuxInv'
  BY ClosingDemuxInv
<1>2. CASE Listen \/ CloseListener
  BY <1>1, <1>2 DEF Listen, CloseListener, clntVars, DemuxInv, Types
<1>3. CASE Close \/ CloseTransport \/ CloseCallMap
  BY <1>1, <1>3 DEF Close, CloseTransport, CloseCallMap, closeUnchanged, srvVars, DemuxInv, Types
<1>4. CASE SrvReadError \/ SrvClose \/ SrvCloseTransport
  <2>1. UNCHANGED <<conn, toSrv, toClnt, nextTag, calls, pc, tag, got, reader, serving, served, fatal>>
    BY <1>4 DEF SrvReadError, SrvClose, SrvCloseTransport, serverUnchanged, clntVars
  <2>2. /\ srv' \in [reading : BOOLEAN, closed : BOOLEAN, mu : Callers \union {None}, closing : BOOLEAN]
        /\ srv'.reading => srv.reading
    BY <1>4 DEF SrvReadError, SrvClose, SrvCloseTransport, DemuxInv, Types
  <2> QED
    BY <1>1, <2>1, <2>2
<1>5. CASE UNCHANGED vars
  BY <1>1, <1>5 DEF vars, clntVars, srvVars, DemuxInv, Types
<1>6. CASE Dial \/ Accept
  BY <1>6, DialDemuxInv, AcceptDemuxInv
<1>7. ASSUME NEW c \in Callers, SendReceive(c) PROVE DemuxInv'
  BY <1>7, TakeTagDemuxInv, PutDemuxInv, LockDemuxInv, WriteCallDemuxInv DEF SendReceive
<1>8. CASE Reader
  BY <1>8, ReadReplyDemuxInv, FailingDemuxInv, DeliverDemuxInv DEF Reader
<1>9. CASE SrvRead \/ SrvKilled
  BY <1>9, SrvReadDemuxInv, SrvKilledDemuxInv
<1>10. ASSUME NEW h \in serving, Serving(h) PROVE DemuxInv'
  BY <1>10, AdvanceDemuxInv, SrvWriteDemuxInv DEF Serving
<1> QED
  BY <1>2, <1>3, <1>4, <1>5, <1>6, <1>7, <1>8, <1>9, <1>10
  DEF Next, Opening, Closing, Server

\* DemuxInv holds in every reachable state.
LEMMA DemuxInvHolds == Spec => []DemuxInv
  BY InitDemuxInv, NextDemuxInv, PTL DEF Spec

\* A caller that gets an answer gets the one to its own request, which was
\* served exactly once, and no request is served twice (dmxclnt.go, dmxsrv.go),
\* however the replies of concurrent calls overtake each other.
THEOREM EachItsOwnReply == Spec => []OwnReply
<1>1. DemuxInv => OwnReply
  BY DEF DemuxInv
<1> QED
  BY <1>1, DemuxInvHolds, PTL

\* The log.Fatalf for a reply without a call (dmxclnt.go:62) is unreachable,
\* whatever the order of replies, Close and the final drain.
THEOREM NoReplyWithoutCall == Spec => []RepliesMatch
<1>1. DemuxInv => RepliesMatch
  BY DEF DemuxInv
<1> QED
  BY <1>1, DemuxInvHolds, PTL
=============================================================================
