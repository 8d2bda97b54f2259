------------------------------- MODULE Demux -------------------------------
(***************************************************************************)
(* One connection of tester1/demux, on which many goroutines of a process  *)
(* make calls at once, and tester1/sockrpc, which opens it.  The client    *)
(* matches replies with calls by tag (dmxclnt.go, callmap.go); the server  *)
(* runs every request in a goroutine of its own (dmxsrv.go).               *)
(*                                                                         *)
(* External: the UNIX socket, two bounded streams.  What was written before *)
(* an end is closed can still be read at the other end; a write to a       *)
(* connection with a closed end fails, and nobody looks at the failure.    *)
(***************************************************************************)
EXTENDS Naturals, FiniteSets, Sequences

CONSTANTS
    Callers,  \* the goroutines that call SendReceive, once each
    Room,     \* how many messages a stream holds before a write blocks
    None      \* no goroutine, no reply

ASSUME DemuxAssumption ==
    /\ Room \in Nat \ {0}
    /\ None \notin Callers /\ "error" \notin Callers

VARIABLES
    listening,  \* RPCSrv's listener accepts connections
    conn,       \* "dial", "init" (connected, InitMsg under way) or "ready"
    nextTag,    \* dmx.nextTag
    mu,         \* who holds the client's dmx.mu
    calls,      \* the tags in the callMap
    closed,     \* callMap.closed
    pc,         \* where a caller is
    tag,        \* its tag
    got,        \* what SendReceive returned: a payload or "error"
    reader,     \* the client's reader: where it is and what it holds
    closer,     \* the goroutine that calls DemuxClnt.Close
    toSrv, toClnt,      \* the two streams
    clntOpen, srvOpen,  \* has the end not been closed?
    srv,        \* DemuxSrv: is its reader running, closed, who holds its mu
    serving,    \* the server's goroutines
    served,     \* history: how often a caller's request was served
    fatal       \* log.Fatalf: a reply without a call

clntVars == <<nextTag, mu, calls, closed, pc, tag, got, reader, closer>>
srvVars == <<listening, srv, serving, served>>
vars == <<conn, toSrv, toClnt, clntOpen, srvOpen, fatal, clntVars, srvVars>>

Tags == 0 .. Cardinality(Callers)
Messages == [tag : Tags, who : Callers]
InitMsg == [tag |-> 0, who |-> None]
Idle(at) == [at |-> at, tag |-> 0, who |-> None, left |-> {}]

\* The types of the variables; a stream never holds more than Room messages.
TypeOK ==
    /\ listening \in BOOLEAN /\ closed \in BOOLEAN /\ fatal \in BOOLEAN
    /\ clntOpen \in BOOLEAN /\ srvOpen \in BOOLEAN
    /\ conn \in {"dial", "init", "ready"}
    /\ nextTag \in 0 .. Cardinality(Callers) + 1
    /\ mu \in Callers \union {None}
    /\ calls \subseteq Tags
    /\ pc \in [Callers -> {"idle", "put", "lock", "write", "wait", "done"}]
    /\ tag \in [Callers -> Tags]
    /\ got \in [Callers -> Callers \union {None, "error"}]
    /\ reader \in [at : {"none", "read", "deliver", "closing", "drain", "fail", "exit"},
                   tag : Tags, who : Callers \union {None}, left : SUBSET Tags]
    /\ closer \in {"idle", "trans", "callmap", "done"}
    /\ toSrv \in UNION {[1 .. n -> Messages \union {InitMsg}] : n \in 0 .. Room}
    /\ toClnt \in UNION {[1 .. n -> Messages] : n \in 0 .. Room}
    /\ srv \in [reading : BOOLEAN, closed : BOOLEAN, mu : Callers \union {None},
                closing : BOOLEAN]
    /\ serving \subseteq [tag : Tags, who : Callers, at : {"serve", "lock", "write"}]
    /\ served \in [Callers -> 0 .. 2]

Init ==
    /\ listening = FALSE /\ conn = "dial"
    /\ nextTag = 0 /\ mu = None /\ calls = {} /\ closed = FALSE
    /\ pc = [c \in Callers |-> "idle"]
    /\ tag = [c \in Callers |-> 0]
    /\ got = [c \in Callers |-> None]
    /\ reader = Idle("none") /\ closer = "idle"
    /\ toSrv = <<>> /\ toClnt = <<>>
    /\ clntOpen = TRUE /\ srvOpen = TRUE
    /\ srv = [reading |-> FALSE, closed |-> FALSE, mu |-> None, closing |-> FALSE]
    /\ serving = {}
    /\ served = [c \in Callers |-> 0]
    /\ fatal = FALSE

Broken == ~clntOpen \/ ~srvOpen

-----------------------------------------------------------------------------
(* Opening the connection.                                                  *)

Listen ==
    /\ conn = "dial" /\ ~listening
    /\ listening' = TRUE
    /\ UNCHANGED <<conn, toSrv, toClnt, clntOpen, srvOpen, fatal, clntVars, srv, serving, served>>

\* dial tries until the server listens; NewDemuxClnt writes the InitMsg.
Dial ==
    /\ conn = "dial" /\ listening
    /\ conn' = "init"
    /\ toSrv' = <<InitMsg>>
    /\ nextTag' = 1
    /\ reader' = Idle("read")
    /\ UNCHANGED <<toClnt, clntOpen, srvOpen, fatal, mu, calls, closed, pc, tag, got, closer, srvVars>>

\* listen accepts; NewDemuxSrv reads the InitMsg and starts its reader.
Accept ==
    /\ conn = "init" /\ toSrv # <<>>
    /\ conn' = "ready"
    /\ toSrv' = Tail(toSrv)
    /\ srv' = [srv EXCEPT !.reading = TRUE]
    /\ UNCHANGED <<toClnt, clntOpen, srvOpen, fatal, clntVars, listening, serving, served>>

\* RPCSrv.Close: no new connections; this one stays as it is.
CloseListener ==
    /\ conn = "ready" /\ listening
    /\ listening' = FALSE
    /\ UNCHANGED <<conn, toSrv, toClnt, clntOpen, srvOpen, fatal, clntVars, srv, serving, served>>

-----------------------------------------------------------------------------
(* SendReceive.                                                             *)

sendUnchanged == <<conn, toClnt, clntOpen, srvOpen, fatal, reader, closer, srvVars>>

\* Mutant: tag() reads nextTag outside the critical section that advances it.
TakeTagUnlocked(c) ==
    /\ conn # "dial" /\ pc[c] = "idle" /\ mu = None
    /\ tag' = [tag EXCEPT ![c] = nextTag]
    /\ nextTag' \in {nextTag, nextTag + 1}
    /\ pc' = [pc EXCEPT ![c] = "put"]
    /\ UNCHANGED <<sendUnchanged, mu, calls, closed, got, toSrv>>

TakeTag(c) ==
    /\ conn # "dial" /\ pc[c] = "idle" /\ mu = None
    /\ tag' = [tag EXCEPT ![c] = nextTag]
    /\ nextTag' = nextTag + 1
    /\ pc' = [pc EXCEPT ![c] = "put"]
    /\ UNCHANGED <<sendUnchanged, mu, calls, closed, got, toSrv>>

\* The call enters the callMap, unless it is closed.
Put(c) ==
    /\ pc[c] = "put"
    /\ IF closed
       THEN /\ got' = [got EXCEPT ![c] = "error"]
            /\ pc' = [pc EXCEPT ![c] = "done"]
            /\ UNCHANGED calls
       ELSE /\ calls' = calls \union {tag[c]}
            /\ pc' = [pc EXCEPT ![c] = "lock"]
            /\ UNCHANGED got
    /\ UNCHANGED <<sendUnchanged, nextTag, tag, mu, closed, toSrv>>

LockToWrite(c) ==
    /\ pc[c] = "lock" /\ mu = None
    /\ mu' = c
    /\ pc' = [pc EXCEPT ![c] = "write"]
    /\ UNCHANGED <<sendUnchanged, nextTag, tag, calls, closed, got, toSrv>>

\* Mutant: a failed WriteCall ends SendReceive.
WriteCallReturns(c) ==
    /\ pc[c] = "write"
    /\ Broken \/ Len(toSrv) < Room
    /\ toSrv' = IF Broken THEN toSrv ELSE Append(toSrv, [tag |-> tag[c], who |-> c])
    /\ mu' = None
    /\ pc' = [pc EXCEPT ![c] = IF Broken THEN "done" ELSE "wait"]
    /\ got' = [got EXCEPT ![c] = IF Broken THEN "error" ELSE @]
    /\ UNCHANGED <<sendUnchanged, nextTag, tag, calls, closed>>

\* WriteCall blocks while the stream is full.  Whether or not it fails, the
\* caller goes on to wait for its reply.
WriteCall(c) ==
    /\ pc[c] = "write"
    /\ Broken \/ Len(toSrv) < Room
    /\ toSrv' = IF Broken THEN toSrv ELSE Append(toSrv, [tag |-> tag[c], who |-> c])
    /\ mu' = None
    /\ pc' = [pc EXCEPT ![c] = "wait"]
    /\ UNCHANGED <<sendUnchanged, nextTag, tag, calls, closed, got>>

SendReceive(c) == TakeTag(c) \/ Put(c) \/ LockToWrite(c) \/ WriteCall(c)

-----------------------------------------------------------------------------
(* The client's reader.                                                     *)

readUnchanged == <<conn, toSrv, clntOpen, srvOpen, nextTag, mu, tag, closer, srvVars>>

\* reply(): the call leaves the map; a tag that is not there is fatal.
Remove(t) ==
    /\ calls' = calls \ {t}
    /\ fatal' = (fatal \/ t \notin calls)

ReadReply ==
    /\ reader.at = "read" /\ toClnt # <<>>
    /\ Remove(Head(toClnt).tag)
    /\ toClnt' = Tail(toClnt)
    /\ reader' = [Idle("deliver") EXCEPT !.tag = Head(toClnt).tag, !.who = Head(toClnt).who]
    /\ UNCHANGED <<readUnchanged, closed, pc, got>>

\* Mutant: the callMap is not closed when reading fails.
ReadErrorKeepsOpen ==
    /\ reader.at = "read"
    /\ ~clntOpen \/ (~srvOpen /\ toClnt = <<>>)
    /\ reader' = Idle("closing")
    /\ UNCHANGED <<readUnchanged, closed, toClnt, calls, fatal, pc, got>>

ReadError ==
    /\ reader.at = "read"
    /\ ~clntOpen \/ (~srvOpen /\ toClnt = <<>>)
    /\ closed' = TRUE
    /\ reader' = Idle("closing")
    /\ UNCHANGED <<readUnchanged, toClnt, calls, fatal, pc, got>>

Outstanding ==
    /\ reader.at = "closing"
    /\ reader' = [Idle("drain") EXCEPT !.left = calls]
    /\ UNCHANGED <<readUnchanged, toClnt, calls, closed, fatal, pc, got>>

\* reply(t, nil, false, err) for each outstanding call, then the reader ends.
Drain ==
    /\ reader.at = "drain"
    /\ \/ \E t \in reader.left :
            /\ Remove(t)
            /\ reader' = [reader EXCEPT !.at = "fail", !.tag = t, !.left = @ \ {t}]
       \/ /\ reader.left = {}
          /\ reader' = Idle("exit")
          /\ UNCHANGED <<calls, fatal>>
    /\ UNCHANGED <<readUnchanged, toClnt, closed, pc, got>>

\* ch <- reply meets <-ch: the caller returns and the reader goes on.
Deliver(c) ==
    /\ reader.at \in {"deliver", "fail"} /\ reader.tag = tag[c]
    /\ pc[c] = "wait"
    /\ got' = [got EXCEPT ![c] = IF reader.at = "fail" THEN "error" ELSE reader.who]
    /\ pc' = [pc EXCEPT ![c] = "done"]
    /\ reader' = IF reader.at = "fail" THEN [reader EXCEPT !.at = "drain"] ELSE Idle("read")
    /\ UNCHANGED <<readUnchanged, toClnt, calls, closed, fatal>>

Reader == ReadReply \/ ReadError \/ Outstanding \/ Drain \/ \E c \in Callers : Deliver(c)

-----------------------------------------------------------------------------
(* DemuxClnt.Close, by one goroutine, at any time.                          *)

closeUnchanged == <<conn, toSrv, toClnt, srvOpen, fatal, nextTag, mu, calls, pc, tag, got, reader, srvVars>>

Close ==
    /\ conn = "ready" /\ closer = "idle"
    /\ closer' = IF closed THEN "done" ELSE "trans"
    /\ UNCHANGED <<closeUnchanged, clntOpen, closed>>

CloseTransport ==
    /\ closer = "trans"
    /\ clntOpen' = FALSE
    /\ closer' = "callmap"
    /\ UNCHANGED <<closeUnchanged, closed>>

CloseCallMap ==
    /\ closer = "callmap"
    /\ closed' = TRUE
    /\ closer' = "done"
    /\ UNCHANGED <<closeUnchanged, clntOpen>>

-----------------------------------------------------------------------------
(* The server.                                                              *)

serverUnchanged == <<conn, clntOpen, fatal, clntVars, listening>>

SrvRead ==
    /\ srv.reading /\ srvOpen /\ toSrv # <<>>
    /\ toSrv' = Tail(toSrv)
    /\ serving' = serving \union {[tag |-> Head(toSrv).tag, who |-> Head(toSrv).who, at |-> "serve"]}
    /\ UNCHANGED <<serverUnchanged, toClnt, srvOpen, srv, served>>

\* End of file: setClosed.  Another error (our own Close): the reader just ends.
SrvReadError ==
    /\ srv.reading
    /\ \/ ~srvOpen /\ srv' = [srv EXCEPT !.reading = FALSE]
       \/ /\ srvOpen /\ ~clntOpen /\ toSrv = <<>> /\ srv.mu = None
          /\ srv' = [srv EXCEPT !.reading = FALSE, !.closed = TRUE]
    /\ UNCHANGED <<serverUnchanged, toSrv, toClnt, srvOpen, serving, served>>

Advance(h, at) == serving' = (serving \ {h}) \union {[h EXCEPT !.at = at]}

ServeRequest(h) ==
    /\ h.at = "serve"
    /\ served' = [served EXCEPT ![h.who] = IF @ < 2 THEN @ + 1 ELSE @]
    /\ Advance(h, "lock")
    /\ UNCHANGED <<serverUnchanged, toSrv, toClnt, srvOpen, srv>>

SrvLock(h) ==
    /\ h.at = "lock" /\ srv.mu = None
    /\ srv' = [srv EXCEPT !.mu = h.who]
    /\ Advance(h, "write")
    /\ UNCHANGED <<serverUnchanged, toSrv, toClnt, srvOpen, served>>

\* Mutant: the reply carries a tag of the server's own.
SrvWriteRetagged(h) ==
    /\ h.at = "write"
    /\ Broken \/ Len(toClnt) < Room
    /\ toClnt' = IF Broken THEN toClnt
                 ELSE Append(toClnt, [tag |-> Cardinality({c \in Callers : served[c] > 0}), who |-> h.who])
    /\ serving' = serving \ {h}
    /\ srv' = [srv EXCEPT !.mu = None]
    /\ UNCHANGED <<serverUnchanged, toSrv, srvOpen, served>>

SrvWrite(h) ==
    /\ h.at = "write"
    /\ Broken \/ Len(toClnt) < Room
    /\ toClnt' = IF Broken THEN toClnt ELSE Append(toClnt, [tag |-> h.tag, who |-> h.who])
    /\ serving' = serving \ {h}
    /\ srv' = [srv EXCEPT !.mu = None]
    /\ UNCHANGED <<serverUnchanged, toSrv, srvOpen, served>>

Serving(h) == ServeRequest(h) \/ SrvLock(h) \/ SrvWrite(h)

\* DemuxSrv.Close: setClosed, then the transport unless it was closed already.
SrvClose ==
    /\ conn = "ready" /\ srvOpen /\ ~srv.closed /\ srv.mu = None
    /\ srv' = [srv EXCEPT !.closed = TRUE, !.closing = TRUE]
    /\ UNCHANGED <<serverUnchanged, toSrv, toClnt, srvOpen, serving, served>>

SrvCloseTransport ==
    /\ srv.closing
    /\ srvOpen' = FALSE
    /\ srv' = [srv EXCEPT !.closing = FALSE]
    /\ UNCHANGED <<serverUnchanged, toSrv, toClnt, serving, served>>

\* The server's process is killed: the kernel closes its end.
SrvKilled ==
    /\ conn = "ready" /\ srvOpen
    /\ srvOpen' = FALSE
    /\ serving' = {}
    /\ srv' = [srv EXCEPT !.reading = FALSE, !.mu = None, !.closing = FALSE]
    /\ UNCHANGED <<serverUnchanged, toSrv, toClnt, served>>

-----------------------------------------------------------------------------

Opening == Listen \/ Dial \/ Accept
Closing == CloseTransport \/ CloseCallMap \/ SrvCloseTransport
Server == SrvRead \/ SrvReadError

AllDone ==
    /\ \A c \in Callers : pc[c] = "done"
    /\ reader.at \in {"read", "exit"}

Next ==
    \/ Opening \/ CloseListener
    \/ \E c \in Callers : SendReceive(c)
    \/ Reader
    \/ Close \/ Closing \/ SrvClose \/ SrvKilled
    \/ Server
    \/ \E h \in serving : Serving(h)
    \/ AllDone /\ UNCHANGED vars

\* Goroutines run; nobody has to close anything.
Fairness ==
    /\ WF_vars(Opening) /\ WF_vars(Reader) /\ WF_vars(Closing) /\ WF_vars(Server)
    /\ \A c \in Callers : WF_vars(SendReceive(c))
    /\ WF_vars(\E h \in serving : Serving(h))

Spec == Init /\ [][Next]_vars /\ Fairness

-----------------------------------------------------------------------------
(* Properties.                                                              *)

\* A caller that gets an answer gets the one to its own request, which was
\* served once; no request is ever served twice.
OwnReply ==
    \A c \in Callers :
        /\ served[c] <= 1
        /\ got[c] \in Callers => got[c] = c /\ served[c] = 1

\* reply() never meets a tag without a call: its log.Fatalf (dmxclnt.go:62) is
\* unreachable, whatever the order of replies, Close and the final drain.
RepliesMatch == ~fatal

\* Every SendReceive returns, also when the connection breaks under it.
EveryCallReturns == \A c \in Callers : pc[c] = "put" ~> pc[c] = "done"

\* The reader does not block for ever on a caller that will not listen
\* (dmxclnt.go:96-98): once reading has failed it comes to its end.
ReaderEnds == reader.at = "closing" ~> reader.at = "exit"
=============================================================================
