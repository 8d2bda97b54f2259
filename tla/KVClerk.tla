------------------------------ MODULE KVClerk ------------------------------
(***************************************************************************)
(* Clerks (kvsrv1/client.go) calling the key/value server over labrpc.      *)
(*                                                                         *)
(* A clerk runs one operation at a time and one Call at a time.  A Call    *)
(* loses its request, or its reply, or gets an answer.  If the server is   *)
(* disconnected while the handler has not returned, labrpc gives up on the *)
(* handler after 100 ms and Call fails, but the handler still runs to its  *)
(* end (labrpc.go:324-336): an orphan.  The clerk retries until Call       *)
(* succeeds; all it remembers is whether it is in its first iteration.     *)
(***************************************************************************)
EXTENDS KVServer

CONSTANTS
    Clients,     \* the clerks
    MaxVersion,  \* bound: the highest version a client asks for
    Ahead,       \* bound: by how much a client's version may be ahead of the server's
    GiveUp,      \* may labrpc give up on a handler that is still running?
    NoOp         \* no operation, no answer

Ops == [type : {"Get"}, key : Keys, value : {Empty}, version : {0}]
       \union [type : {"Put"}, key : Keys, value : Values, version : 0 .. MaxVersion]

ASSUME ClerkAssumption ==
    /\ MaxVersion \in Nat /\ Ahead \in Nat
    /\ GiveUp \in BOOLEAN
    /\ NoOp \notin Ops

VARIABLES
    data,      \* kv.data
    op,        \* args of the operation a clerk is in, or NoOp
    resent,    \* iteration > 0
    call,      \* the Call in progress: "none", "sent", or the handler's reply
    orphans,   \* Puts whose Call failed while the handler was still to run
    answer,    \* what a clerk's last operation returned
    applied,   \* history: how often the current Put took effect (at most 2)
    seen       \* history: the states its key has had since the invocation

vars == <<data, op, resent, call, orphans, answer, applied, seen>>

Errs == {"OK", "ErrNoKey", "ErrVersion", "ErrMaybe"}
Answers == [err : Errs, val : Values \union {Empty}, version : 0 .. MaxVersion + 1]
NotSent == [err |-> "none", val |-> Empty, version |-> 0]
Sent == [err |-> "sent", val |-> Empty, version |-> 0]

\* The types of the variables, with the bounds on versions.
TypeOK ==
    /\ data \in [Keys -> [val : Values \union {Empty}, version : 0 .. MaxVersion + 1]]
    /\ op \in [Clients -> Ops \union {NoOp}]
    /\ resent \in [Clients -> BOOLEAN]
    /\ call \in [Clients -> Answers \union {NotSent, Sent}]
    /\ orphans \subseteq [clnt : Clients, op : Ops, returned : BOOLEAN]
    /\ answer \in [Clients -> Answers \union {NoOp}]
    /\ applied \in [Clients -> 0 .. 2]

Init ==
    /\ data = MakeKVServer
    /\ op = [c \in Clients |-> NoOp]
    /\ resent = [c \in Clients |-> FALSE]
    /\ call = [c \in Clients |-> NotSent]
    /\ orphans = {}
    /\ answer = [c \in Clients |-> NoOp]
    /\ applied = [c \in Clients |-> 0]
    /\ seen = [c \in Clients |-> {}]

-----------------------------------------------------------------------------
(* The application calls Get or Put.  It has learnt versions from Gets; with *)
(* Ahead > 0 it may also name one the key does not have yet.                *)

Invoke(c, o) ==
    /\ op[c] = NoOp
    /\ o.version <= data[o.key].version + Ahead
    /\ op' = [op EXCEPT ![c] = o]
    /\ answer' = [answer EXCEPT ![c] = NoOp]
    /\ seen' = [seen EXCEPT ![c] = {data[o.key]}]
    /\ UNCHANGED <<data, resent, call, orphans, applied>>
\* Mutant: a request is not sent again.
SendCallOnce(c) ==
    /\ op[c] # NoOp
    /\ call[c] = NotSent
    /\ ~resent[c]
    /\ call' = [call EXCEPT ![c] = Sent]
    /\ UNCHANGED <<data, op, resent, orphans, answer, applied, seen>>

\* An iteration of the loop of Get or Put: send the request.
SendCall(c) ==
    /\ op[c] # NoOp
    /\ call[c] = NotSent
    /\ call' = [call EXCEPT ![c] = Sent]
    /\ UNCHANGED <<data, op, resent, orphans, answer, applied, seen>>

\* Call returned false: remember that the next request is a resend.
CallFails(c) ==
    /\ call' = [call EXCEPT ![c] = NotSent]
    /\ resent' = [resent EXCEPT ![c] = TRUE]
    /\ UNCHANGED <<data, op, answer, applied, seen>>

\* processReq drops the request, or drops the reply.
RequestLost(c) ==
    /\ call[c] = Sent
    /\ CallFails(c)
    /\ UNCHANGED orphans

ReplyLost(c) ==
    /\ call[c] \notin {NotSent, Sent}
    /\ CallFails(c)
    /\ UNCHANGED orphans

\* processReq finds the server disconnected and stops waiting for the handler.
CallAbandoned(c) ==
    /\ GiveUp
    /\ call[c] = Sent
    /\ CallFails(c)
    /\ orphans' = IF op[c].type = "Put"
                  THEN orphans \union {[clnt |-> c, op |-> op[c], returned |-> FALSE]}
                  ELSE orphans

\* The effect of the Put handler on the map, and on the histories.
Apply(o) ==
    LET new == PutData(data, o.key, o.value, o.version)
    IN  /\ data' = new
        /\ seen' = [d \in Clients |-> IF op[d] # NoOp /\ op[d].key = o.key
                                      THEN seen[d] \union {new[o.key]} ELSE seen[d]]

HandleGet(c) ==
    /\ call[c] = Sent
    /\ op[c].type = "Get"
    /\ call' = [call EXCEPT ![c] = GetReply(data, op[c].key)]
    /\ UNCHANGED <<data, op, resent, orphans, answer, applied, seen>>

HandlePut(c) ==
    LET err == PutReply(data, op[c].key, op[c].version)
    IN  /\ call[c] = Sent
        /\ op[c].type = "Put"
        /\ Apply(op[c])
        /\ call' = [call EXCEPT ![c] = [err |-> err, val |-> Empty, version |-> 0]]
        /\ applied' = [applied EXCEPT ![c] = IF err = "OK" /\ @ < 2 THEN @ + 1 ELSE @]
        /\ UNCHANGED <<op, resent, orphans, answer>>

\* An orphaned handler runs.  The clerk may have orphaned several alike.
HandleOrphan(h) ==
    LET ok == PutReply(data, h.op.key, h.op.version) = "OK"
    IN  /\ h \in orphans
        /\ Apply(h.op)
        /\ orphans' \in {orphans, orphans \ {h}}
        /\ applied' = [applied EXCEPT ![h.clnt] =
                          IF ok /\ ~h.returned /\ @ < 2 THEN @ + 1 ELSE @]
        /\ UNCHANGED <<op, resent, call, answer>>

\* Mutant: a resend is not told from a first request.
ResultUnmarked(c) == call[c]

\* ErrVersion in answer to a resend becomes ErrMaybe.
Result(c) ==
    IF op[c].type = "Put" /\ resent[c] /\ call[c].err = "ErrVersion"
    THEN [call[c] EXCEPT !.err = "ErrMaybe"]
    ELSE call[c]

\* Call returned true: Get or Put returns.
Return(c) ==
    /\ call[c] \notin {NotSent, Sent}
    /\ answer' = [answer EXCEPT ![c] = Result(c)]
    /\ op' = [op EXCEPT ![c] = NoOp]
    /\ resent' = [resent EXCEPT ![c] = FALSE]
    /\ call' = [call EXCEPT ![c] = NotSent]
    /\ orphans' = {[h EXCEPT !.returned = (@ \/ h.clnt = c)] : h \in orphans}
    /\ applied' = [applied EXCEPT ![c] = 0]
    /\ seen' = [seen EXCEPT ![c] = {}]
    /\ UNCHANGED data

ClerkStep(c) ==
    \/ SendCall(c) \/ RequestLost(c) \/ ReplyLost(c) \/ CallAbandoned(c)
    \/ HandleGet(c) \/ HandlePut(c) \/ Return(c)

Next ==
    \/ \E c \in Clients : (\E o \in Ops : Invoke(c, o)) \/ ClerkStep(c)
    \/ \E h \in orphans : HandleOrphan(h)

Safe == Init /\ [][Next]_vars

\* The network delivers a request, and its answer, one time out of many.
Fairness ==
    \A c \in Clients :
        /\ WF_vars(SendCall(c))
        /\ SF_vars(HandleGet(c) \/ HandlePut(c))
        /\ SF_vars(Return(c))

Spec == Safe /\ Fairness

-----------------------------------------------------------------------------
(* Properties.                                                              *)

\* However often a Put is resent, and whatever becomes of its orphans, it takes
\* effect at most once while the clerk is in Put.
AtMostOnce == \A c \in Clients : applied[c] <= 1

\* OK: the Put took effect, once.  ErrVersion: it did not ("the Put was
\* definitely not performed at the server", client.go:52).
AnswerIsTrue ==
    \A c \in Clients :
        op[c] # NoOp /\ op[c].type = "Put" /\ call[c] \notin {NotSent, Sent} =>
            /\ Result(c).err = "OK" => applied[c] = 1
            /\ Result(c).err \in {"ErrVersion", "ErrNoKey"} => applied[c] = 0

\* KvModel's Step (models1/kv.go:57-63), against which the tests check
\* histories: a Put whose version does not match answers ErrVersion or ErrMaybe.
KvModelAccepts ==
    \A c \in Clients :
        op[c] # NoOp /\ op[c].type = "Put" /\ call[c] \notin {NotSent, Sent} =>
            Result(c).err \in IF applied[c] > 0 THEN {"OK", "ErrMaybe"}
                                               ELSE {"ErrVersion", "ErrMaybe"}

\* The clerks and the server implement KVLinear: every operation appears to take
\* effect at one point between invocation and return.
Linear == INSTANCE KVLinear WITH
    store <- data,
    done  <- [c \in Clients |-> applied[c] > 0]

Linearizable == Linear!Spec

\* Every operation returns, although the network loses requests and replies.
EveryOpReturns == \A c \in Clients : op[c] # NoOp ~> op[c] = NoOp
=============================================================================
