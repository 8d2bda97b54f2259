------------------------------- MODULE LabNet -------------------------------
(***************************************************************************)
(* labrpc.Network (labrpc/labrpc.go): named ends that can be enabled and   *)
(* disabled, servers that come and go under a name, and processReq, the    *)
(* goroutine that carries one call.  Each operation on the network takes   *)
(* rn.mu by itself; a call reads the network several times on its way.     *)
(*                                                                         *)
(* What a server object does with a request is its users' business         *)
(* (ServerGrp): here a call's handler has not started, is running or has   *)
(* returned.                                                               *)
(***************************************************************************)
EXTENDS Naturals, Sequences

CONSTANTS
    Servers,  \* the server names: numbers
    Clnt,     \* the test's client
    MaxGen,   \* bound: how often a server is made
    Calls,    \* the calls, made once each
    NoEnd     \* the end of a call not made yet

ASSUME NetAssumption ==
    /\ Servers \subseteq Nat /\ Clnt \notin Servers /\ MaxGen \in Nat

\* An end goes from a server (of some generation) or the client to a server.
EndNames == [from : Servers \union {Clnt}, gen : 0 .. MaxGen, to : Servers]

VARIABLES
    ends,      \* rn.ends; each end is connected to its server's name when made
    enabled,   \* rn.enabled: the ends that are TRUE
    servers,   \* rn.servers: generation of the object under a name, 0 for nil
    reliable,  \* rn.reliable
    netDone,   \* rn.done is closed
    call       \* the calls and their handlers

netVars == <<ends, enabled, servers, reliable, netDone, call>>

\* at: processReq's progress; object: the server read at the start;
\* handler: what the goroutine that runs the handler has come to.
CallStates ==
    [at : {"idle", "sent", "going", "waiting", "timeout", "replied", "alive", "ok", "failed"},
     end : EndNames \union {NoEnd}, object : 0 .. MaxGen, lossy : BOOLEAN,
     handler : {"none", "started", "executed", "hung", "ok", "error"}]

NetTypeOK ==
    /\ ends \subseteq EndNames /\ enabled \subseteq EndNames
    /\ servers \in [Servers -> 0 .. MaxGen]
    /\ reliable \in BOOLEAN /\ netDone \in BOOLEAN
    /\ call \in [Calls -> CallStates]

NotMade == [at |-> "idle", end |-> NoEnd, object |-> 0, lossy |-> FALSE, handler |-> "none"]

\* MakeNetwork.
NetInit(es) ==
    /\ ends = es /\ enabled = {}
    /\ servers = [i \in Servers |-> 0]
    /\ reliable = TRUE /\ netDone = FALSE
    /\ call = [r \in Calls |-> NotMade]

-----------------------------------------------------------------------------
(* The operations of the tester, one critical section each.                 *)

MakeEnds(es) == ends' = ends \union es
DeleteEnd(e) == ends' = ends \ {e} /\ enabled' = enabled \ {e}
Enable(e, on) == enabled' = IF on THEN enabled \union {e} ELSE enabled \ {e}
AddServer(i, g) == servers' = [servers EXCEPT ![i] = g]
DeleteServer(i) == servers' = [servers EXCEPT ![i] = 0]

-----------------------------------------------------------------------------
(* A call.                                                                  *)

Step(r, new) == call' = [call EXCEPT ![r] = new]
Goto(r, at) == Step(r, [call[r] EXCEPT !.at = at])
netUnchanged == <<ends, enabled, servers, reliable, netDone>>

\* Call or Forward: hand the request to the network, or fail once it is gone.
Call(r, e) ==
    /\ call[r].at = "idle"
    /\ Step(r, [call[r] EXCEPT !.at = IF netDone THEN "failed" ELSE "sent", !.end = e])

\* readEndnameInfo: one critical section; a dead end or server means no reply.
ReadEndnameInfo(r) ==
    LET e == call[r].end
        server == IF e \in ends THEN servers[e.to] ELSE 0
    IN  /\ call[r].at = "sent"
        /\ Step(r, [call[r] EXCEPT
              !.at = IF e \in enabled /\ server # 0 THEN "going" ELSE "timeout",
              !.object = server, !.lossy = ~reliable])
        /\ UNCHANGED netUnchanged

\* The handler starts in a goroutine of its own.
StartHandler(r) ==
    /\ call[r].at = "going"
    /\ Step(r, [call[r] EXCEPT !.at = "waiting", !.handler = "started"])
    /\ UNCHANGED netUnchanged

IsServerDead(r) ==
    \/ call[r].end \notin enabled
    \/ servers[call[r].end.to] # call[r].object

\* The select loop: the handler's reply, or 100 ms later a look at the server.
TakeReply(r) ==
    /\ call[r].at = "waiting" /\ call[r].handler \in {"ok", "error"}
    /\ Goto(r, "replied")
    /\ UNCHANGED netUnchanged

\* Mutant: the wait ends with the handler only.
StopWaitingNever(r) == FALSE /\ UNCHANGED netVars

StopWaiting(r) ==
    /\ call[r].at = "waiting" /\ IsServerDead(r)
    /\ Goto(r, "timeout")
    /\ UNCHANGED netUnchanged

\* The second look, after the reply: a dead server's reply is discarded.
CheckServer(r) ==
    /\ call[r].at = "replied"
    /\ Goto(r, IF IsServerDead(r) THEN "timeout" ELSE "alive")
    /\ UNCHANGED netUnchanged

\* The reply travels, for as long as longReordering likes; the handler's own
\* failure (its connection broke) is a reply that says no.
Reply(r) ==
    /\ call[r].at = "alive"
    /\ Goto(r, IF call[r].handler = "ok" THEN "ok" ELSE "failed")
    /\ UNCHANGED netUnchanged

\* An unreliable network loses requests and replies.
Lose(r) ==
    /\ call[r].at \in {"going", "alive"} /\ call[r].lossy
    /\ Goto(r, "failed")
    /\ UNCHANGED netUnchanged

\* replyMsg{false, nil}, at once or after a delay.
FailCall(r) ==
    /\ call[r].at = "timeout"
    /\ Goto(r, "failed")
    /\ UNCHANGED netUnchanged

ProcessReq(r) ==
    \/ ReadEndnameInfo(r) \/ StartHandler(r) \/ TakeReply(r) \/ StopWaiting(r)
    \/ CheckServer(r) \/ Reply(r) \/ Lose(r) \/ FailCall(r)

Returned(r) == call[r].at \in {"ok", "failed"}
=============================================================================
