----------------------------- MODULE ServerGrp -----------------------------
(***************************************************************************)
(* The tester (tester1): a group of servers that run as daemons, the        *)
(* network between them, and a client.  The test's goroutine connects,      *)
(* partitions, kills and restarts servers while calls are under way.  What  *)
(* it has still to do in the current operation is a list of steps (todo),   *)
(* each a critical section of the network or a message to a daemon.         *)
(*                                                                         *)
(* The servers are of the kind the tests are about: a handler saves its     *)
(* request with the Persister before it answers.                            *)
(***************************************************************************)
EXTENDS LabNet, SequencesExt

CONSTANTS
    CallTo,  \* bound: the servers that calls go to
    MaxOps,  \* bound: the operations of the test on servers after MakeConfig
    MaxClntOps  \* bound: its operations on the client

ASSUME GrpAssumption ==
    /\ Servers = 1 .. Cardinality(Servers)
    /\ CallTo \subseteq Servers /\ MaxOps \in Nat /\ MaxClntOps \in Nat

VARIABLES
    todo,       \* the steps left of the operation in progress
    ops,        \* how many operations have begun, on servers and on the client
    connected,  \* sg.connected
    gen,        \* which makeServer made sg.srvs[i]
    saved,      \* srv.saved: the calls in the Persister the tester holds
    daemon,     \* the process: generation, phase, Persister, copied yet?
    made,       \* clnt.ends: the servers the client has an end to
    allow,      \* clnt.srvs: the servers it may call
    gone,       \* the client has been deleted
    split,      \* history: the last Partition, if the network is as it left it
    fatal       \* log.Fatalf somewhere

grpVars == <<todo, ops, connected, gen, saved, daemon, made, allow, gone, split, fatal>>
vars == <<netVars, grpVars>>

Phases == {"down", "boot", "init", "listen", "serving", "ready"}
All == [k \in 1 .. Cardinality(Servers) |-> k]
Ascending(S) == SetToSortSeq(S, <)

SrvEnd(i, j) == [from |-> i, gen |-> gen[i], to |-> j]
ClntEnd(j) == [from |-> Clnt, gen |-> 0, to |-> j]

\* The types of the variables.
TypeOK ==
    /\ NetTypeOK
    /\ ops \in (0 .. MaxOps) \X (0 .. MaxClntOps)
    /\ connected \in [Servers -> BOOLEAN]
    /\ gen \in [Servers -> 0 .. MaxGen]
    /\ saved \in [Servers -> SUBSET Calls]
    /\ daemon \in [Servers -> [gen : 0 .. MaxGen, phase : Phases, disk : SUBSET Calls, copied : BOOLEAN]]
    /\ made \subseteq Servers /\ allow \subseteq Servers
    /\ gone \in BOOLEAN /\ fatal \in BOOLEAN
    /\ split \in [how : {"never", "sides", "mixed"}, side : SUBSET Servers]

-----------------------------------------------------------------------------
(* The operations as steps.                                                 *)

Conn(i, on) == [do |-> "conn", i |-> i, on |-> on]
\* Enable the end from i to j, or only if server u is connected.
End(i, j, on, u) == [do |-> "end", i |-> i, j |-> j, on |-> on, if |-> u]
At(what, i) == [do |-> what, i |-> i]

\* Mutant: ends are enabled whether or not the other server is connected.
connectAnyway(i, to) ==
    <<Conn(i, TRUE)>> \o [k \in DOMAIN to |-> End(i, to[k], TRUE, i)]
                      \o [k \in DOMAIN to |-> End(to[k], i, TRUE, i)]

connect(i, to) ==
    <<Conn(i, TRUE)>> \o [k \in DOMAIN to |-> End(i, to[k], TRUE, to[k])]
                      \o [k \in DOMAIN to |-> End(to[k], i, TRUE, to[k])]

disconnect(i, from) ==
    <<Conn(i, FALSE)>> \o [k \in DOMAIN from |-> End(i, from[k], FALSE, i)]
                       \o [k \in DOMAIN from |-> End(from[k], i, FALSE, i)]

ConnectAll == FlattenSeq([k \in DOMAIN All |-> connect(All[k], All)])

Partition(p1, p2) ==
    FlattenSeq([k \in DOMAIN p1 |-> disconnect(p1[k], p2) \o connect(p1[k], p1)])
    \o FlattenSeq([k \in DOMAIN p2 |-> disconnect(p2[k], p1) \o connect(p2[k], p2)])

\* Mutant: the network keeps the server while its Persister is copied.
ShutdownServerLate(i) ==
    disconnect(i, All) \o <<At("checkpoint", i), At("DeleteServer", i), At("kill", i)>>

ShutdownServer(i) ==
    disconnect(i, All) \o <<At("DeleteServer", i), At("checkpoint", i), At("kill", i)>>

\* Mutant: the server joins the network before it says it is initialised.
StartServerEager(i) ==
    <<At("runDaemon", i), At("init", i), At("dial", i), At("AddServer", i), At("waitInit", i)>>

\* Mutant: the tester dials the server before it has sent Init.
StartServerDialFirst(i) ==
    <<At("runDaemon", i), At("dial", i), At("init", i), At("waitInit", i), At("AddServer", i)>>

StartServer(i) ==
    <<At("runDaemon", i), At("init", i), At("dial", i), At("waitInit", i), At("AddServer", i)>>

\* A test restarts a server and connects it.
Restart(i) == StartServer(i) \o connect(i, All)

StartServers == FlattenSeq([k \in DOMAIN All |-> StartServer(All[k])]) \o ConnectAll

\* The operations of tester.Clnt on the ends it has made.
SetEnds(S, on) == LET s == Ascending(S) IN [k \in DOMAIN s |-> [do |-> "clntEnd", i |-> s[k], on |-> on]]
Allow(S) == <<[do |-> "allow", set |-> S]>>
ClntConnectAll == SetEnds(made, TRUE) \o Allow(Servers)
ClntConnectTo(S) == Allow(S) \o SetEnds(made \intersect S, TRUE)
ClntDisconnect(i) == SetEnds(made \intersect {i}, FALSE)
ClntDisconnectAll == SetEnds(made, FALSE) \o Allow({})
ClntRemove == LET s == Ascending(made) IN [k \in DOMAIN s |-> At("DeleteEnd", s[k])] \o <<[do |-> "gone"]>>

\* Config.Cleanup: clients, groups, network.
Cleanup ==
    (IF gone THEN <<>> ELSE ClntRemove)
    \o FlattenSeq([k \in DOMAIN All |-> ShutdownServer(All[k])])
    \o <<[do |-> "net.Cleanup"]>>

-----------------------------------------------------------------------------

Never == [how |-> "never", side |-> {}]

\* MakeConfig: the group has been made, and its servers are to be started.
Init ==
    /\ NetInit([from : Servers, gen : {0}, to : Servers])
    /\ ops = <<0, 0>> /\ todo = StartServers
    /\ connected = [i \in Servers |-> FALSE]
    /\ gen = [i \in Servers |-> 0]
    /\ saved = [i \in Servers |-> {}]
    /\ daemon = [i \in Servers |-> [gen |-> 0, phase |-> "down", disk |-> {}, copied |-> FALSE]]
    /\ made = {} /\ allow = Servers /\ gone = FALSE
    /\ split = Never /\ fatal = FALSE

Running(i) == daemon[i].phase # "down"

\* An operation begins: its steps, and what the network is asked to look like.
Start(steps, asked) ==
    /\ todo = <<>> /\ ~netDone
    /\ todo' = steps
    /\ split' = asked
    /\ UNCHANGED <<netVars, connected, gen, saved, daemon, made, allow, gone, fatal>>

Begin(steps, asked) ==
    /\ ops[1] < MaxOps
    /\ ops' = [ops EXCEPT ![1] = @ + 1]
    /\ Start(steps, asked)

BeginClntOp(steps) ==
    /\ ops[2] < MaxClntOps
    /\ ops' = [ops EXCEPT ![2] = @ + 1]
    /\ Start(steps, split)

Mixed == IF split = Never THEN Never ELSE [how |-> "mixed", side |-> {}]

BeginConnectOne(i) == Running(i) /\ Begin(connect(i, All), Mixed)
BeginDisconnectAll(i) == Begin(disconnect(i, All), Mixed)
BeginConnectAll == (\A i \in Servers : Running(i)) /\ Begin(ConnectAll, Never)
BeginPartition(S) ==
    /\ \A i \in Servers : Running(i)
    /\ Begin(Partition(Ascending(S), Ascending(Servers \ S)), [how |-> "sides", side |-> S])
BeginShutdown(i) == Running(i) /\ Begin(ShutdownServer(i), Mixed)
BeginRestart(i) == ~Running(i) /\ gen[i] < MaxGen /\ Begin(Restart(i), Mixed)
BeginClnt ==
    \/ BeginClntOp(ClntConnectAll)
    \/ BeginClntOp(ClntDisconnectAll)
    \/ \E i \in Servers : BeginClntOp(ClntConnectTo({i}))
    \/ \E i \in made : BeginClntOp(ClntDisconnect(i))
    \/ ~gone /\ BeginClntOp(ClntRemove)
BeginCleanup == Begin(Cleanup, Mixed)

SetReliable ==
    /\ todo = <<>>
    /\ reliable' = ~reliable
    /\ UNCHANGED <<ends, enabled, servers, netDone, call, grpVars>>

-----------------------------------------------------------------------------
(* The steps of the tester.                                                 *)

Now == Head(todo)
Doing(do) == todo # <<>> /\ Now.do = do /\ todo' = Tail(todo) /\ UNCHANGED <<ops, split>>
clntUnchanged == <<made, allow, gone>>

SetConnected ==
    /\ Doing("conn")
    /\ connected' = [connected EXCEPT ![Now.i] = Now.on]
    /\ UNCHANGED <<netVars, gen, saved, daemon, clntUnchanged, fatal>>

EnableEnd ==
    /\ Doing("end")
    /\ IF Now.on /\ ~connected[Now.if] THEN UNCHANGED enabled
       ELSE Enable(SrvEnd(Now.i, Now.j), Now.on)
    /\ UNCHANGED <<ends, servers, reliable, netDone, call, connected, gen, saved, daemon, clntUnchanged, fatal>>

EnableClntEnd ==
    /\ Doing("clntEnd")
    /\ Enable(ClntEnd(Now.i), Now.on)
    /\ UNCHANGED <<ends, servers, reliable, netDone, call, connected, gen, saved, daemon, clntUnchanged, fatal>>

SetAllow ==
    /\ Doing("allow")
    /\ allow' = Now.set
    /\ UNCHANGED <<netVars, connected, gen, saved, daemon, made, gone, fatal>>

RemoveClntEnd ==
    /\ Doing("DeleteEnd")
    /\ DeleteEnd(ClntEnd(Now.i))
    /\ fatal' = (fatal \/ ClntEnd(Now.i) \notin ends)
    /\ UNCHANGED <<servers, reliable, netDone, call, connected, gen, saved, daemon, clntUnchanged>>

ClntGone ==
    /\ Doing("gone")
    /\ gone' = TRUE
    /\ UNCHANGED <<netVars, connected, gen, saved, daemon, made, allow, fatal>>

NetCleanup ==
    /\ Doing("net.Cleanup")
    /\ netDone' = TRUE
    /\ UNCHANGED <<ends, enabled, servers, reliable, call, connected, gen, saved, daemon, clntUnchanged, fatal>>

\* disable client connections to the server.
RemoveServer ==
    /\ Doing("DeleteServer")
    /\ DeleteServer(Now.i)
    /\ UNCHANGED <<ends, enabled, reliable, netDone, call, connected, gen, saved, daemon, clntUnchanged, fatal>>

\* CheckpointPersister: the daemon stops forwarding and copies its Persister.
\* A server that is not running (dc = nil) has nothing to copy.
Checkpoint ==
    LET i == Now.i
    IN  /\ Doing("checkpoint")
        /\ IF Running(i)
           THEN /\ saved' = [saved EXCEPT ![i] = daemon[i].disk]
                /\ daemon' = [daemon EXCEPT ![i].copied = TRUE]
           ELSE UNCHANGED <<saved, daemon>>
        /\ UNCHANGED <<netVars, connected, gen, clntUnchanged, fatal>>

Kill ==
    /\ Doing("kill")
    /\ daemon' = [daemon EXCEPT ![Now.i].phase = "down"]
    /\ UNCHANGED <<netVars, connected, gen, saved, clntUnchanged, fatal>>

\* startServer makes a Server with fresh ends; runDaemon starts the process.
RunDaemon ==
    LET i == Now.i
    IN  /\ Doing("runDaemon")
        /\ gen' = [gen EXCEPT ![i] = @ + 1]
        /\ MakeEnds([from : {i}, gen : {gen[i] + 1}, to : Servers])
        /\ daemon' = [daemon EXCEPT ![i] =
                         [gen |-> gen[i] + 1, phase |-> "boot", disk |-> {}, copied |-> FALSE]]
        /\ UNCHANGED <<enabled, servers, reliable, netDone, call, connected, saved, clntUnchanged, fatal>>

\* The Init RPC returns when InitDaemon has received the saved Persister.
InitDaemon ==
    LET i == Now.i
    IN  /\ Doing("init") /\ daemon[i].phase = "boot"
        /\ daemon' = [daemon EXCEPT ![i].phase = "init", ![i].disk = saved[i]]
        /\ UNCHANGED <<netVars, connected, gen, saved, clntUnchanged, fatal>>

\* dc.rpcc dials until the daemon listens.
DialDaemon ==
    /\ Doing("dial") /\ daemon[Now.i].phase \in {"listen", "serving"}
    /\ UNCHANGED <<netVars, connected, gen, saved, daemon, clntUnchanged, fatal>>

\* InitWait meets the daemon's "signal initialized".
WaitInit ==
    /\ Doing("waitInit") /\ daemon[Now.i].phase = "serving"
    /\ daemon' = [daemon EXCEPT ![Now.i].phase = "ready"]
    /\ UNCHANGED <<netVars, connected, gen, saved, clntUnchanged, fatal>>

JoinNetwork ==
    /\ Doing("AddServer")
    /\ AddServer(Now.i, gen[Now.i])
    /\ UNCHANGED <<ends, enabled, reliable, netDone, call, connected, gen, saved, daemon, clntUnchanged, fatal>>

TesterStep ==
    \/ SetConnected \/ EnableEnd \/ EnableClntEnd \/ SetAllow \/ RemoveClntEnd \/ ClntGone
    \/ NetCleanup \/ RemoveServer \/ Checkpoint \/ Kill
    \/ RunDaemon \/ InitDaemon \/ DialDaemon \/ WaitInit \/ JoinNetwork

-----------------------------------------------------------------------------
(* Daemons and calls.                                                       *)

\* InitDaemon goes on: listen, then make the server and register its services.
DaemonStep(i) ==
    /\ daemon[i].phase \in {"init", "listen"}
    /\ daemon' = [daemon EXCEPT ![i].phase = IF @ = "init" THEN "listen" ELSE "serving"]
    /\ UNCHANGED <<netVars, todo, ops, connected, gen, saved, clntUnchanged, split, fatal>>

Alive(r) == LET i == call[r].end.to IN Running(i) /\ daemon[i].gen = call[r].object

\* The handler saves the request; with no services registered yet, dispatch is
\* fatal; with the process gone, dc.forward fails.
Execute(r) ==
    LET i == call[r].end.to
    IN  /\ call[r].handler = "started"
        /\ IF Alive(r)
           THEN /\ Step(r, [call[r] EXCEPT !.handler = "executed"])
                /\ daemon' = [daemon EXCEPT ![i].disk = @ \union {r}]
                /\ fatal' = (fatal \/ daemon[i].phase \notin {"serving", "ready"})
           ELSE /\ Step(r, [call[r] EXCEPT !.handler = "error"])
                /\ UNCHANGED <<daemon, fatal>>
        /\ UNCHANGED <<netUnchanged, todo, ops, connected, gen, saved, clntUnchanged, split>>

\* A handler may wait for something that never happens, until it is killed.
HandlerHangs(r) ==
    /\ call[r].handler = "started" /\ Alive(r)
    /\ Step(r, [call[r] EXCEPT !.handler = "hung"])
    /\ UNCHANGED <<netUnchanged, grpVars>>

\* The reply comes back on the tester's connection, also after the checkpoint.
HandlerReturns(r) ==
    /\ call[r].handler = "executed" \/ (call[r].handler = "hung" /\ ~Alive(r))
    /\ Step(r, [call[r] EXCEPT !.handler = IF Alive(r) THEN "ok" ELSE "error"])
    /\ UNCHANGED <<netUnchanged, grpVars>>

\* Forward: a daemon calls another through the tester, on its own ends.
SrvCall(r, i, j) ==
    /\ i # j  \* a peer does not call itself
    /\ daemon[i].phase \in {"serving", "ready"} /\ ~daemon[i].copied
    /\ Call(r, SrvEnd(i, j))
    /\ UNCHANGED <<netUnchanged, grpVars>>

ClntOp == todo # <<>> /\ Now.do \in {"clntEnd", "allow", "DeleteEnd", "gone"}

\* Mutant: a new end is enabled whatever the client was told.
ClntCallAnyway(r, j) ==
    /\ ~ClntOp
    /\ made' = made \union {j}
    /\ IF j \in made THEN UNCHANGED <<ends, enabled>>
       ELSE MakeEnds({ClntEnd(j)}) /\ Enable(ClntEnd(j), TRUE)
    /\ Call(r, ClntEnd(j))
    /\ UNCHANGED <<servers, reliable, netDone, todo, ops, connected, gen, saved, daemon, allow, gone, split, fatal>>

\* Clnt.Call: makeEnd under clnt.mu, on the first call to a server.
ClntCall(r, j) ==
    /\ ~ClntOp
    /\ made' = made \union {j}
    /\ IF j \in made THEN UNCHANGED <<ends, enabled>>
       ELSE MakeEnds({ClntEnd(j)}) /\ Enable(ClntEnd(j), j \in allow)
    /\ Call(r, ClntEnd(j))
    /\ UNCHANGED <<servers, reliable, netDone, todo, ops, connected, gen, saved, daemon, allow, gone, split, fatal>>

Carry(r) == (ProcessReq(r) /\ UNCHANGED grpVars) \/ Execute(r) \/ HandlerHangs(r) \/ HandlerReturns(r)

Idle == todo = <<>>

Next ==
    \/ \E i \in Servers :
         BeginConnectOne(i) \/ BeginDisconnectAll(i) \/ BeginShutdown(i) \/ BeginRestart(i)
    \/ BeginConnectAll \/ (\E S \in SUBSET Servers : BeginPartition(S))
    \/ BeginClnt \/ BeginCleanup \/ SetReliable
    \/ TesterStep
    \/ \E i \in Servers : DaemonStep(i)
    \/ \E r \in Calls, j \in CallTo : ClntCall(r, j) \/ \E i \in Servers : SrvCall(r, i, j)
    \/ \E r \in Calls : Carry(r)

\* Every goroutine and process runs; a handler may hang.
Fairness ==
    /\ WF_vars(TesterStep)
    /\ \A i \in Servers : WF_vars(DaemonStep(i))
    /\ \A r \in Calls : WF_vars(ProcessReq(r) /\ UNCHANGED grpVars)
                        /\ WF_vars(Execute(r) \/ HandlerReturns(r))

Spec == Init /\ [][Next]_vars /\ Fairness

-----------------------------------------------------------------------------
(* Properties.                                                              *)

\* The Persister that the next start of server i would begin with, or that its
\* running daemon has.
Durable(i) ==
    IF daemon[i].phase \in {"down", "boot"} \/ daemon[i].copied THEN saved[i] ELSE daemon[i].disk

\* A call that was answered survives the death of the server that answered it:
\* "config.go is careful to call DeleteServer() before superseding the Persister"
\* (labrpc.go:338-343).
AckedSurvives ==
    \A r \in Calls : call[r].at = "ok" => r \in Durable(call[r].end.to)

SrvEnabled == {e \in enabled : e.from \in Servers}

\* Between operations the ends say what was asked for: without Partition, an end
\* is enabled exactly if both its servers are connected ("The connected field is
\* precise if and only if the ServerGrp.Partition is not used", annotation.go:228);
\* after Partition, exactly within a side; never an end of an earlier generation.
NetworkAsAsked ==
    Idle =>
      CASE split.how = "never" ->
             SrvEnabled = {SrvEnd(i, j) : i, j \in {k \in Servers : connected[k]}}
        [] split.how = "sides" ->
             SrvEnabled = {SrvEnd(i, j) : i, j \in split.side}
                          \union {SrvEnd(i, j) : i, j \in Servers \ split.side}
        [] OTHER -> \A e \in SrvEnabled : e.gen = gen[e.from]

\* A client that was told to disconnect from all has no enabled end, also when it
\* makes an end to a server it had not called before.
CutClientIsCut ==
    ~ClntOp /\ allow = {} => \A e \in enabled : e.from # Clnt

\* No call finds a server without its services, and no end is deleted twice.
NeverFatal == ~fatal

\* Every Call returns, whatever the test does to the server meanwhile, "*except*
\* if the handler function on the server side does not return" (labrpc.go:37-38);
\* and a hung handler does not keep a call whose server is cut off or deleted:
\* processReq looks at the server while it waits.
CallsReturn ==
    \A r \in Calls :
      /\ call[r].at = "sent" ~> Returned(r) \/ call[r].handler = "hung"
      /\ (call[r].at = "waiting" /\ IsServerDead(r)) ~> (Returned(r) \/ ~IsServerDead(r))

\* Every operation of the test comes to its end: the tester and a starting daemon
\* do not wait for each other.
EveryOpEnds == []<>Idle
=============================================================================
