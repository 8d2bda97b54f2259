------------------------------- MODULE KVLock -------------------------------
(***************************************************************************)
(* The lock (kvsrv1/lock/lock.go) that clients build on a key/value clerk. *)
(*                                                                         *)
(* Get and Put of the clerk are atomic here: KVClerk shows that they take   *)
(* effect at one point between call and return, and a client of the lock   *)
(* does nothing in between.  The lock never looks at what Put returns, so  *)
(* ErrMaybe needs no case of its own.                                      *)
(***************************************************************************)
EXTENDS KVServer

CONSTANTS
    Clients,    \* clientID: RandValue(8), taken to be unique
    LockNames,  \* lockName of each client
    MaxHolds    \* bound: how often a client takes the lock

ASSUME LockAssumption ==
    /\ Values = Clients
    /\ LockNames \in [Clients -> Keys]
    /\ MaxHolds \in Nat

VARIABLES
    data,   \* the server's map
    pc,     \* where a client is
    ver,    \* the version its last Get returned
    holds   \* how often it has taken the lock

vars == <<data, pc, ver, holds>>

\* The types of the variables: a lock holds a client's name or is free.
TypeOK ==
    /\ data \in [Keys -> Entries]
    /\ pc \in [Clients -> {"out", "get", "put", "check", "in", "find", "free"}]
    /\ ver \in [Clients -> Nat]
    /\ holds \in [Clients -> 0 .. MaxHolds]

Init ==
    /\ data = MakeKVServer
    /\ pc = [c \in Clients |-> "out"]
    /\ ver = [c \in Clients |-> 0]
    /\ holds = [c \in Clients |-> 0]

Goto(c, l) == pc' = [pc EXCEPT ![c] = l]
Read(c) == GetReply(data, LockNames[c])

-----------------------------------------------------------------------------
(* Acquire.                                                                 *)

Acquire(c) ==
    /\ pc[c] = "out"
    /\ holds[c] < MaxHolds
    /\ Goto(c, "get")
    /\ UNCHANGED <<data, ver, holds>>
\* The first Get: a lock that looks free is worth a Put.
AcquireGet(c) ==
    /\ pc[c] = "get"
    /\ ver' = [ver EXCEPT ![c] = Read(c).version]
    /\ Goto(c, IF Read(c).err = "ErrNoKey" \/ Read(c).val = Empty THEN "put" ELSE "check")
    /\ UNCHANGED <<data, holds>>

AcquirePut(c) ==
    /\ pc[c] = "put"
    /\ data' = PutData(data, LockNames[c], c, ver[c])
    /\ Goto(c, "check")
    /\ UNCHANGED <<ver, holds>>
\* The second Get decides: is the value mine?
AcquireCheck(c) ==
    /\ pc[c] = "check"
    /\ IF Read(c).val = c
       THEN Goto(c, "in") /\ holds' = [holds EXCEPT ![c] = @ + 1]
       ELSE Goto(c, "get") /\ UNCHANGED holds
    /\ UNCHANGED <<data, ver>>

-----------------------------------------------------------------------------
(* Release.                                                                 *)

Release(c) ==
    /\ pc[c] = "in"
    /\ Goto(c, "find")
    /\ UNCHANGED <<data, ver, holds>>
\* Mutant: Release uses the version Acquire read before its own Put.
ReleaseGetStale(c) ==
    /\ pc[c] = "find"
    /\ Goto(c, IF Read(c).val = c THEN "free" ELSE "find")
    /\ UNCHANGED <<data, ver, holds>>

ReleaseGet(c) ==
    /\ pc[c] = "find"
    /\ ver' = [ver EXCEPT ![c] = Read(c).version]
    /\ Goto(c, IF Read(c).val = c THEN "free" ELSE "find")
    /\ UNCHANGED <<data, holds>>
\* Mutant: Release writes the client's own name back.
ReleasePutKeeps(c) ==
    /\ pc[c] = "free"
    /\ data' = PutData(data, LockNames[c], c, ver[c])
    /\ Goto(c, "out")
    /\ UNCHANGED <<ver, holds>>

ReleasePut(c) ==
    /\ pc[c] = "free"
    /\ data' = PutData(data, LockNames[c], Empty, ver[c])
    /\ Goto(c, "out")
    /\ UNCHANGED <<ver, holds>>

LockStep(c) ==
    \/ Acquire(c) \/ AcquireGet(c) \/ AcquirePut(c) \/ AcquireCheck(c)
    \/ Release(c) \/ ReleaseGet(c) \/ ReleasePut(c)

Finished == \A c \in Clients : pc[c] = "out" /\ holds[c] = MaxHolds

Next == (\E c \in Clients : LockStep(c)) \/ (Finished /\ UNCHANGED vars)

Safe == Init /\ [][Next]_vars

\* Clients are goroutines that run, and use the lock to release it again.
Spec == Safe /\ \A c \in Clients : WF_vars(LockStep(c))

-----------------------------------------------------------------------------
(* Properties.                                                              *)

Holding(c) == pc[c] \in {"in", "find", "free"}

\* No two clients are between a return of Acquire and the return of Release
\* for the same lock, although Acquire ignores what Put answered.
MutualExclusion ==
    \A c, d \in Clients :
        c # d /\ LockNames[c] = LockNames[d] => ~(Holding(c) /\ Holding(d))

\* A Put of the empty string that Release ignored the answer of has freed the
\* lock: Release never returns with the lock still taken.
ReleaseFrees ==
    [][\A c \in Clients : pc[c] = "free" /\ pc'[c] = "out" =>
          data'[LockNames[c]].val = Empty]_vars

\* Nobody is locked out for ever: every client gets the lock as often as it
\* wants it, when everyone wants it a bounded number of times.
EveryoneServed == <>Finished
=============================================================================
