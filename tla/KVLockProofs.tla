---------------------------- MODULE KVLockProofs ----------------------------
(***************************************************************************)
(* The lock excludes, for any number of clients, locks and acquisitions.   *)
(***************************************************************************)
EXTENDS KVLock, TLAPS

\* A client that holds the lock finds its own name in the store.
HolderNamed ==
    \A c \in Clients : Holding(c) => data[LockNames[c]].val = c

\* What a client read before a Put is either outdated or still true.
PutIsFresh ==
    \A c \in Clients :
        /\ pc[c] = "put" =>
             /\ ver[c] <= data[LockNames[c]].version
             /\ ver[c] = data[LockNames[c]].version => data[LockNames[c]].val = Empty
        /\ pc[c] = "free" => ver[c] = data[LockNames[c]].version

\* A key that does not exist has no value.
MissingIsEmpty == \A k \in Keys : data[k].version = 0 => data[k].val = Empty

\* A client in Acquire has not used up its turns.
TurnsLeft == \A c \in Clients : pc[c] \in {"get", "put", "check"} => holds[c] < MaxHolds

LockInv == TypeOK /\ HolderNamed /\ PutIsFresh /\ MissingIsEmpty /\ TurnsLeft

LEMMA ConstantsOK ==
    /\ Values = Clients /\ Empty \notin Clients /\ MaxHolds \in Nat
    /\ LockNames \in [Clients -> Keys]
  BY KVAssumption, LockAssumption DEF KVAssumption, LockAssumption

\* A Put keeps the map's type, and changes nothing if the version is another.
LEMMA PutEffect ==
    ASSUME NEW d \in [Keys -> Entries], NEW k \in Keys, NEW v \in Values \union {Empty},
           NEW n \in Nat
    PROVE  /\ PutData(d, k, v, n) \in [Keys -> Entries]
           /\ d[k].version # n => PutData(d, k, v, n) = d
  BY DEF PutData, PutReply, Entries

LEMMA InitLockInv == Init => LockInv
<1> SUFFICES ASSUME Init PROVE LockInv
  OBVIOUS
<1>1. Missing \in Entries
  BY DEF Missing, Entries
<1> QED
  BY <1>1, ConstantsOK
  DEF Init, MakeKVServer, Missing, LockInv, TypeOK, HolderNamed, Holding, PutIsFresh, MissingIsEmpty, TurnsLeft

LEMMA NextLockInv == LockInv /\ [Next]_vars => LockInv'
<1> SUFFICES ASSUME LockInv, [Next]_vars PROVE LockInv'
  OBVIOUS
<1>c. /\ Values = Clients /\ Empty \notin Clients /\ MaxHolds \in Nat
      /\ \A c \in Clients : LockNames[c] \in Keys
  BY ConstantsOK
<1>d. /\ \A k \in Keys : data[k].version \in Nat
      /\ \A c \in Clients : Read(c).val = data[LockNames[c]].val
      /\ \A c \in Clients : Read(c).version = data[LockNames[c]].version
      /\ \A c \in Clients : Read(c).err = "ErrNoKey" => data[LockNames[c]].version = 0
  BY <1>c DEF Read, GetReply, LockInv, TypeOK, Entries, MissingIsEmpty
<1> USE <1>c DEF LockInv, Goto
<1>1. ASSUME NEW c \in Clients, Acquire(c) PROVE LockInv'
  BY <1>1 DEF Acquire, TypeOK, HolderNamed, Holding, PutIsFresh, MissingIsEmpty, TurnsLeft
<1>2. ASSUME NEW c \in Clients, AcquireGet(c) PROVE LockInv'
  <2>1. /\ pc' = [pc EXCEPT ![c] = IF Read(c).err = "ErrNoKey" \/ Read(c).val = Empty
                                   THEN "put" ELSE "check"]
        /\ ver' = [ver EXCEPT ![c] = data[LockNames[c]].version]
        /\ UNCHANGED <<data, holds>>
    BY <1>2, <1>d DEF AcquireGet
  <2>2. TypeOK'
    BY <1>d, <2>1 DEF TypeOK
  <2>3. HolderNamed' /\ MissingIsEmpty' /\ TurnsLeft'
    BY <1>2, <2>1 DEF AcquireGet, TypeOK, HolderNamed, Holding, MissingIsEmpty, TurnsLeft
  <2>4. PutIsFresh'
    BY <1>d, <2>1 DEF TypeOK, PutIsFresh, MissingIsEmpty
  <2> QED
    BY <2>2, <2>3, <2>4
<1>3. ASSUME NEW c \in Clients, AcquirePut(c) PROVE LockInv'
  <2> DEFINE k == LockNames[c]
  <2>1. /\ pc[c] = "put" /\ pc' = [pc EXCEPT ![c] = "check"] /\ UNCHANGED <<ver, holds>>
        /\ data' = PutData(data, k, c, ver[c])
    BY <1>3 DEF AcquirePut
  <2>2. TypeOK'
    BY <2>1, PutEffect DEF TypeOK
  <2>3. CASE data[k].version # ver[c]
    <3>1. data' = data
      BY <2>1, <2>3, PutEffect DEF TypeOK
    <3> QED
      BY <2>1, <2>2, <3>1 DEF TypeOK, HolderNamed, Holding, PutIsFresh, MissingIsEmpty, TurnsLeft
  <2>4. CASE data[k].version = ver[c]
    <3>1. data' = [data EXCEPT ![k] = [val |-> c, version |-> ver[c] + 1]] /\ ver[c] \in Nat
      BY <2>1, <2>4 DEF TypeOK, PutData, PutReply
    <3>2. data[k].val = Empty
      BY <2>1, <2>4 DEF PutIsFresh
    <3>3. /\ data'[k].val = c /\ data'[k].version = ver[c] + 1
          /\ \A j \in Keys : j # k => data'[j] = data[j]
      BY <3>1 DEF TypeOK
    <3>4. \A d \in Clients : Holding(d) => LockNames[d] # k
      BY <3>2 DEF HolderNamed
    <3>5. HolderNamed'
      BY <2>1, <3>3, <3>4 DEF HolderNamed, Holding, TypeOK
    <3>6. PutIsFresh'
      BY <1>d, <2>1, <2>4, <3>1, <3>3, <3>4 DEF PutIsFresh, Holding, TypeOK
    <3>7. MissingIsEmpty' /\ TurnsLeft'
      BY <2>1, <3>1, <3>3 DEF MissingIsEmpty, TurnsLeft, TypeOK
    <3> QED
      BY <2>2, <3>5, <3>6, <3>7
  <2> QED
    BY <2>3, <2>4
<1>4. ASSUME NEW c \in Clients, AcquireCheck(c) PROVE LockInv'
  <2>1. CASE Read(c).val = c
    <3>1. /\ pc[c] = "check" /\ pc' = [pc EXCEPT ![c] = "in"] /\ UNCHANGED <<data, ver>>
          /\ holds' = [holds EXCEPT ![c] = holds[c] + 1] /\ data[LockNames[c]].val = c
      BY <1>4, <1>d, <2>1 DEF AcquireCheck
    <3>2. TypeOK'
      BY <3>1 DEF TypeOK, TurnsLeft
    <3> QED
      BY <3>1, <3>2
      DEF TypeOK, HolderNamed, Holding, PutIsFresh, MissingIsEmpty, TurnsLeft
  <2>2. CASE Read(c).val # c
    BY <1>4, <2>2 DEF AcquireCheck, TypeOK, HolderNamed, Holding, PutIsFresh, MissingIsEmpty, TurnsLeft
  <2> QED
    BY <2>1, <2>2
<1>5. ASSUME NEW c \in Clients, Release(c) PROVE LockInv'
  BY <1>5 DEF Release, TypeOK, HolderNamed, Holding, PutIsFresh, MissingIsEmpty, TurnsLeft
<1>6. ASSUME NEW c \in Clients, ReleaseGet(c) PROVE LockInv'
  <2>1. /\ pc[c] = "find"
        /\ pc' = [pc EXCEPT ![c] = IF Read(c).val = c THEN "free" ELSE "find"]
        /\ ver' = [ver EXCEPT ![c] = data[LockNames[c]].version]
        /\ UNCHANGED <<data, holds>>
    BY <1>6, <1>d DEF ReleaseGet
  <2>2. TypeOK'
    BY <1>d, <2>1 DEF TypeOK
  <2> QED
    BY <2>1, <2>2 DEF TypeOK, HolderNamed, Holding, PutIsFresh, MissingIsEmpty, TurnsLeft
<1>7. ASSUME NEW c \in Clients, ReleasePut(c) PROVE LockInv'
  <2> DEFINE k == LockNames[c]
  <2>1. /\ pc[c] = "free" /\ pc' = [pc EXCEPT ![c] = "out"] /\ UNCHANGED <<ver, holds>>
        /\ data' = PutData(data, k, Empty, ver[c])
        /\ data[k].version = ver[c] /\ data[k].val = c /\ ver[c] \in Nat
    BY <1>7 DEF ReleasePut, PutIsFresh, HolderNamed, Holding, TypeOK
  <2>2. TypeOK'
    BY <2>1, PutEffect DEF TypeOK
  <2>3. data' = [data EXCEPT ![k] = [val |-> Empty, version |-> ver[c] + 1]]
    BY <2>1 DEF PutData, PutReply
  <2>4. /\ data'[k].val = Empty /\ data'[k].version = ver[c] + 1
        /\ \A j \in Keys : j # k => data'[j] = data[j]
    BY <2>3 DEF TypeOK
  <2>5. \A d \in Clients : d # c /\ Holding(d) => LockNames[d] # k
    BY <2>1 DEF HolderNamed
  <2>6. HolderNamed'
    BY <2>1, <2>4, <2>5 DEF HolderNamed, Holding, TypeOK
  <2>7. PutIsFresh'
    BY <1>d, <2>1, <2>4, <2>5 DEF PutIsFresh, Holding, TypeOK
  <2>8. MissingIsEmpty' /\ TurnsLeft'
    BY <2>1, <2>4 DEF MissingIsEmpty, TurnsLeft, TypeOK
  <2> QED
    BY <2>2, <2>6, <2>7, <2>8
<1>8. CASE UNCHANGED vars
  BY <1>8 DEF vars, TypeOK, HolderNamed, Holding, PutIsFresh, MissingIsEmpty, TurnsLeft
<1> QED
  BY <1>1, <1>2, <1>3, <1>4, <1>5, <1>6, <1>7, <1>8 DEF Next, LockStep

LEMMA LockInvariant == Safe => []LockInv
  BY InitLockInv, NextLockInv, PTL DEF Safe

\* At most one client holds a lock, for every number of clients: what Get
\* returned is either outdated, and the versioned Put fails, or still true.
THEOREM LockExcludes == Safe => [](TypeOK /\ MutualExclusion)
<1>1. LockInv => TypeOK /\ MutualExclusion
  BY DEF LockInv, HolderNamed, MutualExclusion
<1> QED
  BY <1>1, LockInvariant, PTL

\* Release may ignore what its Put returns: the Put has freed the lock.
THEOREM ReleaseAlwaysFrees == Safe => ReleaseFrees
<1>1. LockInv /\ [Next]_vars
        => [\A c \in Clients : pc[c] = "free" /\ pc'[c] = "out" => data'[LockNames[c]].val = Empty]_vars
  <2> SUFFICES ASSUME LockInv, [Next]_vars, NEW c \in Clients, pc[c] = "free", pc'[c] = "out"
               PROVE  data'[LockNames[c]].val = Empty
    OBVIOUS
  <2>1. ReleasePut(c)
    BY DEF Next, LockStep, Goto, vars, Acquire, AcquireGet, AcquirePut, AcquireCheck, Release,
           ReleaseGet, ReleasePut, LockInv, TypeOK
  <2>2. /\ data' = PutData(data, LockNames[c], Empty, ver[c]) /\ LockNames[c] \in Keys
        /\ data[LockNames[c]].version = ver[c] /\ ver[c] \in Nat /\ data \in [Keys -> Entries]
    BY <2>1, ConstantsOK DEF ReleasePut, LockInv, PutIsFresh, TypeOK
  <2>3. data' = [data EXCEPT ![LockNames[c]] = [val |-> Empty, version |-> ver[c] + 1]]
    BY <2>2 DEF PutData, PutReply
  <2> QED
    BY <2>2, <2>3
<1> QED
  BY <1>1, LockInvariant, PTL DEF Safe, ReleaseFrees
=============================================================================
