------------------------------ MODULE KVServer ------------------------------
(***************************************************************************)
(* The handlers of the key/value server (kvsrv1/server.go) as functions of *)
(* its map.  Every handler runs under kv.mu.  A key that is not in the map *)
(* is one with version 0: Put creates keys with version 1 and none is ever *)
(* removed.                                                                *)
(***************************************************************************)
EXTENDS Naturals

CONSTANTS
    Keys,    \* the keys
    Values,  \* the values clients write
    Empty    \* the zero Value of a GetReply, ""

ASSUME KVAssumption == Empty \notin Values

Missing == [val |-> Empty, version |-> 0]
Entries == [val : Values \union {Empty}, version : Nat]

MakeKVServer == [k \in Keys |-> Missing]

GetReply(data, key) ==
    IF data[key].version = 0
    THEN [err |-> "ErrNoKey", val |-> Empty, version |-> 0]
    ELSE [err |-> "OK", val |-> data[key].val, version |-> data[key].version]
\* Mutant: the version of an existing key is not compared.
PutReplyUnchecked(data, key, version) ==
    IF data[key].version = 0 /\ version # 0 THEN "ErrNoKey" ELSE "OK"

PutReply(data, key, version) ==
    IF data[key].version = version THEN "OK"
    ELSE IF data[key].version = 0 THEN "ErrNoKey"
    ELSE "ErrVersion"
\* The map after a Put: unchanged unless the reply is OK.
PutData(data, key, value, version) ==
    IF PutReply(data, key, version) = "OK"
    THEN [data EXCEPT ![key] = [val |-> value, version |-> data[key].version + 1]]
    ELSE data
=============================================================================
