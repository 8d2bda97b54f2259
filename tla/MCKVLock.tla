------------------------------ MODULE MCKVLock ------------------------------
(* Instances of KVLock for TLC.                                             *)
EXTENDS KVLock, TLC

CONSTANTS c1, c2, c3, c4, l1, l2

\* Three clients of one lock, and a fourth of another.
TwoLocks == [c \in Clients |-> IF c = c4 THEN l2 ELSE l1]
=============================================================================
