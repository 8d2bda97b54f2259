----------------------------- MODULE MCKVClerk -----------------------------
(* Instances of KVClerk for TLC.                                            *)
EXTENDS KVClerk, TLC

CONSTANTS c1, c2, c3, k1, k2, v1, v2

Symmetry == Permutations(Clients) \union Permutations(Values)
=============================================================================
