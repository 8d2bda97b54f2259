------------------------------ MODULE MCKVTest ------------------------------
(* Instances of KVTest for TLC.                                             *)
EXTENDS KVTest
=============================================================================
