----------------------------- MODULE MCShardCfg -----------------------------
(* Instances of ShardCfg for TLC.                                           *)
EXTENDS ShardCfg
=============================================================================
