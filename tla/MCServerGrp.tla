---------------------------- MODULE MCServerGrp ----------------------------
(* Instances of ServerGrp for TLC.                                          *)
EXTENDS ServerGrp

CONSTANT r1
=============================================================================
