------------------------------ MODULE MCDemux ------------------------------
(* Instances of Demux for TLC.                                              *)
EXTENDS Demux

CONSTANTS g1, g2, g3
=============================================================================
