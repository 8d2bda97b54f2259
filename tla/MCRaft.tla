------------------------------- MODULE MCRaft -------------------------------
(* Instances of Raft for TLC.                                               *)
EXTENDS Raft, TLC

CONSTANTS s1, s2, s3, a, b, c

\* The permutations of the peers under which the instance looks the same.
Symmetry ==
    {p \in Permutations(Server) :
       \A S \in {Electable, Appliers, Savers} : {p[i] : i \in S} = S}
      \union Permutations(Command)
=============================================================================
