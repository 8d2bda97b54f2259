---------------------------- MODULE MCMapReduce ----------------------------
(* Instances of MapReduce for TLC.                                          *)
EXTENDS MapReduce, TLC

CONSTANTS w1, w2, w3

AllTasks == ({"map"} \X MapTasks) \union ({"reduce"} \X ReduceTasks)
AllButZero == {t \in AllTasks : t[2] # 0}

Symmetry == Permutations(Workers)
=============================================================================
