------------------------ MODULE MCDeadlockDetector ------------------------
(* Instances of DeadlockDetector for TLC.                                  *)
EXTENDS DeadlockDetector, TLC

ThreeProcs == 1000 .. 1002
Nobody     == -1
Inits      == {0, 1, 2}
Symmetric  == Permutations(Sems)
=============================================================================
