-------------------------- MODULE MCKernelMemory --------------------------
(* Instances of KernelMemory for TLC.                                      *)
EXTENDS KernelMemory

TwoPages == 0 .. 1

(* Threads and contents are interchangeable; pages are compared by number. *)
Symmetric == Permutations(Threads) \cup Permutations(Contents \ {Empty})
=============================================================================
