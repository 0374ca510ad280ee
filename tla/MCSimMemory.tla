---------------------------- MODULE MCSimMemory -----------------------------
(* Values of the constants of SimMemory for TLC.                           *)
EXTENDS SimMemory, TLC

CONSTANTS t1, t2, c1, c2

MCPages    == -1 .. 0
MCThreads  == {t1, t2}
MCContents == {c1, c2}
MCSymmetry == Permutations(MCThreads) \cup Permutations(MCContents)
=============================================================================
