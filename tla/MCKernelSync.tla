---------------------------- MODULE MCKernelSync ----------------------------
(* Instances of KernelSync for TLC.                                        *)
EXTENDS KernelSync

TwoProcs   == 1000 .. 1001
ThreeProcs == 1000 .. 1002
First      == 1000
Nobody     == -1
=============================================================================
