--------------------------- MODULE MCProcessTable ---------------------------
(* Instances of ProcessTable for TLC.                                      *)
EXTENDS ProcessTable

ThreeProcs == 1000 .. 1002
First      == 1000
=============================================================================
