------------------------------ MODULE MCBridge ------------------------------
(* Values of the constants of Bridge for TLC.                              *)
EXTENDS Bridge, TLC

CONSTANTS t1, t2, s1, s2, s3

MCThreads == {t1, t2}
MCSockets == {s1, s2, s3}

(* One request is longer than the buffer of the server.                    *)
MCPieces == [c \in Calls |-> IF c = <<t1, 1>> THEN 2 ELSE 1]
=============================================================================
