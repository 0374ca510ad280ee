---------------------------- MODULE MCChatTurns -----------------------------
(* Values of the constants of ChatTurns for TLC.                           *)
EXTENDS ChatTurns, TLC

CONSTANTS t1, t2

MCTurns == {t1, t2}
=============================================================================
