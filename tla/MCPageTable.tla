---------------------------- MODULE MCPageTable ----------------------------
(* Instances of PageTable for TLC.                                         *)
EXTENDS PageTable

(* More pages than frames.                                                 *)
MCPages == 0 .. 3

(* A page id that is also the answer for "no page", and others beside it.  *)
SignedPages == -1 .. 2
=============================================================================
