------------------------------- MODULE Lists -------------------------------
(* Erasing an element of a list without repetitions: std::remove with      *)
(* erase on a vector, and the erase of a list at a known position.         *)
EXTENDS Sequences, Functions, SequencesExt

Without(s, x) ==
  IF x \in Range(s) THEN RemoveAt(s, CHOOSE i \in DOMAIN s : s[i] = x) ELSE s
=============================================================================
