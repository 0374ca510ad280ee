----------------------------- MODULE MCSessions -----------------------------
(* Values of the constants of Sessions for TLC.                            *)
EXTENDS Sessions, TLC

CONSTANTS u1, u2, t1, t2, r1, r2

MCUsers  == {u1, u2}
MCTabs   == {t1, t2}
MCSlots  == {r1, r2}
Symmetry == Permutations(MCUsers) \cup Permutations(MCTabs) \cup Permutations(MCSlots)

(* Little is claimed of the states after a list has strayed, or has been   *)
(* carried over.                                                           *)
Unmixed == ~strayed /\ ~carried

(* A third chat is only made when two are deleted, and two are deleted only*)
(* while one of the tabs is out.                                           *)
FewChats == IF Cardinality(deleted) = 2 THEN \E t \in Tabs : stage[t] = "out" ELSE Len(made) <= 2
=============================================================================
