----------------------------- MODULE MCAccounts -----------------------------
(* Values of the constants of Accounts for TLC.                            *)
EXTENDS Accounts, TLC

CONSTANTS u1, u2, r1, r2

MCPids     == 1000 .. 1001
MCSimPids  == 1001 .. 1002   \* from 2000 up in the program: after two forks, not a thousand
MCUsers    == {u1, u2}
MCRequests == {r1, r2}
(* The run stops where registrations have overlapped or been cut short,    *)
(* and where too much is out of order at once: it has two restarts and     *)
(* simulated pids together, or one pid from a stray answer, and at most one*)
(* process that was left behind.                                           *)
Strays == Cardinality({u \in Users : born[u] = Stray})
FewFaults ==
  /\ ~mingled
  /\ kernels + servers + (nextSim - FirstSimPid) + 2 * Strays <= 2
  /\ Cardinality(orphaned) <= 1
MCSymmetry == Permutations(MCUsers) \cup Permutations(MCRequests)
=============================================================================
