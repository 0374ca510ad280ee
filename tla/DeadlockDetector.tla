-------------------------- MODULE DeadlockDetector --------------------------
(***************************************************************************)
(* The deadlock detector of the semaphore manager (kernel/semaphore.h): a  *)
(* depth first search of the wait-for graph for a back edge, run by every  *)
(* wait that blocks and by the deadlock_check call.  It holds mtx_, so no  *)
(* call of the manager comes between its steps, and changes nothing but    *)
(* its own variables, which are the locals of _check_deadlock_nolock and   *)
(* of the activations of _dfs.                                             *)
(***************************************************************************)
EXTENDS SemaphoreManager

ASSUME ProcsAssumption == Procs \subseteq Int

VARIABLES
  phase,     \* "idle", "search" while the detector runs, "done" when it returns
  roots,     \* keys of waits_for the loop has not come to
  path,      \* nodes of the activations of _dfs, the innermost first
  left,      \* neighbours each activation has not come to
  visited,   \* visited
  recStack,  \* rec_stack
  found,     \* _dfs has returned TRUE
  cycle      \* cycle

searchVars == <<phase, roots, path, left, visited, recStack, found, cycle>>
detVars == <<semVars, searchVars>>

DetInit ==
  /\ SemInit
  /\ phase = "idle" /\ roots = {}
  /\ path = <<>>
  /\ left = [p \in Procs |-> {}]
  /\ visited = {} /\ recStack = {}
  /\ found = FALSE /\ cycle = <<>>

(* std::map and std::set are walked in ascending order.                    *)
Least(p, S) == p \in S /\ \A q \in S : p <= q

Start ==
  /\ phase' = "search"
  /\ roots' = {p \in Procs : WaitsFor'[p] # {}}
  /\ UNCHANGED <<path, left, visited, recStack, found, cycle>>

(* The calls of the manager; a wait that blocks starts the detector.       *)
BlockAndCheck(s, p) == phase = "idle" /\ Block(s, p) /\ Start

OtherCall ==
  /\ phase = "idle"
  /\ \E s \in Sems :
       \/ \E n \in InitValues : Create(s, n)
       \/ \E p \in Procs : Acquire(s, p) \/ Signal(s, p)
  /\ UNCHANGED searchVars

(* check_deadlock.                                                         *)
CheckDeadlock == phase = "idle" /\ UNCHANGED semVars /\ Start

(* The entry of an activation of _dfs for node p.                          *)
Enter(p) ==
  /\ path' = <<p>> \o path
  /\ visited' = visited \cup {p}
  /\ recStack' = recStack \cup {p}

(* The loop over waits_for: a search from each node not visited yet.       *)
NextRoot(p) ==
  /\ phase = "search" /\ path = <<>> /\ ~found
  /\ Least(p, roots)
  /\ roots' = roots \ {p}
  /\ IF p \in visited
     THEN UNCHANGED <<path, left, visited, recStack>>
     ELSE Enter(p) /\ left' = [left EXCEPT ![p] = WaitsFor[p]]
  /\ UNCHANGED <<semVars, phase, found, cycle>>

Neighbour(nb) ==
  /\ phase = "search" /\ path # <<>> /\ ~found
  /\ Least(nb, left[Head(path)])

(* The loop of _dfs over the neighbours: one not visited is searched, ...  *)
Descend(nb) ==
  /\ Neighbour(nb)
  /\ nb \notin visited
  /\ Enter(nb)
  /\ left' = [left EXCEPT ![Head(path)] = @ \ {nb}, ![nb] = WaitsFor[nb]]
  /\ UNCHANGED <<semVars, phase, roots, found, cycle>>

(* ... one on rec_stack closes a cycle, ...                                *)
BackEdge(nb) ==
  /\ Neighbour(nb)
  /\ nb \in visited /\ nb \in recStack
  /\ found' = TRUE
  /\ cycle' = cycle \o <<nb, Head(path)>>
  /\ path' = Tail(path)
  /\ UNCHANGED <<semVars, phase, roots, left, visited, recStack>>

(* ... any other is passed over.                                           *)
PassOver(nb) ==
  /\ Neighbour(nb)
  /\ nb \in visited /\ nb \notin recStack
  /\ left' = [left EXCEPT ![Head(path)] = @ \ {nb}]
  /\ UNCHANGED <<semVars, phase, roots, path, visited, recStack, found, cycle>>

(* Mutant: a node that was left stays on rec_stack.                        *)
LeaveKeepsStack ==
  /\ phase = "search" /\ path # <<>> /\ ~found
  /\ left[Head(path)] = {}
  /\ path' = Tail(path)
  /\ UNCHANGED <<semVars, phase, roots, left, visited, recStack, found, cycle>>

(* The end of the loop: _dfs returns FALSE.                                *)
Leave ==
  /\ phase = "search" /\ path # <<>> /\ ~found
  /\ left[Head(path)] = {}
  /\ recStack' = recStack \ {Head(path)}
  /\ path' = Tail(path)
  /\ UNCHANGED <<semVars, phase, roots, left, visited, found, cycle>>

(* _dfs returns TRUE to the activation that called it.                     *)
Unwind ==
  /\ phase = "search" /\ path # <<>> /\ found
  /\ cycle' = Append(cycle, Head(path))
  /\ path' = Tail(path)
  /\ UNCHANGED <<semVars, phase, roots, left, visited, recStack, found>>

Answer ==
  /\ phase = "search" /\ path = <<>>
  /\ found \/ roots = {}
  /\ phase' = "done"
  /\ UNCHANGED <<semVars, roots, path, left, visited, recStack, found, cycle>>

(* The locals go and mtx_ is released.                                     *)
Return ==
  /\ phase = "done"
  /\ phase' = "idle" /\ roots' = {}
  /\ path' = <<>>
  /\ left' = [p \in Procs |-> {}]
  /\ visited' = {} /\ recStack' = {}
  /\ found' = FALSE /\ cycle' = <<>>
  /\ UNCHANGED semVars

SearchStep ==
  \/ \E p \in Procs : NextRoot(p) \/ Descend(p) \/ BackEdge(p) \/ PassOver(p)
  \/ Leave \/ Unwind \/ Answer \/ Return

DetNext ==
  \/ \E s \in Sems, p \in Procs : BlockAndCheck(s, p)
  \/ OtherCall \/ CheckDeadlock \/ SearchStep

DetSpec == DetInit /\ [][DetNext]_detVars

-----------------------------------------------------------------------------
(* Properties.                                                             *)

(* A report is a walk against the edges of the wait-for graph that comes   *)
(* back to the process it starts with.                                     *)
IsReport(c) ==
  /\ \A i \in 1 .. Len(c) - 1 : c[i] \in WaitsFor[c[i + 1]]
  /\ \E j \in 2 .. Len(c) : c[j] = c[1]

(* The search answers TRUE exactly when there is a deadlock: sharing       *)
(* visited between the roots and leaving rec_stack on the way back neither *)
(* misses one nor reports a path that merely meets itself.  What it        *)
(* reports contains a cycle through the first process it names.            *)
DetectorExact ==
  phase = "done" => /\ found <=> Deadlock
                    /\ found => IsReport(cycle)
=============================================================================
