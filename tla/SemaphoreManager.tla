-------------------------- MODULE SemaphoreManager --------------------------
(***************************************************************************)
(* The kernel's named semaphores (kernel/semaphore.h).  create, wait and   *)
(* signal hold mtx_ throughout, so each is one action.  The manager trusts *)
(* its callers: Spec allows every call, by every process, at any time;     *)
(* FairSpec allows the calls of processes that use semaphores as they      *)
(* are meant to be used.                                                   *)
(*                                                                         *)
(* A call on a name that was never created changes nothing and has no      *)
(* action here (KernelSync models what the system call does next).         *)
(***************************************************************************)
EXTENDS Integers, Sequences, FiniteSets

CONSTANTS Sems,        \* semaphore names
          Procs,       \* the pids that call
          NoHolder,    \* holder_pid of a semaphore nobody holds (-1)
          InitValues,  \* the values sem_create is given
          MaxValue,    \* bound: signal raises a value to MaxValue
          MaxWaiting   \* bound: the length of a wait queue

ASSUME HolderAssumption == NoHolder \notin Procs
ASSUME ValuesAssumption == InitValues \subseteq Int /\ MaxValue \in Int /\ MaxWaiting \in Nat

VARIABLES
  created,   \* the names in sems_
  value,     \* value of each semaphore
  holder,    \* holder_pid of each semaphore
  queue,     \* wait_queue of each semaphore
  assigned,  \* assignment_edges_
  requests,  \* request_edges_
  units      \* history: the value each semaphore was created with

semVars == <<created, value, holder, queue, assigned, requests, units>>

(* The processes queued on a semaphore.                                    *)
Queued(s) == {queue[s][i] : i \in DOMAIN queue[s]}

SemInit ==
  /\ created = {}
  /\ value = [s \in Sems |-> 0]
  /\ holder = [s \in Sems |-> NoHolder]
  /\ queue = [s \in Sems |-> <<>>]
  /\ assigned = [s \in Sems |-> {}]
  /\ requests = [p \in Procs |-> {}]
  /\ units = [s \in Sems |-> 0]

-----------------------------------------------------------------------------
(* Mutant: create starts a semaphore over.                                 *)
CreateAgain(s, n) ==
  /\ created' = created \cup {s}
  /\ value' = [value EXCEPT ![s] = n]
  /\ units' = [units EXCEPT ![s] = n]
  /\ UNCHANGED <<holder, queue, assigned, requests>>

(* create: a second create of a name changes nothing.                      *)
Create(s, n) ==
  /\ s \notin created
  /\ created' = created \cup {s}
  /\ value' = [value EXCEPT ![s] = n]
  /\ units' = [units EXCEPT ![s] = n]
  /\ UNCHANGED <<holder, queue, assigned, requests>>

(* Mutant: wait acquires one unit too many.                                *)
AcquireOneMore(s, p) ==
  /\ s \in created
  /\ value[s] >= 0
  /\ value' = [value EXCEPT ![s] = value[s] - 1]
  /\ holder' = [holder EXCEPT ![s] = p]
  /\ assigned' = [assigned EXCEPT ![s] = assigned[s] \cup {p}]
  /\ requests' = [requests EXCEPT ![p] = requests[p] \ {s}]
  /\ UNCHANGED <<created, queue, units>>

(* wait on a positive value acquires.                                      *)
Acquire(s, p) ==
  /\ s \in created
  /\ value[s] > 0
  /\ value' = [value EXCEPT ![s] = value[s] - 1]
  /\ holder' = [holder EXCEPT ![s] = p]
  /\ assigned' = [assigned EXCEPT ![s] = assigned[s] \cup {p}]
  /\ requests' = [requests EXCEPT ![p] = requests[p] \ {s}]
  /\ UNCHANGED <<created, queue, units>>

(* Mutant: wait queues the holder instead of the caller.                   *)
BlockHolder(s, p) ==
  /\ s \in created
  /\ value[s] <= 0
  /\ Len(queue[s]) < MaxWaiting
  /\ queue' = [queue EXCEPT ![s] = Append(queue[s], holder[s])]
  /\ requests' = [requests EXCEPT ![p] = requests[p] \cup {s}]
  /\ UNCHANGED <<created, value, holder, assigned, units>>

(* wait on any other value queues the caller, even when it is queued       *)
(* already or holds the semaphore.                                         *)
Block(s, p) ==
  /\ s \in created
  /\ value[s] <= 0
  /\ Len(queue[s]) < MaxWaiting
  /\ queue' = [queue EXCEPT ![s] = Append(queue[s], p)]
  /\ requests' = [requests EXCEPT ![p] = requests[p] \cup {s}]
  /\ UNCHANGED <<created, value, holder, assigned, units>>

(* Mutant: signal raises the value and leaves the waiting process alone.   *)
HandOverToNobody(s, p) ==
  /\ s \in created
  /\ queue[s] # <<>> /\ value[s] < MaxValue
  /\ value' = [value EXCEPT ![s] = value[s] + 1]
  /\ holder' = [holder EXCEPT ![s] = NoHolder]
  /\ assigned' = [assigned EXCEPT ![s] = assigned[s] \ {p}]
  /\ UNCHANGED <<created, queue, requests, units>>

(* signal with a process waiting hands the unit to the first in the queue: *)
(* the value stays.  Nobody asks whether the caller held the semaphore.    *)
HandOver(s, p) ==
  LET next == Head(queue[s]) IN
  /\ s \in created
  /\ queue[s] # <<>>
  /\ queue' = [queue EXCEPT ![s] = Tail(queue[s])]
  /\ holder' = [holder EXCEPT ![s] = next]
  /\ assigned' = [assigned EXCEPT ![s] = (assigned[s] \ {p}) \cup {next}]
  /\ requests' = [requests EXCEPT ![next] = requests[next] \ {s}]
  /\ UNCHANGED <<created, value, units>>

(* Mutant: signal leaves holder_pid as it is.                              *)
FreeKeepsHolder(s, p) ==
  /\ s \in created
  /\ queue[s] = <<>>
  /\ value[s] < MaxValue
  /\ value' = [value EXCEPT ![s] = value[s] + 1]
  /\ assigned' = [assigned EXCEPT ![s] = assigned[s] \ {p}]
  /\ UNCHANGED <<created, holder, queue, requests, units>>

(* Mutant: signal leaves the assignment edge of its caller.                *)
FreeKeepsEdge(s, p) ==
  /\ s \in created
  /\ queue[s] = <<>>
  /\ value[s] < MaxValue
  /\ value' = [value EXCEPT ![s] = value[s] + 1]
  /\ holder' = [holder EXCEPT ![s] = NoHolder]
  /\ UNCHANGED <<created, queue, assigned, requests, units>>

(* signal with nobody waiting raises the value.                            *)
Free(s, p) ==
  /\ s \in created
  /\ queue[s] = <<>>
  /\ value[s] < MaxValue
  /\ value' = [value EXCEPT ![s] = value[s] + 1]
  /\ holder' = [holder EXCEPT ![s] = NoHolder]
  /\ assigned' = [assigned EXCEPT ![s] = assigned[s] \ {p}]
  /\ UNCHANGED <<created, queue, requests, units>>

Signal(s, p) == HandOver(s, p) \/ Free(s, p)

SemNext ==
  \E s \in Sems :
    \/ \E n \in InitValues : Create(s, n)
    \/ \E p \in Procs : Acquire(s, p) \/ Block(s, p) \/ Signal(s, p)

Spec == SemInit /\ [][SemNext]_semVars

-----------------------------------------------------------------------------
(* Callers that follow the rules of a semaphore: a process that waits      *)
(* makes no other call, none waits for what it holds, and only a holder    *)
(* signals.                                                                *)
Waits(p)      == requests[p] # {}
MayWait(s, p) == ~Waits(p) /\ p \notin assigned[s]
MaySignal(s, p) == ~Waits(p) /\ p \in assigned[s]

FairNext ==
  \E s \in Sems :
    \/ \E n \in InitValues : Create(s, n)
    \/ \E p \in Procs : \/ MayWait(s, p) /\ (Acquire(s, p) \/ Block(s, p))
                        \/ MaySignal(s, p) /\ Signal(s, p)

FairSpec == SemInit /\ [][FairNext]_semVars

-----------------------------------------------------------------------------
(* The wait-for graph of _check_deadlock_nolock: from a process that       *)
(* requests a semaphore to every process assigned to it, but to itself.    *)
WaitsFor == [p \in Procs |-> (UNION {assigned[s] : s \in requests[p]}) \ {p}]

(* Processes of which each waits for another of them; every cycle of the   *)
(* graph is such a set, and each such set contains a cycle.                *)
Deadlocked(C) == \A p \in C : WaitsFor[p] \cap C # {}

(* What check_deadlock looks for (DeadlockDetector models the search).     *)
Deadlock == \E C \in SUBSET Procs : C # {} /\ Deadlocked(C)

-----------------------------------------------------------------------------
(* Properties of every sequence of calls.                                  *)

(* Type correctness of every variable.                                     *)
SemTypeOK ==
  /\ created \subseteq Sems
  /\ value \in [Sems -> Int]
  /\ holder \in [Sems -> Procs \cup {NoHolder}]
  /\ queue \in [Sems -> Seq(Procs)]
  /\ assigned \in [Sems -> SUBSET Procs]
  /\ requests \in [Procs -> SUBSET Sems]
  /\ units \in [Sems -> Int]

(* A positive value and a waiting process exclude each other, so no        *)
(* process sleeps on a free semaphore.                                     *)
NoneWaitsOnFree == \A s \in Sems : value[s] > 0 => queue[s] = <<>>

(* A request edge the deadlock detector follows is a process that is still *)
(* in the wait queue: wait and signal keep the two in step, whoever calls. *)
RequestsAreQueued == \A p \in Procs : \A s \in requests[p] : p \in Queued(s)

(* The holder that dump reports has an assignment edge.                    *)
HolderIsAssigned == \A s \in Sems : holder[s] # NoHolder => holder[s] \in assigned[s]

SemConsistent == NoneWaitsOnFree /\ RequestsAreQueued /\ HolderIsAssigned

(* Nobody overtakes: while processes wait for a semaphore, the next one to *)
(* get it is the first in the queue, also against a process whose wait     *)
(* finds it just released.                                                 *)
NoOvertaking ==
  [][\A s \in Sems : \A p \in assigned'[s] \ assigned[s] :
       queue[s] # <<>> => p = Head(queue[s])]_semVars

(* Properties of callers that follow the rules.                            *)

(* Units are neither made nor lost, so at most units[s] processes hold a   *)
(* semaphore: mutual exclusion when it is created with 1.                  *)
UnitsConserved ==
  \A s \in created : units[s] >= 0 => value[s] + Cardinality(assigned[s]) = units[s]

(* The request edges are exactly the wait queues, each process is in one   *)
(* queue once at most and holds nothing it waits for.                      *)
QueuesAreRequests ==
  \A s \in Sems :
    /\ \A i, j \in DOMAIN queue[s] : queue[s][i] = queue[s][j] => i = j
    /\ \A p \in Queued(s) : requests[p] = {s} /\ p \notin assigned[s]

(* Deadlocks last: on semaphores created with 1 no later call resolves     *)
(* one.                                                                    *)
DeadlockLasts == [][Deadlock => Deadlock']_semVars
=============================================================================
