----------------------------- MODULE KernelSync -----------------------------
(***************************************************************************)
(* The semaphore system calls of the kernel server (kernel_server.cpp      *)
(* dispatch): the semaphore manager and the process table, each with a     *)
(* mutex of its own, under the calls of processes that follow the rules    *)
(* (SemaphoreManager!FairSpec) and run, wait and exit in between.          *)
(***************************************************************************)
EXTENDS SemaphoreManager, ProcessTable

ASSUME SamePidsAssumption == Procs = Pids

VARIABLES
  parking,  \* processes whose sem_wait has failed and who are not yet WAITING
  told      \* the processes that a sem_wait answered they have the semaphore

syncVars == <<semVars, procVars, parking, told>>

SyncInit == SemInit /\ ProcInit /\ parking = {} /\ told = [s \in Sems |-> {}]

(* A process calls when its last call has been answered; the answer        *)
(* acquired = false is followed by no call before the semaphore is its.    *)
Alive(p) == state[p] \notin {"NONE", "TERMINATED"}
Calls(p) == Alive(p) /\ p \notin parking /\ ~Waits(p)

SemCreate(s, n) == Create(s, n) /\ UNCHANGED <<procVars, parking, told>>

(* Mutant: the transition is forgotten.                                    *)
SemWaitForgets(s, p) ==
  /\ Calls(p) /\ MayWait(s, p)
  /\ Acquire(s, p) \/ Block(s, p)
  /\ UNCHANGED <<procVars, parking, told>>

(* sem_wait: the manager's wait, and when it fails, as a second step, the  *)
(* transition of the process.                                              *)
SemWait(s, p) ==
  /\ Calls(p) /\ MayWait(s, p)
  /\ \/ Acquire(s, p) /\ told' = [told EXCEPT ![s] = @ \cup {p}] /\ UNCHANGED parking
     \/ Block(s, p) /\ parking' = parking \cup {p} /\ UNCHANGED told
  /\ UNCHANGED procVars

Park(p) ==
  /\ p \in parking
  /\ parking' = parking \ {p}
  /\ Transition(p, "WAITING")
  /\ UNCHANGED <<semVars, told>>

(* sem_wait on a name nobody created fails too.                            *)
SemWaitUnknown(s, p) ==
  /\ Calls(p)
  /\ s \notin created
  /\ parking' = parking \cup {p}
  /\ UNCHANGED <<semVars, procVars, told>>

(* sem_signal: the process that gets the semaphore is not told, and its    *)
(* state is left as it is.                                                 *)
SemSignal(s, p) ==
  /\ Calls(p) /\ MaySignal(s, p)
  /\ Signal(s, p)
  /\ told' = [told EXCEPT ![s] = @ \ {p}]
  /\ UNCHANGED <<procVars, parking>>

(* The other calls of a process, and the kernel's own tick.                *)
OwnCall(p) ==
  /\ Calls(p)
  /\ ProcCall(p)
  /\ state'[p] = "TERMINATED" => \A s \in Sems : p \notin assigned[s]
  /\ UNCHANGED <<semVars, parking, told>>

Rest == (Tick \/ \E n \in Priorities : Fork(n)) /\ UNCHANGED <<semVars, parking, told>>

SyncNext ==
  \/ \E s \in Sems : \E n \in InitValues : SemCreate(s, n)
  \/ \E p \in Procs :
       \/ Park(p) \/ OwnCall(p)
       \/ \E s \in Sems : SemWait(s, p) \/ SemWaitUnknown(s, p) \/ SemSignal(s, p)
  \/ Rest

(* A process that knows what it holds.  One that was handed a semaphore    *)
(* does not: the answer it has says acquired = false, and no other comes.  *)
Aware(p) == \A s \in Sems : p \in assigned[s] => p \in told[s]

(* The server finishes the calls it serves, and a process that knows what  *)
(* it holds releases it in the end if it can call again and again.  Of one *)
(* that was handed a semaphore nothing is assumed.                         *)
SyncFairness ==
  /\ \A p \in Procs : WF_syncVars(Park(p))
  /\ \A p \in Procs, s \in Sems : SF_syncVars(Aware(p) /\ SemSignal(s, p))

SyncSpec == SyncInit /\ [][SyncNext]_syncVars /\ SyncFairness

-----------------------------------------------------------------------------
(* Properties.                                                             *)

(* A process in a wait queue is WAITING, or its sem_wait is about to make  *)
(* it so: two mutexes and two steps never leave a blocked process in the   *)
(* ready queue.                                                            *)
BlockedIsParked == \A p \in Procs : Waits(p) => state[p] = "WAITING" \/ p \in parking

(* Processes none of which releases anything: each waits for another of    *)
(* them, or was handed a semaphore and does not know it.                   *)
Stuck(C) == \A c \in C : ~Aware(c) \/ WaitsFor[c] \cap C # {}

(* Nobody waits for ever without a cause: a process that waits gets the    *)
(* semaphore, unless what it waits for leads to a deadlock, or to a process*)
(* that was handed a semaphore and was never told.                         *)
WaitingEnds ==
  \A p \in Procs :
    Waits(p) ~> (~Waits(p) \/ \E C \in SUBSET Procs : WaitsFor[p] \cap C # {} /\ Stuck(C))
=============================================================================
