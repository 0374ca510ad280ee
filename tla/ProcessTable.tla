---------------------------- MODULE ProcessTable ----------------------------
(***************************************************************************)
(* The kernel's process table (kernel/pcb.h), the proc_* system calls of   *)
(* dispatch (kernel_server.cpp) and the tick of the scheduler              *)
(* (kernel/scheduler.h), which ages the READY processes and prints the     *)
(* ready queue; nothing in the kernel ever runs a process from it.         *)
(*                                                                         *)
(* Abstracted: the name, counters, timestamps and log of a PCB.            *)
(***************************************************************************)
EXTENDS Integers

CONSTANTS Pids,        \* pids, from FirstPid up: bounds the forks
          FirstPid,    \* next_pid_ of an empty table
          Priorities,  \* the priorities proc_fork is given
          MaxTicks     \* bound: aging_ticks stops counting at MaxTicks

ASSUME PidsAssumption       == FirstPid \in Nat /\ Pids \subseteq {p \in Nat : p >= FirstPid}
ASSUME PrioritiesAssumption == Priorities \subseteq Nat
ASSUME TicksAssumption      == MaxTicks \in Nat

VARIABLES
  nextPid,   \* next_pid_
  state,     \* state of each process, "NONE" before its fork
  priority,  \* priority of each process
  ticks      \* aging_ticks of each process

procVars == <<nextPid, state, priority, ticks>>

ProcInit ==
  /\ nextPid = FirstPid
  /\ state = [p \in Pids |-> "NONE"]
  /\ priority = [p \in Pids |-> 0]
  /\ ticks = [p \in Pids |-> 0]

Forked(p) == state[p] # "NONE"

(* Mutant: the counter of the pids stays.                                  *)
ForkSamePid(n) ==
  /\ nextPid \in Pids
  /\ state' = [state EXCEPT ![nextPid] = "READY"]
  /\ priority' = [priority EXCEPT ![nextPid] = n]
  /\ ticks' = [ticks EXCEPT ![nextPid] = 0]
  /\ UNCHANGED nextPid

(* proc_fork: create, and the transition to the state it has already.      *)
Fork(n) ==
  /\ nextPid \in Pids
  /\ state' = [state EXCEPT ![nextPid] = "READY"]
  /\ priority' = [priority EXCEPT ![nextPid] = n]
  /\ ticks' = [ticks EXCEPT ![nextPid] = 0]
  /\ nextPid' = nextPid + 1

(* Mutant: transition makes an entry for a pid nobody forked.              *)
TransitionCreates(p, s) ==
  /\ state' = [state EXCEPT ![p] = s]
  /\ UNCHANGED <<nextPid, priority, ticks>>

(* transition: from any state to any other; an unknown pid changes nothing.*)
Transition(p, s) ==
  /\ state' = IF Forked(p) THEN [state EXCEPT ![p] = s] ELSE state
  /\ UNCHANGED <<nextPid, priority, ticks>>

ProcRun(p)   == Transition(p, "RUNNING")
ProcWait(p)  == Transition(p, "WAITING")
ProcReady(p) == Transition(p, "READY")
ProcExit(p)  == Transition(p, "TERMINATED")

Ready == {p \in Pids : state[p] = "READY"}

(* Mutant: aging takes the processes that are not READY.                   *)
TickOthers ==
  /\ ticks' = [p \in Pids |-> IF p \notin Ready /\ ticks[p] < MaxTicks
                               THEN ticks[p] + 1 ELSE ticks[p]]
  /\ UNCHANGED <<nextPid, state, priority>>

(* age_ready_processes, at every quantum of the scheduler's tick thread.   *)
Tick ==
  /\ ticks' = [p \in Pids |-> IF p \in Ready /\ ticks[p] < MaxTicks
                               THEN ticks[p] + 1 ELSE ticks[p]]
  /\ UNCHANGED <<nextPid, state, priority>>

ProcCall(p) == ProcRun(p) \/ ProcWait(p) \/ ProcReady(p) \/ ProcExit(p)

ProcNext == (\E n \in Priorities : Fork(n)) \/ Tick \/ \E p \in Pids : ProcCall(p)

ProcSpec == ProcInit /\ [][ProcNext]_procVars /\ WF_procVars(Tick)

-----------------------------------------------------------------------------
EffectivePriority(p) ==
  LET boosted == priority[p] - ticks[p] \div 5 IN IF boosted > 0 THEN boosted ELSE 0

(* get_ready_queue sorts by effective priority; among equals the order is  *)
(* whatever std::sort leaves.                                              *)
AtFront(p) == p \in Ready /\ \A q \in Ready : EffectivePriority(p) <= EffectivePriority(q)

(* Type correctness of every variable; the entries of the table are those  *)
(* of the pids already given out.                                          *)
ProcTypeOK ==
  /\ nextPid \in Int
  /\ state \in [Pids -> {"NONE", "READY", "RUNNING", "WAITING", "TERMINATED"}]
  /\ priority \in [Pids -> Nat]
  /\ ticks \in [Pids -> 0 .. MaxTicks]
  /\ \A p \in Pids : Forked(p) <=> p < nextPid

(* Aging ends starvation in the ready queue: a process that stays READY is *)
(* from some time on at its front, whatever priorities others are forked   *)
(* with.  MaxTicks must be 5 times the largest priority.                   *)
AgingReachesFront ==
  \A p \in Pids : <>[](state[p] = "READY") => <>[]AtFront(p)
=============================================================================
