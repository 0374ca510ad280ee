------------------------------ MODULE Accounts ------------------------------
(***************************************************************************)
(* Users and their processes: register, login and logout of the web server *)
(* (run.py), the file users.json, and the registry of pids that            *)
(* kernel_bridge.py keeps over the kernel's process table.  Requests run   *)
(* on threads of their own; a request is a sequence of steps, one per file *)
(* operation, system call or access to the registry.                       *)
(*                                                                         *)
(* Abstracted: of a user only the name; a login has the right password.  A *)
(* chat turn is the process calls it makes; ChatTurns has the rest of it.  *)
(* Calls of the bridge may go wrong where it matters here: proc_fork, which*)
(* may also be simulated or read the stray answer of another call, and     *)
(* proc_exit; a failed proc_run or proc_wait only leaves a live process in *)
(* another live state.                                                     *)
(***************************************************************************)
EXTENDS ProcessTable, FiniteSets

CONSTANTS Users,        \* user names
          Requests,     \* request threads, each with the cookie of its browser
          Nobody,       \* no user, no thread
          SimPids,      \* pids of the simulation, from FirstSimPid up: bounds its forks
          FirstSimPid,  \* _sim_pid_counter of a new web server
          MaxRestarts   \* bound: restarts of kernel and web server together

ASSUME NobodyAssumption   == Nobody \notin Users \cup Requests
ASSUME RestartsAssumption == MaxRestarts \in Nat
ASSUME SimPidsAssumption  == FirstSimPid \in Nat /\ SimPids \subseteq {p \in Nat : p >= FirstSimPid}

NoPid    == -1   \* what get_or_create_pid answers without a process
Priority == 5    \* the priority every user's process is forked with

(* Where a pid is from: a kernel, which has a number, the simulation, or   *)
(* the answer to another call.                                             *)
Simulated == -1
Stray     == -2
Origins   == Nat \cup {Simulated, Stray}
AllPids   == Pids \cup SimPids

VARIABLES
  users, torn,   \* users.json: its users; TRUE when it is no valid JSON
  registry,      \* _pid_registry, NoPid for a user without an entry
  regLock,       \* the thread that holds _registry_lock
  pc,            \* where a request is
  op,            \* what it is: "register", "login", "turn" or "logout"
  who,           \* the user it is for
  loaded,        \* what it read from users.json
  pid,           \* the pid it uses
  cookie,        \* the user its browser is logged in as
  kernels, servers,  \* restarts so far
  nextSim,       \* _sim_pid_counter
  born,          \* history: where the registry's pid is from
  from,          \* history: where a request's pid is from
  answered,      \* history: users whose registration was written, until mingled
  mingled,       \* history: registrations overlapped, or a stop cut one short
  orphaned       \* history: processes left behind, and for a known cause

fileVars == <<users, torn, answered, mingled>>
registryVars == <<registry, regLock, born, nextSim>>
requestVars == <<op, who, loaded, cookie>>
accVars == <<procVars, fileVars, registryVars, requestVars, pc, pid, from, kernels, servers, orphaned>>

Init ==
  /\ ProcInit
  /\ users = {} /\ torn = FALSE
  /\ registry = [u \in Users |-> NoPid]
  /\ regLock = Nobody
  /\ pc = [r \in Requests |-> "idle"]
  /\ op = [r \in Requests |-> "none"]
  /\ who = [r \in Requests |-> Nobody]
  /\ loaded = [r \in Requests |-> {}]
  /\ pid = [r \in Requests |-> NoPid]
  /\ cookie = [r \in Requests |-> Nobody]
  /\ kernels = 0 /\ servers = 0
  /\ nextSim = FirstSimPid
  /\ born = [u \in Users |-> 0]
  /\ from = [r \in Requests |-> 0]
  /\ answered = {}
  /\ mingled = FALSE
  /\ orphaned = {}

-----------------------------------------------------------------------------
Goto(r, label) == pc' = [pc EXCEPT ![r] = label]

(* The request is answered.                                                *)
Answer(r) == /\ Goto(r, "idle")
             /\ op' = [op EXCEPT ![r] = "none"]
             /\ who' = [who EXCEPT ![r] = Nobody]
             /\ loaded' = [loaded EXCEPT ![r] = {}]
             /\ pid' = [pid EXCEPT ![r] = NoPid]
             /\ from' = [from EXCEPT ![r] = 0]

Start(r, name, u, label) ==
  /\ pc[r] = "idle"
  /\ Goto(r, label)
  /\ op' = [op EXCEPT ![r] = name]
  /\ who' = [who EXCEPT ![r] = u]
  /\ UNCHANGED <<procVars, fileVars, registryVars, loaded, pid, from, cookie, kernels, servers, orphaned>>

(* auth_register and auth_login come without a session; a chat turn needs  *)
(* one (require_auth).                                                     *)
Register(r, u) == Start(r, "register", u, "load")
Login(r, u)    == Start(r, "login", u, "load")
Turn(r)        == cookie[r] # Nobody /\ Start(r, "turn", cookie[r], "pid")

-----------------------------------------------------------------------------
(* load_users: {} unless the file is there and complete.                   *)
Readable == IF torn THEN {} ELSE users

Registering(r) == op[r] = "register" /\ pc[r] \in {"save", "dump"}

LoadUsers(r) ==
  /\ pc[r] = "load"
  /\ IF (who[r] \in Readable) = (op[r] = "register")
     THEN Answer(r) /\ UNCHANGED <<cookie, answered, mingled>>
     ELSE /\ Goto(r, IF op[r] = "register" THEN "save" ELSE "pid")
          /\ loaded' = [loaded EXCEPT ![r] = IF op[r] = "register" THEN Readable ELSE {}]
          /\ cookie' = IF op[r] = "login" THEN [cookie EXCEPT ![r] = who[r]] ELSE cookie
          /\ mingled' = (mingled \/ (op[r] = "register" /\ \E q \in Requests : Registering(q)))
          /\ answered' = IF mingled' THEN {} ELSE answered
          /\ UNCHANGED <<op, who, pid, from>>
  /\ UNCHANGED <<procVars, users, torn, registryVars, kernels, servers, orphaned>>

(* save_users: open(..., "w") truncates the file.                          *)
OpenUsers(r) ==
  /\ pc[r] = "save"
  /\ users' = {} /\ torn' = TRUE
  /\ Goto(r, "dump")
  /\ UNCHANGED <<procVars, answered, mingled, registryVars, requestVars, pid, from,
                 kernels, servers, orphaned>>

(* Mutant: only the new user is written.                                   *)
DumpOne(r) ==
  /\ pc[r] = "dump"
  /\ users' = {who[r]} /\ torn' = FALSE
  /\ cookie' = [cookie EXCEPT ![r] = who[r]]
  /\ answered' = IF mingled THEN {} ELSE answered \cup {who[r]}
  /\ loaded' = [loaded EXCEPT ![r] = {}]
  /\ Goto(r, "pid")
  /\ UNCHANGED <<procVars, mingled, registryVars, op, who, pid, from, kernels, servers, orphaned>>

(* json.dump.  A file that another writer filled since it was opened is    *)
(* overwritten from its start, which may leave the end of the longer text. *)
DumpUsers(r) ==
  /\ pc[r] = "dump"
  /\ users' = loaded[r] \cup {who[r]}
  /\ torn' \in IF users = {} THEN {FALSE} ELSE BOOLEAN
  /\ cookie' = [cookie EXCEPT ![r] = who[r]]
  /\ answered' = IF mingled THEN {} ELSE answered \cup {who[r]}
  /\ loaded' = [loaded EXCEPT ![r] = {}]
  /\ Goto(r, "pid")
  /\ UNCHANGED <<procVars, mingled, registryVars, op, who, pid, from, kernels, servers, orphaned>>

-----------------------------------------------------------------------------
Registered(p) == \E u \in Users : registry[u] = p
Live(p) == state[p] \notin {"NONE", "TERMINATED"}

(* A proc_* call of the bridge for a pid that request r has.  A process    *)
(* that is moved although it is not in the registry, or not exited, stays  *)
(* behind; so may one that has the pid of an earlier kernel's process, of a*)
(* simulated one, or of the one that a stray answer named.                 *)
ProcessCall(r, p, s) ==
  /\ IF p \in Pids THEN Transition(p, s) ELSE UNCHANGED procVars
  /\ orphaned' = IF s = "TERMINATED" /\ from[r] = kernels THEN orphaned \ {p}
                 ELSE IF p \in Pids /\ Forked(p) /\ (from[r] # kernels \/ ~Registered(p))
                 THEN orphaned \cup {p}
                 ELSE orphaned

(* get_or_create_pid answers p, which is from k: a chat turn goes on with  *)
(* it, a registration or a login is answered.                              *)
GetPid(r, p, k) ==
  IF op[r] = "turn"
  THEN /\ Goto(r, "run")
       /\ pid' = [pid EXCEPT ![r] = p]
       /\ from' = [from EXCEPT ![r] = k]
       /\ UNCHANGED <<op, who, loaded>>
  ELSE Answer(r)

(* get_or_create_pid, under _registry_lock.                                *)
FindPid(r) ==
  /\ pc[r] = "pid" /\ regLock = Nobody
  /\ registry[who[r]] # NoPid
  /\ GetPid(r, registry[who[r]], born[who[r]])
  /\ UNCHANGED <<procVars, fileVars, registryVars, cookie, kernels, servers, orphaned>>

Forks(r) == pc[r] = "pid" /\ regLock = Nobody /\ registry[who[r]] = NoPid

(* The pid p, which is from k, enters the registry.                        *)
Enter(r, p, k) ==
  /\ registry' = [registry EXCEPT ![who[r]] = p]
  /\ born' = [born EXCEPT ![who[r]] = k]
  /\ pid' = [pid EXCEPT ![r] = p]
  /\ from' = [from EXCEPT ![r] = k]
  /\ regLock' = r
  /\ Goto(r, "first_run")
  /\ UNCHANGED <<fileVars, requestVars, kernels, servers>>

(* The kernel makes a process and its answer is read.                      *)
ForkPid(r) ==
  /\ Forks(r)
  /\ Fork(Priority)
  /\ Enter(r, nextPid, kernels)
  /\ UNCHANGED <<nextSim, orphaned>>

(* The kernel cannot be reached: the simulation gives out a pid.           *)
ForkSimulated(r) ==
  /\ Forks(r)
  /\ nextSim \in SimPids
  /\ nextSim' = nextSim + 1
  /\ Enter(r, nextSim, Simulated)
  /\ UNCHANGED <<procVars, orphaned>>

(* The kernel may make a process, but its answer is not the one read.      *)
Misread ==
  \/ UNCHANGED <<procVars, orphaned>>
  \/ Fork(Priority) /\ orphaned' = orphaned \cup {nextPid}

(* The answer read is one to another call, and names a pid: any that was   *)
(* given out before, by this kernel, an earlier one or the simulation.     *)
ForkStray(r) ==
  /\ Forks(r)
  /\ Misread
  /\ \E p \in AllPids :
       /\ (p \in Pids /\ (Forked(p) \/ kernels > 0)) \/ (p \in SimPids /\ p < nextSim)
       /\ Enter(r, p, Stray)
  /\ UNCHANGED nextSim

(* No answer is read, or one that names no pid.                            *)
ForkFails(r) ==
  /\ Forks(r)
  /\ Misread
  /\ GetPid(r, NoPid, kernels)
  /\ UNCHANGED <<fileVars, registryVars, cookie, kernels, servers>>

(* proc_run, and the lock is released.                                     *)
FirstRun(r) ==
  /\ pc[r] = "first_run"
  /\ ProcessCall(r, pid[r], "RUNNING")
  /\ regLock' = Nobody
  /\ GetPid(r, pid[r], from[r])
  /\ UNCHANGED <<fileVars, registry, born, nextSim, cookie, kernels, servers>>

(* The process calls of a chat turn; without an answer it ends early.      *)
RequestCall(r, at, s, to) ==
  /\ pc[r] = at
  /\ ProcessCall(r, pid[r], s)
  /\ Goto(r, to)
  /\ UNCHANGED <<fileVars, registryVars, requestVars, pid, from, kernels, servers>>

TurnRun(r)  == RequestCall(r, "run", "RUNNING", "wait")
TurnWait(r) == RequestCall(r, "wait", "WAITING", "reply")

TurnReply(r) ==
  /\ pc[r] = "reply"
  /\ ProcessCall(r, pid[r], "RUNNING")
  /\ Answer(r)
  /\ UNCHANGED <<fileVars, registryVars, cookie, kernels, servers>>

TurnFails(r) ==
  /\ pc[r] = "reply"
  /\ Answer(r)
  /\ UNCHANGED <<procVars, fileVars, registryVars, cookie, kernels, servers, orphaned>>

-----------------------------------------------------------------------------
(* auth_logout: the session ends; the pid is read, exited and popped, none *)
(* of it under _registry_lock.                                             *)
Logout(r) ==
  LET u == cookie[r] IN
  /\ pc[r] = "idle" /\ u # Nobody
  /\ cookie' = [cookie EXCEPT ![r] = Nobody]
  /\ IF registry[u] = NoPid THEN UNCHANGED <<pc, op, who, pid, from>>
     ELSE /\ Goto(r, "exit")
          /\ op' = [op EXCEPT ![r] = "logout"]
          /\ who' = [who EXCEPT ![r] = u]
          /\ pid' = [pid EXCEPT ![r] = registry[u]]
          /\ from' = [from EXCEPT ![r] = born[u]]
  /\ UNCHANGED <<procVars, fileVars, registryVars, loaded, kernels, servers, orphaned>>

Exit(r) == RequestCall(r, "exit", "TERMINATED", "pop")

(* The call fails in the bridge, which nobody looks at.                    *)
ExitFails(r) ==
  /\ pc[r] = "exit"
  /\ orphaned' = orphaned \cup ({pid[r]} \cap Pids)
  /\ Goto(r, "pop")
  /\ UNCHANGED <<procVars, fileVars, registryVars, requestVars, pid, from, kernels, servers>>

(* Mutant: the entry stays in the registry.                                *)
NoPop(r) ==
  /\ pc[r] = "pop"
  /\ Answer(r)
  /\ UNCHANGED <<procVars, fileVars, registryVars, cookie, kernels, servers, orphaned>>

(* The pop takes what is there: perhaps a newer pid than the one exited.   *)
Pop(r) ==
  LET p == registry[who[r]] IN
  /\ pc[r] = "pop"
  /\ registry' = [registry EXCEPT ![who[r]] = NoPid]
  /\ orphaned' = IF p \in Pids /\ Live(p) THEN orphaned \cup {p} ELSE orphaned
  /\ Answer(r)
  /\ UNCHANGED <<procVars, fileVars, regLock, born, nextSim, cookie, kernels, servers>>

-----------------------------------------------------------------------------
(* The kernel is started again: an empty process table, the first pid.     *)
KernelRestarts ==
  /\ kernels + servers < MaxRestarts
  /\ kernels' = kernels + 1
  /\ nextPid' = FirstPid
  /\ state' = [p \in Pids |-> "NONE"]
  /\ priority' = [p \in Pids |-> 0]
  /\ ticks' = [p \in Pids |-> 0]
  /\ orphaned' = {}
  /\ UNCHANGED <<fileVars, registryVars, requestVars, pc, pid, from, servers>>

(* The web server is started again: only the files are left, and a new     *)
(* secret key makes the cookies invalid.                                   *)
ServerRestarts ==
  /\ kernels + servers < MaxRestarts
  /\ servers' = servers + 1
  /\ registry' = [u \in Users |-> NoPid]
  /\ regLock' = Nobody
  /\ born' = [u \in Users |-> 0]
  /\ nextSim' = FirstSimPid
  /\ pc' = [r \in Requests |-> "idle"]
  /\ op' = [r \in Requests |-> "none"]
  /\ who' = [r \in Requests |-> Nobody]
  /\ loaded' = [r \in Requests |-> {}]
  /\ pid' = [r \in Requests |-> NoPid]
  /\ from' = [r \in Requests |-> 0]
  /\ cookie' = [r \in Requests |-> Nobody]
  /\ mingled' = (mingled \/ \E r \in Requests : Registering(r))
  /\ answered' = IF mingled' THEN {} ELSE answered
  /\ orphaned' = {p \in Pids : Live(p)}
  /\ UNCHANGED <<procVars, users, torn, kernels>>

RequestStep(r) ==
  \/ LoadUsers(r) \/ OpenUsers(r) \/ DumpUsers(r)
  \/ FindPid(r) \/ ForkPid(r) \/ ForkSimulated(r) \/ ForkStray(r) \/ ForkFails(r) \/ FirstRun(r)
  \/ TurnRun(r) \/ TurnWait(r) \/ TurnReply(r) \/ TurnFails(r)
  \/ Exit(r) \/ ExitFails(r) \/ Pop(r)

Arrives(r) == Turn(r) \/ Logout(r) \/ \E u \in Users : Register(r, u) \/ Login(r, u)

Next == KernelRestarts \/ ServerRestarts \/ \E r \in Requests : Arrives(r) \/ RequestStep(r)

Spec == Init /\ [][Next]_accVars

-----------------------------------------------------------------------------
(* Type correctness; the registry's lock is held exactly around the first  *)
(* proc_run of a new process.                                              *)
AccTypeOK ==
  /\ ProcTypeOK
  /\ users \subseteq Users /\ torn \in BOOLEAN
  /\ registry \in [Users -> AllPids \cup {NoPid}]
  /\ regLock \in Requests \cup {Nobody}
  /\ pc \in [Requests -> {"idle", "load", "save", "dump", "pid", "first_run", "run", "wait",
                          "reply", "exit", "pop"}]
  /\ op \in [Requests -> {"none", "register", "login", "turn", "logout"}]
  /\ who \in [Requests -> Users \cup {Nobody}]
  /\ loaded \in [Requests -> SUBSET Users]
  /\ pid \in [Requests -> AllPids \cup {NoPid}]
  /\ cookie \in [Requests -> Users \cup {Nobody}]
  /\ kernels \in Nat /\ servers \in Nat
  /\ nextSim \in Nat /\ nextSim >= FirstSimPid
  /\ born \in [Users -> Origins] /\ from \in [Requests -> Origins]
  /\ answered \subseteq Users
  /\ mingled \in BOOLEAN
  /\ orphaned \subseteq Pids
  /\ \A r \in Requests : regLock = r <=> pc[r] = "first_run"

(* A user whose registration was answered can be found in users.json from  *)
(* then on, but for the moments in which a registration writes the file,   *)
(* unless two registrations overlapped or a stop cut one short.            *)
AccountsKept ==
  mingled \/ (\E r \in Requests : pc[r] = "dump") \/ (answered \subseteq users /\ ~torn)

(* Two users have the same pid only if the two are from different tables,  *)
(* this kernel's, an earlier one's or the simulation's, or if one of them  *)
(* was read from a stray answer: forks race with logins, chats and logouts.*)
PidsDistinct ==
  \A u, v \in Users :
    u # v /\ registry[u] # NoPid /\ registry[u] = registry[v]
      => born[u] # born[v] \/ Stray \in {born[u], born[v]}

(* A process that has not exited is in the registry, or being forked, or   *)
(* left behind for one of these causes: a call for it came after it was    *)
(* popped, or meant another process of the same pid, the pop took it for   *)
(* another, its exit or its fork went wrong, or the web server or the      *)
(* kernel was started again.                                               *)
LiveHasOwner == \A p \in Pids \ orphaned : Live(p) => Registered(p)

(* The registry names an exited process only while the logout that exited  *)
(* it has yet to pop it: no login and no chat is given a pid that will     *)
(* never be popped.                                                        *)
ExitedHasLogout ==
  \A u \in Users : LET p == registry[u] IN
    p \in Pids /\ born[u] = kernels /\ p \notin orphaned /\ state[p] = "TERMINATED"
      => \E r \in Requests : pc[r] = "pop" /\ who[r] = u /\ pid[r] = p

(* The registry and the process table agree: the two halves above.         *)
ProcessesOwned == LiveHasOwner /\ ExitedHasLogout
=============================================================================
