--------------------------- MODULE AccountsProofs ---------------------------
(***************************************************************************)
(* Proofs about Accounts, for any users, requests, pids and restarts.  The *)
(* inductive invariant is built in three parts, each on top of the types:  *)
(* the registry (PidInv), the file of users (FileInv), and the agreement   *)
(* of registry and process table.                                          *)
(***************************************************************************)
EXTENDS Accounts, TLAPS

Labels == {"idle", "load", "save", "dump", "pid", "first_run", "run", "wait", "reply", "exit", "pop"}
States == {"NONE", "READY", "RUNNING", "WAITING", "TERMINATED"}

(* A request at work is for a user, and only a registration writes.        *)
RequestsKnown ==
  \A r \in Requests : /\ pc[r] # "idle" => who[r] \in Users
                      /\ pc[r] \in {"save", "dump"} => op[r] = "register"

TypeInv == AccTypeOK /\ RequestsKnown

-----------------------------------------------------------------------------
(* What the operations of the process table do to its types.               *)
LEMMA ForkTypes == ASSUME ProcTypeOK, Fork(Priority) PROVE ProcTypeOK'
  BY PidsAssumption, TicksAssumption DEF ProcTypeOK, Fork, Forked, Priority

LEMMA TransitionTypes ==
  ASSUME ProcTypeOK, NEW p \in Pids, NEW s \in States \ {"NONE"}, Transition(p, s)
  PROVE  ProcTypeOK'
  BY DEF ProcTypeOK, Transition, Forked, States

LEMMA SameTypes == ASSUME ProcTypeOK, UNCHANGED procVars PROVE ProcTypeOK'
  BY DEF ProcTypeOK, procVars, Forked

LEMMA CallTypes ==
  ASSUME ProcTypeOK, orphaned \subseteq Pids, NEW r \in Requests, NEW p \in AllPids \cup {NoPid},
         NEW s \in States \ {"NONE"}, ProcessCall(r, p, s)
  PROVE  ProcTypeOK' /\ orphaned' \subseteq Pids
<1>1. ProcTypeOK'
  <2>1. CASE p \in Pids
    BY <2>1, TransitionTypes DEF ProcessCall
  <2>2. CASE p \notin Pids
    BY <2>2, SameTypes DEF ProcessCall
  <2> QED
    BY <2>1, <2>2
<1>2. orphaned' \subseteq Pids
  BY DEF ProcessCall
<1> QED
  BY <1>1, <1>2

LEMMA MisreadTypes ==
  ASSUME AccTypeOK, Misread PROVE ProcTypeOK' /\ orphaned' \subseteq Pids
<1>1. CASE UNCHANGED <<procVars, orphaned>>
  BY <1>1, SameTypes DEF AccTypeOK
<1>2. CASE Fork(Priority) /\ orphaned' = orphaned \cup {nextPid}
  BY <1>2, ForkTypes DEF AccTypeOK, Fork
<1> QED
  BY <1>1, <1>2 DEF Misread

LEMMA EmptyTable == ProcInit => ProcTypeOK
  BY PidsAssumption, TicksAssumption DEF ProcInit, ProcTypeOK, Forked

LEMMA InitTypes == Init => TypeInv
<1> SUFFICES ASSUME Init PROVE TypeInv
  OBVIOUS
<1>1. ProcTypeOK
  BY EmptyTable DEF Init
<1>2. \A r \in Requests : regLock = r <=> pc[r] = "first_run"
  BY NobodyAssumption DEF Init
<1>3. /\ nextSim \in Nat /\ nextSim >= FirstSimPid /\ 0 \in Nat
      /\ 0 \in Origins
  BY SimPidsAssumption DEF Init, Origins
<1>4. kernels \in Nat /\ servers \in Nat
  BY DEF Init
<1> QED
  BY <1>1, <1>2, <1>3, <1>4 DEF Init, TypeInv, AccTypeOK, RequestsKnown

(* The types of the variables that are no part of the process table.       *)
AnswerTypes(r) ==
  /\ pc' \in [Requests -> Labels] /\ pc'[r] # "first_run"
  /\ op' \in [Requests -> {"none", "register", "login", "turn", "logout"}]
  /\ who' \in [Requests -> Users \cup {Nobody}]
  /\ loaded' \in [Requests -> SUBSET Users]
  /\ pid' \in [Requests -> AllPids \cup {NoPid}]
  /\ from' \in [Requests -> Origins]
  /\ \A q \in Requests \ {r} : pc'[q] = pc[q] /\ who'[q] = who[q] /\ op'[q] = op[q]
  /\ pc'[r] \in {"idle", "run"} /\ (pc'[r] = "run" => who'[r] = who[r])

LEMMA AnswerKeeps == ASSUME TypeInv, NEW r \in Requests, Answer(r) PROVE AnswerTypes(r)
  BY DEF TypeInv, AccTypeOK, Answer, Goto, Labels, AnswerTypes, Origins

LEMMA GetPidKeeps ==
  ASSUME TypeInv, NEW r \in Requests, NEW p \in AllPids \cup {NoPid}, NEW k \in Origins, GetPid(r, p, k)
  PROVE  AnswerTypes(r)
<1>1. CASE op[r] = "turn"
  BY <1>1 DEF GetPid, TypeInv, AccTypeOK, Goto, Labels, AnswerTypes
<1>2. CASE op[r] # "turn"
  BY <1>2, AnswerKeeps DEF GetPid
<1> QED
  BY <1>1, <1>2

-----------------------------------------------------------------------------
(* The types are kept.                                                     *)
LEMMA StepTypes == TypeInv /\ [Next]_accVars => TypeInv'
<1> SUFFICES ASSUME TypeInv, [Next]_accVars PROVE TypeInv'
  OBVIOUS
<1> USE NobodyAssumption
<1>1. ASSUME NEW r \in Requests, Arrives(r) PROVE TypeInv'
  <2>0. ProcTypeOK'
    BY <1>1, SameTypes DEF TypeInv, AccTypeOK, Arrives, Turn, Logout, Register, Login, Start
  <2>1. ASSUME NEW n \in {"register", "login", "turn"}, NEW u \in Users, NEW l \in {"load", "pid"},
               Start(r, n, u, l)
        PROVE  TypeInv'
    BY <2>0, <2>1 DEF Start, Goto, TypeInv, AccTypeOK, RequestsKnown, fileVars, registryVars
  <2>2. CASE Logout(r)
    BY <2>0, <2>2 DEF Logout, Goto, TypeInv, AccTypeOK, RequestsKnown, fileVars, registryVars
  <2>3. cookie[r] \in Users \cup {Nobody}
    BY DEF TypeInv, AccTypeOK
  <2> QED
    BY <1>1, <2>1, <2>2, <2>3 DEF Arrives, Turn, Register, Login
<1>2. ASSUME NEW r \in Requests, LoadUsers(r) PROVE TypeInv'
  <2>0. ProcTypeOK'
    BY <1>2, SameTypes DEF TypeInv, AccTypeOK, LoadUsers
  <2>1. CASE Answer(r) /\ UNCHANGED <<cookie, answered, mingled>>
    BY <1>2, <2>0, <2>1, AnswerKeeps
    DEF LoadUsers, AnswerTypes, Labels, TypeInv, AccTypeOK, RequestsKnown, registryVars
  <2>2. CASE ~ (Answer(r) /\ UNCHANGED <<cookie, answered, mingled>>)
    <3>1. /\ Goto(r, IF op[r] = "register" THEN "save" ELSE "pid")
          /\ loaded' = [loaded EXCEPT ![r] = IF op[r] = "register" THEN Readable ELSE {}]
          /\ cookie' = IF op[r] = "login" THEN [cookie EXCEPT ![r] = who[r]] ELSE cookie
          /\ mingled' = (mingled \/ (op[r] = "register" /\ \E q \in Requests : Registering(q)))
          /\ answered' = IF mingled' THEN {} ELSE answered
          /\ UNCHANGED <<op, who, pid, from, users, torn, registryVars, kernels, servers, orphaned>>
          /\ pc[r] = "load"
      BY <1>2, <2>2, Zenon DEF LoadUsers
    <3>2. Readable \subseteq Users
      BY DEF Readable, TypeInv, AccTypeOK
    <3>3. mingled' \in BOOLEAN /\ answered' \subseteq Users
      BY <3>1 DEF TypeInv, AccTypeOK
    <3>4. cookie' \in [Requests -> Users \cup {Nobody}] /\ loaded' \in [Requests -> SUBSET Users]
      BY <3>1, <3>2 DEF TypeInv, AccTypeOK
    <3>5. \E l \in {"save", "pid"} :
            pc' = [pc EXCEPT ![r] = l] /\ (l = "save" => op[r] = "register")
      BY <3>1 DEF Goto
    <3>6. RequestsKnown'
      BY <3>1, <3>5 DEF TypeInv, AccTypeOK, RequestsKnown
    <3>7. /\ pc' \in [Requests -> Labels]
          /\ \A q \in Requests : regLock' = q <=> pc'[q] = "first_run"
      BY <3>1, <3>5 DEF TypeInv, AccTypeOK, Labels, registryVars
    <3> QED
      BY <2>0, <3>1, <3>3, <3>4, <3>6, <3>7 DEF TypeInv, AccTypeOK, Labels, registryVars
  <2> QED
    BY <2>1, <2>2
<1>3. ASSUME NEW r \in Requests, OpenUsers(r) PROVE TypeInv'
  <2>0. ProcTypeOK'
    BY <1>3, SameTypes DEF TypeInv, AccTypeOK, OpenUsers
  <2> QED
    BY <1>3, <2>0 DEF OpenUsers, Goto, TypeInv, AccTypeOK, RequestsKnown, registryVars, requestVars
<1>4. ASSUME NEW r \in Requests, DumpUsers(r) PROVE TypeInv'
  <2>0. ProcTypeOK'
    BY <1>4, SameTypes DEF TypeInv, AccTypeOK, DumpUsers
  <2> QED
    BY <1>4, <2>0 DEF DumpUsers, Goto, TypeInv, AccTypeOK, RequestsKnown, registryVars
<1>5. ASSUME NEW r \in Requests, FindPid(r) PROVE TypeInv'
  <2>0. ProcTypeOK'
    BY <1>5, SameTypes DEF TypeInv, AccTypeOK, FindPid
  <2>1. AnswerTypes(r)
    BY <1>5, GetPidKeeps DEF TypeInv, AccTypeOK, RequestsKnown, FindPid
  <2> QED
    BY <1>5, <2>0, <2>1
    DEF FindPid, AnswerTypes, Labels, TypeInv, AccTypeOK, RequestsKnown, fileVars, registryVars
<1>6. ASSUME NEW r \in Requests, ForkPid(r) \/ ForkSimulated(r) \/ ForkStray(r) PROVE TypeInv'
  <2>0. ProcTypeOK' /\ orphaned' \subseteq Pids
    BY <1>6, MisreadTypes, ForkTypes, SameTypes
    DEF TypeInv, AccTypeOK, ForkPid, ForkSimulated, ForkStray
  <2>1. nextSim' \in Nat /\ nextSim' >= FirstSimPid
    BY <1>6, SimPidsAssumption DEF TypeInv, AccTypeOK, ForkPid, ForkSimulated, ForkStray
  <2>2. PICK p \in AllPids, k \in Origins : Forks(r) /\ Enter(r, p, k)
    BY <1>6 DEF TypeInv, AccTypeOK, ForkPid, Fork, ForkSimulated, ForkStray, AllPids, Origins
  <2>3. registry' \in [Users -> AllPids \cup {NoPid}] /\ born' \in [Users -> Origins]
    BY <2>2 DEF Enter, TypeInv, AccTypeOK
  <2>4. pid' \in [Requests -> AllPids \cup {NoPid}] /\ from' \in [Requests -> Origins]
    BY <2>2 DEF Enter, TypeInv, AccTypeOK
  <2>5. /\ pc' \in [Requests -> Labels] /\ \A q \in Requests : regLock' = q <=> pc'[q] = "first_run"
        /\ pc[r] = "pid" /\ \A q \in Requests \ {r} : pc'[q] = pc[q]
        /\ regLock' = r /\ pc'[r] = "first_run"
        /\ UNCHANGED <<fileVars, requestVars, kernels, servers>>
    BY <2>2 DEF Forks, Enter, Goto, TypeInv, AccTypeOK, Labels
  <2>6. RequestsKnown'
    BY <2>5 DEF TypeInv, RequestsKnown, requestVars
  <2> QED
    BY <2>0, <2>1, <2>3, <2>4, <2>5, <2>6 DEF TypeInv, AccTypeOK, Labels, fileVars, requestVars
<1>7. ASSUME NEW r \in Requests, ForkFails(r) PROVE TypeInv'
  <2>0. ProcTypeOK' /\ orphaned' \subseteq Pids
    BY <1>7, MisreadTypes DEF TypeInv, ForkFails
  <2>1. AnswerTypes(r)
    BY <1>7, GetPidKeeps DEF TypeInv, AccTypeOK, ForkFails, Origins
  <2> QED
    BY <1>7, <2>0, <2>1
    DEF ForkFails, Forks, AnswerTypes, Labels, TypeInv, AccTypeOK, RequestsKnown, fileVars, registryVars
<1>8. ASSUME NEW r \in Requests, FirstRun(r) PROVE TypeInv'
  <2>0. ProcTypeOK' /\ orphaned' \subseteq Pids
    BY <1>8, CallTypes DEF TypeInv, AccTypeOK, FirstRun, States
  <2>1. AnswerTypes(r)
    BY <1>8, GetPidKeeps DEF TypeInv, AccTypeOK, FirstRun
  <2>2. \A q \in Requests : regLock' = q <=> pc'[q] = "first_run"
    BY <1>8, <2>1 DEF FirstRun, AnswerTypes, TypeInv, AccTypeOK
  <2> QED
    BY <1>8, <2>0, <2>1, <2>2
    DEF FirstRun, AnswerTypes, Labels, TypeInv, AccTypeOK, RequestsKnown, fileVars
<1>9. ASSUME NEW r \in Requests, TurnRun(r) \/ TurnWait(r) \/ Exit(r) PROVE TypeInv'
  <2>1. PICK at, to \in {"run", "wait", "reply", "exit", "pop"}, s \in States \ {"NONE"} :
          RequestCall(r, at, s, to)
    BY <1>9 DEF TurnRun, TurnWait, Exit, States
  <2>2. ProcTypeOK' /\ orphaned' \subseteq Pids
    BY <2>1, CallTypes DEF TypeInv, AccTypeOK, RequestCall
  <2> QED
    BY <2>1, <2>2
    DEF RequestCall, Goto, TypeInv, AccTypeOK, RequestsKnown, fileVars, registryVars, requestVars
<1>10. ASSUME NEW r \in Requests, TurnReply(r) \/ TurnFails(r) PROVE TypeInv'
  <2>0. ProcTypeOK' /\ orphaned' \subseteq Pids
    BY <1>10, CallTypes, SameTypes DEF TypeInv, AccTypeOK, TurnReply, TurnFails, States
  <2>1. AnswerTypes(r)
    BY <1>10, AnswerKeeps DEF TurnReply, TurnFails
  <2> QED
    BY <1>10, <2>0, <2>1
    DEF TurnReply, TurnFails, AnswerTypes, Labels, TypeInv, AccTypeOK, RequestsKnown, fileVars,
        registryVars
<1>11. ASSUME NEW r \in Requests, ExitFails(r) PROVE TypeInv'
  <2>0. ProcTypeOK'
    BY <1>11, SameTypes DEF TypeInv, AccTypeOK, ExitFails
  <2> QED
    BY <1>11, <2>0
    DEF ExitFails, Goto, TypeInv, AccTypeOK, RequestsKnown, fileVars, registryVars, requestVars
<1>12. ASSUME NEW r \in Requests, Pop(r) PROVE TypeInv'
  <2>0. ProcTypeOK'
    BY <1>12, SameTypes DEF TypeInv, AccTypeOK, Pop
  <2>1. AnswerTypes(r)
    BY <1>12, AnswerKeeps DEF Pop
  <2> QED
    BY <1>12, <2>0, <2>1
    DEF Pop, AnswerTypes, Labels, TypeInv, AccTypeOK, RequestsKnown, fileVars
<1>13. CASE KernelRestarts
  <2>0. ProcTypeOK'
    BY <1>13, PidsAssumption, TicksAssumption DEF KernelRestarts, ProcTypeOK, Forked
  <2> QED
    BY <1>13, <2>0
    DEF KernelRestarts, TypeInv, AccTypeOK, RequestsKnown, fileVars, registryVars, requestVars
<1>14. CASE ServerRestarts
  <2>0. ProcTypeOK'
    BY <1>14, SameTypes DEF TypeInv, AccTypeOK, ServerRestarts
  <2> QED
    BY <1>14, <2>0, SimPidsAssumption DEF ServerRestarts, TypeInv, AccTypeOK, RequestsKnown, Origins
<1>15. CASE UNCHANGED accVars
  <2>0. ProcTypeOK'
    BY <1>15, SameTypes DEF TypeInv, AccTypeOK, accVars
  <2> QED
    BY <1>15, <2>0 DEF accVars, TypeInv, AccTypeOK, RequestsKnown, fileVars, registryVars, requestVars
<1> QED
  BY <1>1, <1>2, <1>3, <1>4, <1>5, <1>6, <1>7, <1>8, <1>9, <1>10, <1>11, <1>12, <1>13, <1>14, <1>15
  DEF Next, RequestStep

(* The types are kept, and _registry_lock is held exactly around the first *)
(* run of a new process, in every interleaving of the requests.            *)
THEOREM AccountTypes == Spec => []AccTypeOK
<1>1. TypeInv => AccTypeOK
  BY DEF TypeInv
<1> QED
  BY <1>1, InitTypes, StepTypes, PTL DEF Spec

-----------------------------------------------------------------------------
(* The registry.  A pid of the kernel that runs, or of the simulation, has *)
(* been given out by it, and only for one user; a request has a pid only   *)
(* where it uses one, and then the pid of its user.                        *)
Given(p, k) == /\ k <= kernels
               /\ k = kernels => p < nextPid
               /\ k = Simulated => p < nextSim

(* The same after a step.                                                  *)
StillGiven(p, k) == /\ k <= kernels'
                    /\ k = kernels' => p < nextPid'
                    /\ k = Simulated => p < nextSim'

GivenOut ==
  /\ \A u \in Users : registry[u] # NoPid => Given(registry[u], born[u])
  /\ \A r \in Requests : pid[r] # NoPid => Given(pid[r], from[r])

HasNoPid == \A r \in Requests : pc[r] \in {"idle", "load", "save", "dump", "pid"} => pid[r] = NoPid

PidOfItsUser ==
  \A r \in Requests, u \in Users :
    pid[r] # NoPid /\ registry[u] = pid[r] /\ born[u] = from[r] /\ from[r] # Stray
      => who[r] = u

PidInv == TypeInv /\ GivenOut /\ HasNoPid /\ PidOfItsUser /\ PidsDistinct

(* What a step leaves of the registry and of the requests' pids.           *)
SamePids(r) ==
  /\ UNCHANGED <<registry, born, kernels, pid, from, nextPid, nextSim>>
  /\ \A q \in Requests : who'[q] = who[q] \/ pid[q] = NoPid
  /\ \A q \in Requests \ {r} : pc'[q] = pc[q]
  /\ pc'[r] \in {"load", "save", "dump", "pid"} => pc[r] \in {"idle", "load", "save", "dump"}
  /\ pc'[r] # "idle"

(* A request is answered, or goes on with no pid, or with the pid p of the *)
(* kernel k that is its user's.                                            *)
NewPid(r, p, k) ==
  /\ UNCHANGED <<registry, born, kernels, nextSim>>
  /\ nextPid' \in {nextPid, nextPid + 1}
  /\ pid' = [pid EXCEPT ![r] = p] /\ from' = [from EXCEPT ![r] = k]
  /\ \A q \in Requests \ {r} : pc'[q] = pc[q] /\ who'[q] = who[q]
  /\ pc'[r] \in {"load", "save", "dump", "pid"} => p = NoPid
  /\ pc'[r] = "idle" => p = NoPid

LEMMA PidIsInt == AllPids \cup {NoPid} \subseteq Int
  BY PidsAssumption, SimPidsAssumption DEF AllPids, NoPid

LEMMA SamePidsKeep ==
  ASSUME PidInv, NEW r \in Requests, SamePids(r)
  PROVE  GivenOut' /\ HasNoPid' /\ PidOfItsUser' /\ PidsDistinct'
<1>1. GivenOut' /\ PidsDistinct'
  BY DEF PidInv, SamePids, GivenOut, Given, PidsDistinct
<1>2. HasNoPid'
  BY DEF PidInv, SamePids, HasNoPid
<1>3. PidOfItsUser'
  BY DEF PidInv, SamePids, PidOfItsUser
<1> QED
  BY <1>1, <1>2, <1>3

LEMMA NewPidKeeps ==
  ASSUME PidInv, NEW r \in Requests, NEW p, NEW k, NewPid(r, p, k),
         p # NoPid => \/ /\ p = pid[r] /\ k = from[r] /\ who'[r] = who[r]
                      \/ \E u \in Users : p = registry[u] /\ k = born[u] /\ who'[r] = u
  PROVE  GivenOut' /\ HasNoPid' /\ PidOfItsUser' /\ PidsDistinct'
<1>0. /\ pid \in [Requests -> AllPids \cup {NoPid}] /\ from \in [Requests -> Origins]
      /\ registry \in [Users -> AllPids \cup {NoPid}] /\ nextPid \in Int /\ nextSim \in Int
  BY PidsAssumption DEF PidInv, TypeInv, AccTypeOK, ProcTypeOK
<1>1. GivenOut'
  <2>1. ASSUME NEW x \in AllPids \cup {NoPid}, NEW o, Given(x, o) PROVE StillGiven(x, o)
    <3>1. x \in Int /\ nextPid' >= nextPid /\ nextPid' \in Int
      BY <1>0, PidIsInt DEF NewPid
    <3> QED
      BY <1>0, <2>1, <3>1 DEF Given, StillGiven, NewPid
  <2>2. p # NoPid => p \in AllPids /\ Given(p, k)
    BY <1>0 DEF PidInv, GivenOut
  <2>3. ASSUME NEW q \in Requests
        PROVE  pid'[q] = (IF q = r THEN p ELSE pid[q]) /\ from'[q] = (IF q = r THEN k ELSE from[q])
    BY <1>0 DEF NewPid
  <2>4. ASSUME NEW q \in Requests, pid'[q] # NoPid PROVE StillGiven(pid'[q], from'[q])
    <3>1. pid'[q] \in AllPids \cup {NoPid} /\ Given(pid'[q], from'[q])
      BY <1>0, <2>2, <2>3, <2>4 DEF PidInv, GivenOut
    <3> QED
      BY <2>1, <3>1
  <2>5. ASSUME NEW u \in Users, registry[u] # NoPid PROVE StillGiven(registry[u], born[u])
    <3>1. Given(registry[u], born[u]) /\ UNCHANGED <<registry, born>>
      BY <2>5 DEF PidInv, GivenOut, NewPid
    <3> QED
      BY <1>0, <2>1, <3>1
  <2> QED
    BY <2>4, <2>5 DEF GivenOut, Given, StillGiven, NewPid
<1>2. PidsDistinct'
  BY DEF PidInv, NewPid, PidsDistinct
<1>3. HasNoPid'
  BY <1>0 DEF PidInv, NewPid, HasNoPid
<1>4. PidOfItsUser'
  <2> SUFFICES ASSUME NEW q \in Requests, NEW u \in Users,
                      pid'[q] # NoPid, registry[u] = pid'[q], born[u] = from'[q], from'[q] # Stray
               PROVE  who'[q] = u
    BY DEF PidOfItsUser, NewPid
  <2>1. CASE q # r
    BY <1>0, <2>1 DEF PidInv, NewPid, PidOfItsUser
  <2>2. CASE q = r
    BY <1>0, <2>2 DEF PidInv, NewPid, PidOfItsUser, PidsDistinct
  <2> QED
    BY <2>1, <2>2
<1> QED
  BY <1>1, <1>2, <1>3, <1>4

LEMMA InitPids == Init => PidInv
<1>1. Init => GivenOut /\ HasNoPid /\ PidOfItsUser /\ PidsDistinct
  BY DEF Init, GivenOut, HasNoPid, PidOfItsUser, PidsDistinct
<1> QED
  BY <1>1, InitTypes DEF PidInv

LEMMA AnswerHasNoPid ==
  ASSUME TypeInv, NEW r \in Requests, Answer(r),
         UNCHANGED <<registry, born, kernels, nextSim>>, nextPid' = nextPid
  PROVE  NewPid(r, NoPid, 0)
  BY DEF Answer, Goto, NewPid, TypeInv, AccTypeOK

LEMMA GetPidIsNewPid ==
  ASSUME TypeInv, NEW r \in Requests, NEW p, NEW k, pc[r] \in {"pid", "first_run"}, GetPid(r, p, k),
         UNCHANGED <<registry, born, kernels, nextSim>>, nextPid' \in {nextPid, nextPid + 1}
  PROVE  NewPid(r, NoPid, 0) \/ (NewPid(r, p, k) /\ who'[r] = who[r])
<1>1. CASE op[r] = "turn"
  BY <1>1 DEF GetPid, Goto, NewPid, TypeInv, AccTypeOK
<1>2. CASE op[r] # "turn"
  BY <1>2 DEF GetPid, Answer, Goto, NewPid, TypeInv, AccTypeOK
<1> QED
  BY <1>1, <1>2

LEMMA CallKeepsPids ==
  ASSUME NEW r, NEW p, NEW s, ProcessCall(r, p, s)
  PROVE  nextPid' = nextPid
  BY DEF ProcessCall, Transition, procVars

(* The pid p of k, which gives out p now or is no table, enters the        *)
(* registry for the user of r.                                             *)
FreshEntry(r, p, k) ==
  /\ Forks(r) /\ Enter(r, p, k) /\ p \in AllPids /\ k \in Origins
  /\ \/ k = kernels /\ p = nextPid /\ nextPid' = nextPid + 1 /\ nextSim' = nextSim
     \/ k = Simulated /\ p = nextSim /\ nextSim' = nextSim + 1 /\ nextPid' = nextPid
     \/ k = Stray /\ nextPid' \in {nextPid, nextPid + 1} /\ nextSim' = nextSim

LEMMA EntryKeeps ==
  ASSUME PidInv, NEW r \in Requests, NEW p, NEW k, FreshEntry(r, p, k)
  PROVE  GivenOut' /\ HasNoPid' /\ PidOfItsUser' /\ PidsDistinct'
<1>0. /\ pid \in [Requests -> AllPids \cup {NoPid}] /\ from \in [Requests -> Origins]
      /\ registry \in [Users -> AllPids \cup {NoPid}] /\ born \in [Users -> Origins]
      /\ nextPid \in Int /\ nextSim \in Int /\ kernels \in Nat
      /\ pc \in [Requests -> Labels] /\ who[r] \in Users
  BY DEF PidInv, TypeInv, AccTypeOK, RequestsKnown, ProcTypeOK, FreshEntry, Forks, Labels
<1>1. /\ \A u \in Users : registry'[u] = IF u = who[r] THEN p ELSE registry[u]
      /\ \A u \in Users : born'[u] = IF u = who[r] THEN k ELSE born[u]
      /\ \A q \in Requests : pid'[q] = IF q = r THEN p ELSE pid[q]
      /\ \A q \in Requests : from'[q] = IF q = r THEN k ELSE from[q]
      /\ pc' = [pc EXCEPT ![r] = "first_run"] /\ UNCHANGED <<who, kernels>>
      /\ registry[who[r]] = NoPid
  BY <1>0 DEF FreshEntry, Forks, Enter, Goto, requestVars
<1>2. p \in Int /\ p # NoPid /\ nextPid' \in Int /\ nextSim' \in Int
      /\ nextPid' >= nextPid /\ nextSim' >= nextSim
  BY <1>0, PidIsInt, PidsAssumption, SimPidsAssumption DEF FreshEntry, AllPids, NoPid
<1>3. StillGiven(p, k)
  BY <1>0, <1>1, <1>2 DEF FreshEntry, StillGiven, Simulated, Stray
<1>4. ASSUME NEW x \in AllPids \cup {NoPid}, NEW o, Given(x, o)
      PROVE  StillGiven(x, o) /\ (o = k /\ k # Stray => x # p)
  <2>1. x \in Int
    BY PidIsInt
  <2>2. StillGiven(x, o)
    BY <1>0, <1>1, <1>2, <1>4, <2>1 DEF Given, StillGiven
  <2>3. o = k /\ k # Stray => x # p
    BY <1>0, <1>2, <1>4, <2>1 DEF Given, FreshEntry
  <2> QED
    BY <2>2, <2>3
<1>5. GivenOut'
  <2>1. ASSUME NEW u \in Users, registry'[u] # NoPid PROVE StillGiven(registry'[u], born'[u])
    <3>1. CASE u = who[r]
      BY <1>1, <1>3, <3>1
    <3>2. CASE u # who[r]
      <4>1. StillGiven(registry[u], born[u])
        BY <1>0, <1>1, <1>4, <2>1, <3>2 DEF PidInv, GivenOut
      <4> QED
        BY <1>1, <3>2, <4>1
    <3> QED
      BY <3>1, <3>2
  <2>2. ASSUME NEW q \in Requests, pid'[q] # NoPid PROVE StillGiven(pid'[q], from'[q])
    <3>1. CASE q = r
      BY <1>1, <1>3, <3>1
    <3>2. CASE q # r
      <4>1. StillGiven(pid[q], from[q])
        BY <1>0, <1>1, <1>4, <2>2, <3>2 DEF PidInv, GivenOut
      <4> QED
        BY <1>1, <3>2, <4>1
    <3> QED
      BY <3>1, <3>2
  <2> QED
    BY <2>1, <2>2 DEF GivenOut, Given, StillGiven
<1>6. HasNoPid'
  BY <1>0, <1>1 DEF PidInv, HasNoPid
<1>7. PidOfItsUser'
  <2> SUFFICES ASSUME NEW q \in Requests, NEW u \in Users,
                      pid'[q] # NoPid, registry'[u] = pid'[q], born'[u] = from'[q], from'[q] # Stray
               PROVE  who[q] = u
    BY <1>1 DEF PidOfItsUser
  <2>1. CASE q = r /\ u # who[r]
    BY <1>0, <1>1, <1>2, <1>4, <2>1 DEF PidInv, GivenOut
  <2>2. CASE q # r /\ u = who[r]
    BY <1>0, <1>1, <1>4, <2>2 DEF PidInv, GivenOut
  <2>3. CASE q # r /\ u # who[r]
    BY <1>1, <2>3 DEF PidInv, PidOfItsUser
  <2> QED
    BY <2>1, <2>2, <2>3
<1>8. PidsDistinct'
  <2> SUFFICES ASSUME NEW u \in Users, NEW v \in Users, u # v, registry'[u] # NoPid,
                      registry'[u] = registry'[v], born'[u] = born'[v],
                      Stray \notin {born'[u], born'[v]}
               PROVE  FALSE
    BY DEF PidsDistinct
  <2>1. CASE u # who[r] /\ v # who[r]
    BY <1>1, <2>1 DEF PidInv, PidsDistinct
  <2>2. CASE u = who[r] \/ v = who[r]
    BY <1>0, <1>1, <1>2, <1>4, <2>2 DEF PidInv, GivenOut
  <2> QED
    BY <2>1, <2>2
<1> QED
  BY <1>5, <1>6, <1>7, <1>8

LEMMA StepPids == PidInv /\ [Next]_accVars => PidInv'
<1> SUFFICES ASSUME PidInv, [Next]_accVars
             PROVE  GivenOut' /\ HasNoPid' /\ PidOfItsUser' /\ PidsDistinct'
  BY StepTypes DEF PidInv
<1> DEFINE Goal == GivenOut' /\ HasNoPid' /\ PidOfItsUser' /\ PidsDistinct'
<1>t. TypeInv
  BY DEF PidInv
<1>0. /\ pid \in [Requests -> AllPids \cup {NoPid}] /\ from \in [Requests -> Origins]
      /\ registry \in [Users -> AllPids \cup {NoPid}] /\ nextPid \in Int /\ nextSim \in Int
      /\ pc \in [Requests -> Labels] /\ who \in [Requests -> Users \cup {Nobody}]
      /\ (\A r \in Requests : pc[r] # "idle" => who[r] \in Users)
      /\ kernels \in Nat /\ born \in [Users -> Origins]
  BY <1>t DEF TypeInv, AccTypeOK, RequestsKnown, ProcTypeOK, Labels
<1>1. ASSUME NEW r \in Requests, Arrives(r) PROVE Goal
  <2>1. ASSUME NEW n \in {"register", "login", "turn"}, NEW u, NEW l \in {"load", "pid"},
               Start(r, n, u, l)
        PROVE  SamePids(r)
    BY <1>0, <2>1 DEF Start, Goto, SamePids, procVars, registryVars, PidInv, HasNoPid
  <2>2. CASE Logout(r) /\ registry[cookie[r]] = NoPid
    <3>1. UNCHANGED <<registry, born, kernels, nextPid, nextSim, pid, from, who, pc>>
      BY <2>2 DEF Logout, procVars, registryVars
    <3> QED
      BY <3>1 DEF PidInv, GivenOut, Given, HasNoPid, PidOfItsUser, PidsDistinct
  <2>3. CASE Logout(r) /\ registry[cookie[r]] # NoPid
    <3>1. cookie[r] \in Users
      BY <1>t, <2>3 DEF Logout, TypeInv, AccTypeOK
    <3>2. NewPid(r, registry[cookie[r]], born[cookie[r]]) /\ who'[r] = cookie[r]
      BY <1>0, <2>3 DEF Logout, Goto, NewPid, procVars, registryVars
    <3> QED
      BY <3>1, <3>2, NewPidKeeps
  <2> QED
    BY <1>1, <2>1, <2>2, <2>3, SamePidsKeep DEF Arrives, Turn, Register, Login
<1>2. ASSUME NEW r \in Requests, LoadUsers(r) PROVE Goal
  <2>1. UNCHANGED <<registry, born, kernels, nextPid, nextSim>> /\ pc[r] = "load"
    BY <1>2 DEF LoadUsers, procVars, registryVars
  <2>2. CASE Answer(r)
    BY <1>t, <2>1, <2>2, AnswerHasNoPid, NewPidKeeps
  <2>3. CASE ~Answer(r)
    <3>1. /\ \E l \in {"save", "pid"} : Goto(r, l)
          /\ UNCHANGED <<who, pid, from>>
      BY <1>2, <2>3 DEF LoadUsers
    <3> QED
      BY <1>0, <2>1, <3>1, SamePidsKeep DEF SamePids, Goto
  <2> QED
    BY <2>2, <2>3
<1>3. ASSUME NEW r \in Requests, OpenUsers(r) \/ DumpUsers(r) \/ ExitFails(r) PROVE Goal
  <2>1. SamePids(r)
    BY <1>0, <1>3 DEF OpenUsers, DumpUsers, ExitFails, Goto, SamePids, procVars, registryVars, requestVars
  <2> QED
    BY <2>1, SamePidsKeep
<1>4. ASSUME NEW r \in Requests, TurnRun(r) \/ TurnWait(r) \/ Exit(r) PROVE Goal
  <2>1. PICK at, to \in {"run", "wait", "reply", "exit", "pop"}, s \in States : RequestCall(r, at, s, to)
    BY <1>4 DEF TurnRun, TurnWait, Exit, States
  <2>2. SamePids(r)
    BY <1>0, <2>1, CallKeepsPids DEF RequestCall, Goto, SamePids, registryVars, requestVars
  <2> QED
    BY <2>2, SamePidsKeep
<1>5. ASSUME NEW r \in Requests, TurnReply(r) \/ TurnFails(r) PROVE Goal
  <2>1. Answer(r) /\ UNCHANGED <<registry, born, kernels, nextPid, nextSim>>
    BY <1>5, CallKeepsPids DEF TurnReply, TurnFails, procVars, registryVars
  <2> QED
    BY <1>t, <2>1, AnswerHasNoPid, NewPidKeeps
<1>6. ASSUME NEW r \in Requests, FindPid(r) PROVE Goal
  <2>1. who[r] \in Users /\ UNCHANGED <<registry, born, kernels, nextPid, nextSim>>
    BY <1>0, <1>6 DEF FindPid, procVars, registryVars
  <2>2. \/ NewPid(r, NoPid, 0)
        \/ NewPid(r, registry[who[r]], born[who[r]]) /\ who'[r] = who[r]
    BY <1>t, <1>6, <2>1, GetPidIsNewPid DEF FindPid
  <2> QED
    BY <2>1, <2>2, NewPidKeeps
<1>7. ASSUME NEW r \in Requests, ForkFails(r) PROVE Goal
  <2>1. /\ UNCHANGED <<registry, born, kernels, nextSim>> /\ nextPid' \in {nextPid, nextPid + 1}
        /\ GetPid(r, NoPid, kernels) /\ pc[r] = "pid"
    BY <1>7 DEF ForkFails, Forks, Misread, Fork, procVars, registryVars
  <2>2. NewPid(r, NoPid, 0) \/ NewPid(r, NoPid, kernels)
    BY <1>t, <2>1, GetPidIsNewPid
  <2> QED
    BY <2>2, NewPidKeeps
<1>8. ASSUME NEW r \in Requests, FirstRun(r) PROVE Goal
  <2>1. /\ UNCHANGED <<registry, born, kernels, nextPid, nextSim>> /\ pc[r] = "first_run"
        /\ GetPid(r, pid[r], from[r])
    BY <1>8, CallKeepsPids DEF FirstRun
  <2>2. NewPid(r, NoPid, 0) \/ (NewPid(r, pid[r], from[r]) /\ who'[r] = who[r])
    BY <1>t, <2>1, GetPidIsNewPid
  <2> QED
    BY <2>2, NewPidKeeps
<1>9. ASSUME NEW r \in Requests, ForkPid(r) \/ ForkSimulated(r) \/ ForkStray(r) PROVE Goal
  <2>1. CASE ForkPid(r)
    <3>1. FreshEntry(r, nextPid, kernels)
      BY <1>0, <2>1 DEF ForkPid, Fork, FreshEntry, AllPids, Origins
    <3> QED
      BY <3>1, EntryKeeps
  <2>2. CASE ForkSimulated(r)
    <3>1. FreshEntry(r, nextSim, Simulated)
      BY <1>0, <2>2 DEF ForkSimulated, FreshEntry, AllPids, Origins, procVars
    <3> QED
      BY <3>1, EntryKeeps
  <2>3. CASE ForkStray(r)
    <3>1. nextPid' \in {nextPid, nextPid + 1}
      BY <2>3 DEF ForkStray, Misread, Fork, procVars
    <3>2. PICK p \in AllPids : FreshEntry(r, p, Stray)
      BY <1>0, <2>3, <3>1 DEF ForkStray, FreshEntry, Origins
    <3> QED
      BY <3>2, EntryKeeps
  <2> QED
    BY <1>9, <2>1, <2>2, <2>3
<1>10. ASSUME NEW r \in Requests, Pop(r) PROVE Goal
  <2>1. /\ registry' = [registry EXCEPT ![who[r]] = NoPid] /\ Answer(r) /\ pc[r] = "pop"
        /\ UNCHANGED <<born, kernels, nextPid, nextSim>>
    BY <1>10 DEF Pop, procVars
  <2>2. /\ \A u \in Users : registry'[u] \in {registry[u], NoPid}
        /\ pid' = [pid EXCEPT ![r] = NoPid] /\ from' = [from EXCEPT ![r] = 0]
        /\ \A q \in Requests \ {r} : who'[q] = who[q] /\ pc'[q] = pc[q]
    BY <1>0, <2>1 DEF Answer, Goto
  <2>3. GivenOut'
    BY <1>0, <2>1, <2>2 DEF PidInv, GivenOut, Given
  <2>4. HasNoPid'
    BY <1>0, <2>2 DEF PidInv, HasNoPid
  <2>5. PidOfItsUser'
    BY <1>0, <2>1, <2>2 DEF PidInv, PidOfItsUser
  <2>6. PidsDistinct'
    BY <2>1, <2>2 DEF PidInv, PidsDistinct
  <2> QED
    BY <2>3, <2>4, <2>5, <2>6
<1>11. CASE KernelRestarts
  <2>1. /\ kernels' = kernels + 1
        /\ UNCHANGED <<registry, born, pc, who, pid, from, nextSim>>
    BY <1>11 DEF KernelRestarts, registryVars, requestVars
  <2>2. GivenOut'
    BY <1>0, <2>1 DEF PidInv, GivenOut, Given, Origins, Simulated, Stray
  <2>3. HasNoPid' /\ PidOfItsUser' /\ PidsDistinct'
    BY <2>1 DEF PidInv, HasNoPid, PidOfItsUser, PidsDistinct
  <2> QED
    BY <2>2, <2>3
<1>12. CASE ServerRestarts
  BY <1>12 DEF ServerRestarts, GivenOut, Given, HasNoPid, PidOfItsUser, PidsDistinct
<1>13. CASE UNCHANGED accVars
  <2>1. UNCHANGED <<registry, born, kernels, nextPid, nextSim, pc, who, pid, from>>
    BY <1>13 DEF accVars, procVars, registryVars, requestVars
  <2> QED
    BY <2>1 DEF PidInv, GivenOut, Given, HasNoPid, PidOfItsUser, PidsDistinct
<1> QED
  BY <1>1, <1>2, <1>3, <1>4, <1>5, <1>6, <1>7, <1>8, <1>9, <1>10, <1>11, <1>12, <1>13
  DEF Next, RequestStep

(* No two users have one process, however their requests, the restarts and *)
(* the simulated calls interleave: two tables may give out the same pid,   *)
(* and a stray answer may name another's, but no table gives one out twice.*)
THEOREM PidsStayDistinct == Spec => []PidsDistinct
<1>1. PidInv => PidsDistinct
  BY DEF PidInv
<1> QED
  BY <1>1, InitPids, StepPids, PTL DEF Spec

-----------------------------------------------------------------------------
(* The file of users.  Unless registrations mingled, at most one is between*)
(* reading and writing the file, and it holds all the users that others    *)
(* were told of; the file is empty exactly while that one writes it.       *)
Unmingled ==
  /\ \A q, r \in Requests : Registering(q) /\ Registering(r) => q = r
  /\ \A r \in Requests : pc[r] \in {"save", "dump"} => answered \subseteq loaded[r]
  /\ \A r \in Requests : pc[r] = "dump" => users = {}
  /\ (\A r \in Requests : pc[r] # "dump") => answered \subseteq users /\ ~torn

FileInv == TypeInv /\ (mingled \/ Unmingled)

(* A step that has nothing to do with the file.                            *)
LeavesFile(r) ==
  /\ UNCHANGED fileVars
  /\ \A q \in Requests \ {r} : pc'[q] = pc[q] /\ loaded'[q] = loaded[q] /\ op'[q] = op[q]
  /\ pc[r] \notin {"save", "dump"} /\ pc'[r] \notin {"save", "dump"}

LEMMA LeavesFileKeeps ==
  ASSUME FileInv, NEW r \in Requests, LeavesFile(r)
  PROVE  mingled' \/ Unmingled'
<1> SUFFICES ASSUME Unmingled PROVE Unmingled'
  BY DEF FileInv, LeavesFile, fileVars
<1>1. UNCHANGED <<users, torn, answered>>
  BY DEF LeavesFile, fileVars
<1>2. \A q, p \in Requests : Registering(q)' /\ Registering(p)' => q = p
  BY DEF LeavesFile, Unmingled, Registering
<1> QED
  BY <1>1, <1>2 DEF LeavesFile, Unmingled

LEMMA AnswerLeavesFile ==
  ASSUME TypeInv, NEW r \in Requests, Answer(r), UNCHANGED fileVars, pc[r] \notin {"save", "dump"}
  PROVE  LeavesFile(r)
  BY DEF Answer, Goto, LeavesFile, TypeInv, AccTypeOK

LEMMA GetPidLeavesFile ==
  ASSUME TypeInv, NEW r \in Requests, NEW p, NEW k, GetPid(r, p, k), UNCHANGED fileVars,
         pc[r] \notin {"save", "dump"}
  PROVE  LeavesFile(r)
<1>1. CASE op[r] = "turn"
  BY <1>1 DEF GetPid, Goto, LeavesFile, TypeInv, AccTypeOK
<1>2. CASE op[r] # "turn"
  BY <1>2, AnswerLeavesFile DEF GetPid
<1> QED
  BY <1>1, <1>2

LEMMA StepFile == FileInv /\ [Next]_accVars => FileInv'
<1> SUFFICES ASSUME FileInv, [Next]_accVars PROVE mingled' \/ Unmingled'
  BY StepTypes DEF FileInv
<1>t. TypeInv
  BY DEF FileInv
<1>0. /\ pc \in [Requests -> Labels] /\ loaded \in [Requests -> SUBSET Users]
      /\ op \in [Requests -> {"none", "register", "login", "turn", "logout"}]
      /\ \A r \in Requests : pc[r] \in {"save", "dump"} => op[r] = "register"
  BY <1>t DEF TypeInv, AccTypeOK, RequestsKnown, Labels
<1>1. ASSUME NEW r \in Requests, Arrives(r) PROVE mingled' \/ Unmingled'
  <2>1. LeavesFile(r)
    BY <1>0, <1>1 DEF Arrives, Turn, Register, Login, Start, Logout, Goto, LeavesFile, requestVars
  <2> QED
    BY <2>1, LeavesFileKeeps
<1>2. ASSUME NEW r \in Requests, LoadUsers(r) PROVE mingled' \/ Unmingled'
  <2>1. pc[r] = "load" /\ UNCHANGED <<users, torn>>
    BY <1>2 DEF LoadUsers
  <2>2. CASE Answer(r) /\ UNCHANGED <<answered, mingled>>
    <3>1. UNCHANGED fileVars
      BY <2>1, <2>2 DEF fileVars
    <3> QED
      BY <1>t, <2>1, <2>2, <3>1, AnswerLeavesFile, LeavesFileKeeps
  <2>3. CASE ~(Answer(r) /\ UNCHANGED <<answered, mingled>>)
    <3>1. /\ Goto(r, IF op[r] = "register" THEN "save" ELSE "pid")
          /\ loaded' = [loaded EXCEPT ![r] = IF op[r] = "register" THEN Readable ELSE {}]
          /\ mingled' = (mingled \/ (op[r] = "register" /\ \E q \in Requests : Registering(q)))
          /\ answered' = IF mingled' THEN {} ELSE answered
          /\ UNCHANGED op
      BY <1>2, <2>3, Zenon DEF LoadUsers
    <3>2. CASE op[r] # "register"
      <4>1. CASE mingled
        BY <3>1, <4>1
      <4>2. CASE ~mingled
        <5>1. answered' = answered /\ mingled' = mingled
          BY <3>1, <3>2, <4>2 DEF FileInv, TypeInv, AccTypeOK
        <5>2. LeavesFile(r)
          BY <1>0, <2>1, <3>1, <3>2, <5>1 DEF LeavesFile, Goto, fileVars
        <5> QED
          BY <5>2, LeavesFileKeeps
      <4> QED
        BY <4>1, <4>2
    <3>3. CASE op[r] = "register" /\ ~mingled'
      <4>1. Unmingled /\ answered' = answered /\ \A q \in Requests : ~Registering(q)
        BY <3>1, <3>3 DEF FileInv
      <4>2. \A q \in Requests : pc[q] \notin {"save", "dump"}
        BY <1>0, <4>1 DEF Registering
      <4>3. answered \subseteq users /\ Readable = users /\ ~torn
        BY <4>1, <4>2 DEF Unmingled, Readable
      <4>4. pc' = [pc EXCEPT ![r] = "save"] /\ loaded' = [loaded EXCEPT ![r] = users]
        BY <3>1, <3>3, <4>3 DEF Goto
      <4>5. Unmingled'
        BY <1>0, <2>1, <3>1, <4>1, <4>2, <4>3, <4>4 DEF Unmingled, Registering
      <4> QED
        BY <4>5
    <3> QED
      BY <3>2, <3>3
  <2> QED
    BY <2>2, <2>3
<1>3. ASSUME NEW r \in Requests, OpenUsers(r) PROVE mingled' \/ Unmingled'
  <2> SUFFICES ASSUME Unmingled PROVE Unmingled'
    BY <1>3 DEF OpenUsers, FileInv
  <2>1. /\ pc[r] = "save" /\ pc' = [pc EXCEPT ![r] = "dump"] /\ users' = {}
        /\ UNCHANGED <<answered, loaded, op>>
    BY <1>3 DEF OpenUsers, Goto, requestVars
  <2> QED
    BY <1>0, <2>1 DEF Unmingled, Registering
<1>4. ASSUME NEW r \in Requests, DumpUsers(r) PROVE mingled' \/ Unmingled'
  <2> SUFFICES ASSUME Unmingled, ~mingled PROVE Unmingled'
    BY <1>4 DEF DumpUsers, FileInv
  <2>1. /\ pc[r] = "dump" /\ pc' = [pc EXCEPT ![r] = "pid"] /\ users' = loaded[r] \cup {who[r]}
        /\ answered' = answered \cup {who[r]} /\ loaded' = [loaded EXCEPT ![r] = {}]
        /\ (users = {} => torn' = FALSE) /\ UNCHANGED op
    BY <1>4 DEF DumpUsers, Goto
  <2>2. \A q \in Requests \ {r} : pc[q] \notin {"save", "dump"}
    BY <1>0, <2>1 DEF Unmingled, Registering
  <2> QED
    BY <1>0, <2>1, <2>2 DEF Unmingled, Registering
<1>5. ASSUME NEW r \in Requests, FindPid(r) \/ ForkFails(r) \/ FirstRun(r) PROVE mingled' \/ Unmingled'
  <2>1. /\ UNCHANGED fileVars /\ pc[r] \notin {"save", "dump"}
        /\ \E p, k : GetPid(r, p, k)
    BY <1>5 DEF FindPid, ForkFails, Forks, FirstRun
  <2> QED
    BY <1>t, <2>1, GetPidLeavesFile, LeavesFileKeeps
<1>6. ASSUME NEW r \in Requests, ForkPid(r) \/ ForkSimulated(r) \/ ForkStray(r) \/ ExitFails(r)
      PROVE  mingled' \/ Unmingled'
  <2>1. LeavesFile(r)
    BY <1>0, <1>6
    DEF ForkPid, ForkSimulated, ForkStray, Forks, Enter, ExitFails, Goto, LeavesFile, requestVars
  <2> QED
    BY <2>1, LeavesFileKeeps
<1>7. ASSUME NEW r \in Requests, TurnRun(r) \/ TurnWait(r) \/ Exit(r) PROVE mingled' \/ Unmingled'
  <2>1. LeavesFile(r)
    BY <1>0, <1>7 DEF TurnRun, TurnWait, Exit, RequestCall, Goto, LeavesFile, requestVars
  <2> QED
    BY <2>1, LeavesFileKeeps
<1>8. ASSUME NEW r \in Requests, TurnReply(r) \/ TurnFails(r) \/ Pop(r) PROVE mingled' \/ Unmingled'
  <2>1. Answer(r) /\ UNCHANGED fileVars /\ pc[r] \notin {"save", "dump"}
    BY <1>8 DEF TurnReply, TurnFails, Pop
  <2> QED
    BY <1>t, <2>1, AnswerLeavesFile, LeavesFileKeeps
<1>9. CASE KernelRestarts \/ UNCHANGED accVars
  <2>1. UNCHANGED <<users, torn, answered, mingled, pc, loaded, op>>
    BY <1>9 DEF KernelRestarts, accVars, fileVars, requestVars
  <2> QED
    BY <2>1 DEF FileInv, Unmingled, Registering
<1>10. CASE ServerRestarts
  <2> SUFFICES ASSUME ~mingled' PROVE Unmingled'
    OBVIOUS
  <2>1. /\ Unmingled /\ answered' = answered /\ UNCHANGED <<users, torn>>
        /\ pc' = [q \in Requests |-> "idle"]
        /\ \A q \in Requests : ~Registering(q)
    BY <1>10 DEF ServerRestarts, FileInv
  <2>2. \A q \in Requests : pc[q] # "dump"
    BY <1>0, <2>1 DEF Registering
  <2> QED
    BY <2>1, <2>2 DEF Unmingled, Registering
<1> QED
  BY <1>1, <1>2, <1>3, <1>4, <1>5, <1>6, <1>7, <1>8, <1>9, <1>10 DEF Next, RequestStep

(* No registered user is lost from users.json for any other cause than     *)
(* overlapping registrations or a stop of the server in the midst of one.  *)
THEOREM UsersStay == Spec => []AccountsKept
<1>1. Init => FileInv
  <2>1. Init => Unmingled
    BY DEF Init, Unmingled, Registering
  <2> QED
    BY <2>1, InitTypes DEF FileInv
<1>2. FileInv => AccountsKept
  BY DEF FileInv, Unmingled, AccountsKept
<1> QED
  BY <1>1, <1>2, StepFile, PTL DEF Spec

-----------------------------------------------------------------------------
(* The registry and the process table.                                     *)
OwnInv == PidInv /\ ProcessesOwned

LEMMA NoPidIsNone == NoPid \notin Pids
  BY PidsAssumption DEF NoPid

LEMMA SimulatedIsNoKernel == ASSUME NEW k \in Nat PROVE k # Simulated /\ k # Stray
  BY DEF Simulated, Stray

(* Requests that are about to pop a pid stay so.                           *)
PopsStay == \A q \in Requests : pc[q] = "pop" => pc'[q] = "pop" /\ who'[q] = who[q] /\ pid'[q] = pid[q]

LEMMA SameTableKeeps ==
  ASSUME OwnInv, UNCHANGED <<state, registry, born, kernels>>, orphaned \subseteq orphaned', PopsStay
  PROVE  ProcessesOwned'
<1>1. LiveHasOwner'
  BY DEF OwnInv, ProcessesOwned, LiveHasOwner, Live, Registered
<1>2. ExitedHasLogout'
  BY DEF OwnInv, ProcessesOwned, ExitedHasLogout, PopsStay
<1> QED
  BY <1>1, <1>2 DEF ProcessesOwned

LEMMA CallKeepsOwners ==
  ASSUME OwnInv, NEW r \in Requests, NEW p \in AllPids \cup {NoPid}, NEW s \in States \ {"NONE"},
         ProcessCall(r, p, s), UNCHANGED registry
  PROVE  LiveHasOwner'
<1>0. state \in [Pids -> States] /\ LiveHasOwner
  BY DEF OwnInv, PidInv, TypeInv, AccTypeOK, ProcTypeOK, States, ProcessesOwned
<1> SUFFICES ASSUME NEW q \in Pids, q \notin orphaned', state'[q] \notin {"NONE", "TERMINATED"}
             PROVE  Registered(q)
  BY DEF LiveHasOwner, Live, Registered
<1>1. CASE q = p
  BY <1>0, <1>1 DEF ProcessCall, Transition, Forked, LiveHasOwner, Live
<1>2. CASE q # p
  <2>1. state'[q] = state[q] /\ q \notin orphaned
    BY <1>0, <1>2 DEF ProcessCall, Transition, procVars
  <2> QED
    BY <1>0, <2>1 DEF LiveHasOwner, Live
<1> QED
  BY <1>1, <1>2

LEMMA CallKeepsExited ==
  ASSUME OwnInv, NEW r \in Requests, NEW p \in AllPids \cup {NoPid}, NEW s \in States \ {"NONE", "TERMINATED"},
         ProcessCall(r, p, s), UNCHANGED <<registry, born, kernels>>, PopsStay
  PROVE  ExitedHasLogout'
<1>0. state \in [Pids -> States] /\ ExitedHasLogout
  BY DEF OwnInv, PidInv, TypeInv, AccTypeOK, ProcTypeOK, States, ProcessesOwned
<1>1. orphaned \subseteq orphaned'
  BY DEF ProcessCall, States
<1>2. \A q \in Pids : state'[q] = "TERMINATED" => state[q] = "TERMINATED"
  BY <1>0 DEF ProcessCall, Transition, procVars
<1> QED
  BY <1>0, <1>1, <1>2 DEF ExitedHasLogout, PopsStay

LEMMA GetPidPops ==
  ASSUME TypeInv, NEW r \in Requests, NEW p, NEW k, GetPid(r, p, k), pc[r] # "pop"
  PROVE  PopsStay
  BY DEF GetPid, Answer, Goto, PopsStay, TypeInv, AccTypeOK

LEMMA AnswerPops ==
  ASSUME TypeInv, NEW r \in Requests, Answer(r), pc[r] # "pop"
  PROVE  PopsStay
  BY DEF Answer, Goto, PopsStay, TypeInv, AccTypeOK

LEMMA StepOwned == OwnInv /\ [Next]_accVars => OwnInv'
<1> SUFFICES ASSUME OwnInv, [Next]_accVars PROVE ProcessesOwned'
  BY StepPids DEF OwnInv
<1>t. TypeInv
  BY DEF OwnInv, PidInv
<1>0. /\ pc \in [Requests -> Labels] /\ pid \in [Requests -> AllPids \cup {NoPid}]
      /\ who \in [Requests -> Users \cup {Nobody}]
      /\ registry \in [Users -> AllPids \cup {NoPid}] /\ state \in [Pids -> States]
      /\ born \in [Users -> Origins] /\ kernels \in Nat
  BY <1>t DEF TypeInv, AccTypeOK, ProcTypeOK, Labels, States
<1>b. LiveHasOwner /\ ExitedHasLogout
  BY DEF OwnInv, ProcessesOwned
<1>1. ASSUME NEW r \in Requests, Arrives(r) PROVE ProcessesOwned'
  <2>1. PopsStay /\ UNCHANGED <<state, registry, born, kernels, orphaned>>
    BY <1>0, <1>1
    DEF Arrives, Turn, Register, Login, Start, Logout, Goto, PopsStay, procVars, registryVars
  <2> QED
    BY <2>1, SameTableKeeps
<1>2. ASSUME NEW r \in Requests, LoadUsers(r) \/ OpenUsers(r) \/ DumpUsers(r) PROVE ProcessesOwned'
  <2>1. PopsStay /\ UNCHANGED <<state, registry, born, kernels, orphaned>>
    BY <1>0, <1>2
    DEF LoadUsers, OpenUsers, DumpUsers, Answer, Goto, PopsStay, procVars, registryVars, requestVars
  <2> QED
    BY <2>1, SameTableKeeps
<1>3. ASSUME NEW r \in Requests, FindPid(r) PROVE ProcessesOwned'
  <2>1. PopsStay /\ UNCHANGED <<state, registry, born, kernels, orphaned>>
    BY <1>t, <1>3, GetPidPops DEF FindPid, procVars, registryVars
  <2> QED
    BY <2>1, SameTableKeeps
<1>4. ASSUME NEW r \in Requests, ForkPid(r) PROVE ProcessesOwned'
  <2>1. /\ nextPid \in Pids /\ registry[who[r]] = NoPid /\ pc[r] = "pid" /\ who[r] \in Users
        /\ registry' = [registry EXCEPT ![who[r]] = nextPid] /\ state' = [state EXCEPT ![nextPid] = "READY"]
        /\ born' = [born EXCEPT ![who[r]] = kernels] /\ UNCHANGED <<kernels, orphaned>>
    BY <1>t, <1>4 DEF ForkPid, Forks, Enter, Fork, TypeInv, RequestsKnown
  <2>2. PopsStay
    BY <1>0, <1>4 DEF ForkPid, Forks, Enter, Goto, PopsStay, requestVars
  <2>3. LiveHasOwner'
    <3> SUFFICES ASSUME NEW q \in Pids, q \notin orphaned, state'[q] \notin {"NONE", "TERMINATED"}
                 PROVE  \E u \in Users : registry'[u] = q
      BY <2>1 DEF LiveHasOwner, Live, Registered
    <3>1. CASE q = nextPid
      BY <1>0, <2>1, <3>1
    <3>2. CASE q # nextPid
      <4>1. PICK u \in Users : registry[u] = q
        BY <1>0, <1>b, <2>1, <3>2 DEF LiveHasOwner, Live, Registered
      <4> QED
        BY <1>0, <2>1, <4>1, NoPidIsNone
    <3> QED
      BY <3>1, <3>2
  <2>4. ExitedHasLogout'
    <3> SUFFICES ASSUME NEW u \in Users, registry'[u] \in Pids, born'[u] = kernels,
                        registry'[u] \notin orphaned, state'[registry'[u]] = "TERMINATED"
                 PROVE  \E q \in Requests : pc'[q] = "pop" /\ who'[q] = u /\ pid'[q] = registry'[u]
      BY <2>1 DEF ExitedHasLogout
    <3>1. u # who[r] /\ registry'[u] = registry[u] /\ born'[u] = born[u]
          /\ state[registry[u]] = "TERMINATED"
      BY <1>0, <2>1
    <3> QED
      BY <1>b, <2>2, <3>1 DEF ExitedHasLogout, PopsStay
  <2> QED
    BY <2>3, <2>4 DEF ProcessesOwned
<1>5. ASSUME NEW r \in Requests, ForkSimulated(r) \/ ForkStray(r) \/ ForkFails(r) PROVE ProcessesOwned'
  <2>1. PopsStay /\ kernels' = kernels
    <3>1. CASE ForkFails(r)
      BY <1>t, <3>1, GetPidPops DEF ForkFails, Forks
    <3>2. CASE ForkSimulated(r) \/ ForkStray(r)
      BY <1>0, <3>2 DEF ForkSimulated, ForkStray, Forks, Enter, Goto, PopsStay, requestVars
    <3> QED
      BY <1>5, <3>1, <3>2
  <2>2. /\ \A q \in Pids \ orphaned' : state'[q] = state[q]
        /\ orphaned \subseteq orphaned'
    BY <1>0, <1>5 DEF ForkSimulated, ForkStray, ForkFails, Misread, Fork, procVars
  <2>3. \A u \in Users : \/ registry'[u] = registry[u] /\ born'[u] = born[u]
                         \/ registry[u] = NoPid /\ born'[u] \in {Simulated, Stray}
    <3>1. CASE ForkFails(r)
      BY <3>1 DEF ForkFails, registryVars
    <3>2. CASE ForkSimulated(r) \/ ForkStray(r)
      BY <1>0, <3>2 DEF ForkSimulated, ForkStray, Forks, Enter
    <3> QED
      BY <1>5, <3>1, <3>2
  <2>4. LiveHasOwner'
    BY <1>b, <2>2, <2>3, NoPidIsNone DEF LiveHasOwner, Live, Registered
  <2>5. ExitedHasLogout'
    <3> SUFFICES ASSUME NEW u \in Users, registry'[u] \in Pids, born'[u] = kernels,
                        registry'[u] \notin orphaned', state'[registry'[u]] = "TERMINATED"
                 PROVE  \E q \in Requests : pc'[q] = "pop" /\ who'[q] = u /\ pid'[q] = registry'[u]
      BY <2>1 DEF ExitedHasLogout
    <3>1. registry'[u] = registry[u] /\ born[u] = kernels
      BY <1>0, <2>3, SimulatedIsNoKernel
    <3>2. registry[u] \notin orphaned /\ state[registry[u]] = "TERMINATED"
      BY <2>2, <3>1
    <3> QED
      BY <1>b, <2>1, <3>1, <3>2 DEF ExitedHasLogout, PopsStay
  <2> QED
    BY <2>4, <2>5 DEF ProcessesOwned
<1>6. ASSUME NEW r \in Requests, FirstRun(r) PROVE ProcessesOwned'
  <2>1. /\ PopsStay /\ UNCHANGED <<registry, born, kernels>>
        /\ ProcessCall(r, pid[r], "RUNNING") /\ pid[r] \in AllPids \cup {NoPid}
    BY <1>t, <1>0, <1>6, GetPidPops DEF FirstRun
  <2> QED
    BY <2>1, CallKeepsOwners, CallKeepsExited DEF ProcessesOwned, States
<1>7. ASSUME NEW r \in Requests, TurnRun(r) \/ TurnWait(r) PROVE ProcessesOwned'
  <2>1. PICK s \in {"RUNNING", "WAITING"} :
          /\ PopsStay /\ UNCHANGED <<registry, born, kernels>>
          /\ ProcessCall(r, pid[r], s) /\ pid[r] \in AllPids \cup {NoPid}
    BY <1>0, <1>7 DEF TurnRun, TurnWait, RequestCall, Goto, PopsStay, registryVars, requestVars
  <2> QED
    BY <2>1, CallKeepsOwners, CallKeepsExited DEF ProcessesOwned, States
<1>8. ASSUME NEW r \in Requests, TurnReply(r) PROVE ProcessesOwned'
  <2>1. /\ PopsStay /\ UNCHANGED <<registry, born, kernels>>
        /\ ProcessCall(r, pid[r], "RUNNING") /\ pid[r] \in AllPids \cup {NoPid}
    BY <1>t, <1>0, <1>8, AnswerPops DEF TurnReply, registryVars
  <2> QED
    BY <2>1, CallKeepsOwners, CallKeepsExited DEF ProcessesOwned, States
<1>9. ASSUME NEW r \in Requests, TurnFails(r) PROVE ProcessesOwned'
  <2>1. PopsStay /\ UNCHANGED <<state, registry, born, kernels, orphaned>>
    BY <1>t, <1>9, AnswerPops DEF TurnFails, procVars, registryVars
  <2> QED
    BY <2>1, SameTableKeeps
<1>10. ASSUME NEW r \in Requests, Exit(r) PROVE ProcessesOwned'
  <2>1. /\ ProcessCall(r, pid[r], "TERMINATED") /\ pid[r] \in AllPids \cup {NoPid}
        /\ pc[r] = "exit" /\ pc' = [pc EXCEPT ![r] = "pop"]
        /\ UNCHANGED <<registry, born, kernels, who, pid>>
    BY <1>0, <1>10 DEF Exit, RequestCall, Goto, registryVars, requestVars
  <2>2. LiveHasOwner'
    BY <2>1, CallKeepsOwners DEF States
  <2>3. ExitedHasLogout'
    <3> SUFFICES ASSUME NEW u \in Users, registry[u] \in Pids, born[u] = kernels,
                        registry[u] \notin orphaned', state'[registry[u]] = "TERMINATED"
                 PROVE  \E q \in Requests : pc'[q] = "pop" /\ who[q] = u /\ pid[q] = registry[u]
      BY <2>1 DEF ExitedHasLogout
    <3>1. CASE registry[u] # pid[r]
      <4>1. state[registry[u]] = "TERMINATED" /\ registry[u] \notin orphaned
        BY <1>0, <2>1, <3>1 DEF ProcessCall, Transition, procVars
      <4> QED
        BY <1>0, <1>b, <2>1, <4>1 DEF ExitedHasLogout
    <3>2. CASE registry[u] = pid[r]
      <4>1. Forked(pid[r])
        BY <1>0, <2>1, <3>2 DEF ProcessCall, Transition, Forked
      <4>2. from[r] = kernels
        BY <2>1, <3>2, <4>1 DEF ProcessCall
      <4>3. who[r] = u
        BY <1>0, <3>2, <4>2, NoPidIsNone, SimulatedIsNoKernel DEF OwnInv, PidInv, PidOfItsUser
      <4> QED
        BY <1>0, <2>1, <3>2, <4>3
    <3> QED
      BY <3>1, <3>2
  <2> QED
    BY <2>2, <2>3 DEF ProcessesOwned
<1>11. ASSUME NEW r \in Requests, ExitFails(r) PROVE ProcessesOwned'
  <2>1. PopsStay /\ UNCHANGED <<state, registry, born, kernels>> /\ orphaned \subseteq orphaned'
    BY <1>0, <1>11 DEF ExitFails, Goto, PopsStay, procVars, registryVars, requestVars
  <2> QED
    BY <2>1, SameTableKeeps
<1>12. ASSUME NEW r \in Requests, Pop(r) PROVE ProcessesOwned'
  <2>1. /\ registry' = [registry EXCEPT ![who[r]] = NoPid] /\ Answer(r) /\ pc[r] = "pop"
        /\ UNCHANGED <<born, kernels, state>>
    BY <1>12 DEF Pop, procVars
  <2>2. /\ \A q \in Requests \ {r} : pc'[q] = pc[q] /\ who'[q] = who[q] /\ pid'[q] = pid[q]
        /\ who[r] \in Users
    BY <1>0, <1>t, <2>1 DEF Answer, Goto, TypeInv, RequestsKnown
  <2>3. /\ orphaned \subseteq orphaned'
        /\ registry[who[r]] \in Pids /\ Live(registry[who[r]]) => registry[who[r]] \in orphaned'
    BY <1>12 DEF Pop
  <2>4. LiveHasOwner'
    <3> SUFFICES ASSUME NEW q \in Pids, q \notin orphaned', Live(q)
                 PROVE  \E u \in Users : registry'[u] = q
      BY <2>1 DEF LiveHasOwner, Live, Registered
    <3>1. PICK u \in Users : registry[u] = q
      BY <1>b, <2>3 DEF LiveHasOwner, Registered
    <3>2. u # who[r]
      BY <2>3, <3>1
    <3> QED
      BY <1>0, <2>1, <3>1, <3>2
  <2>5. ExitedHasLogout'
    <3> SUFFICES ASSUME NEW u \in Users, registry'[u] \in Pids, born[u] = kernels,
                        registry'[u] \notin orphaned', state[registry'[u]] = "TERMINATED"
                 PROVE  \E q \in Requests : pc'[q] = "pop" /\ who'[q] = u /\ pid'[q] = registry'[u]
      BY <2>1 DEF ExitedHasLogout
    <3>1. u # who[r] /\ registry'[u] = registry[u]
      BY <1>0, <2>1, <2>2, NoPidIsNone
    <3>2. PICK q \in Requests : pc[q] = "pop" /\ who[q] = u /\ pid[q] = registry[u]
      BY <1>b, <2>3, <3>1 DEF ExitedHasLogout
    <3> QED
      BY <2>2, <3>1, <3>2
  <2> QED
    BY <2>4, <2>5 DEF ProcessesOwned
<1>13. CASE KernelRestarts
  BY <1>13 DEF KernelRestarts, ProcessesOwned, LiveHasOwner, ExitedHasLogout, Live
<1>14. CASE ServerRestarts
  <2>1. /\ registry' = [u \in Users |-> NoPid] /\ orphaned' = {p \in Pids : Live(p)} /\ state' = state
    BY <1>14 DEF ServerRestarts, procVars
  <2> QED
    BY <2>1, NoPidIsNone DEF ProcessesOwned, LiveHasOwner, ExitedHasLogout, Live
<1>15. CASE UNCHANGED accVars
  <2>1. PopsStay /\ UNCHANGED <<state, registry, born, kernels, orphaned>>
    BY <1>15 DEF accVars, PopsStay, procVars, registryVars, requestVars
  <2> QED
    BY <2>1, SameTableKeeps
<1> QED
  BY <1>1, <1>2, <1>3, <1>4, <1>5, <1>6, <1>7, <1>8, <1>9, <1>10, <1>11, <1>12, <1>13, <1>14, <1>15
  DEF Next, RequestStep

(* A process that runs on without a user, and a user left with an exited   *)
(* process, have one of the causes that ProcessesOwned names.              *)
THEOREM OwnersAgree == Spec => []ProcessesOwned
<1>1. Init => OwnInv
  <2>1. Init => ProcessesOwned
    BY NoPidIsNone DEF Init, ProcInit, ProcessesOwned, LiveHasOwner, ExitedHasLogout, Live
  <2> QED
    BY <2>1, InitPids DEF OwnInv
<1>2. OwnInv => ProcessesOwned
  BY DEF OwnInv
<1> QED
  BY <1>1, <1>2, StepOwned, PTL DEF Spec
=============================================================================
