----------------------------- MODULE ChatTurns ------------------------------
(***************************************************************************)
(* Chat turns of one user: /chat, /stream and /clear of run.py, the window *)
(* of kernel_bridge.kernel_manage_context and agent.manage_context, and    *)
(* agent.agent and agent_streaming, which save the exchange and append it  *)
(* to the history.  Turns run on threads of their own and share the list   *)
(* of the user's history, the user's process and the user's memory.        *)
(*                                                                         *)
(* A list is named, as Python shares it by reference: _histories holds the *)
(* current one, a turn keeps the one it started with, and a window cut off *)
(* a long list is a copy that only its turn knows.                         *)
(*                                                                         *)
(* A system call may be lost, which nobody looks at: it times out, is      *)
(* simulated, or reads a stray answer.  One that timed out may be served   *)
(* later, which is modelled of a proc_wait; of the other two it can only   *)
(* end a wait.  The process itself is there when a turn begins.            *)
(***************************************************************************)
EXTENDS ReactLoop, FiniteSets

CONSTANTS MaxActive,  \* max_active, MAX_ACTIVE_TURNS: messages in the window, even
          MaxTurns,   \* bound: turns of the user
          MaxClears   \* bound: uses of /clear

ASSUME ActiveAssumption == MaxActive \in Nat \ {0} /\ MaxActive % 2 = 0
ASSUME BoundsAssumption == MaxTurns \in Nat /\ MaxClears \in Nat

Copy  == 0                   \* a list that is in no other's hands
Lists == 1 .. MaxClears + 1  \* the lists that _histories held or holds

VARIABLES
  lists,      \* the messages in each list
  current,    \* the list in _histories
  pc,         \* where a turn is
  kind,       \* "chat" or "stream"
  number,     \* the number of the turn
  list,       \* the list its window is, Copy for a copy
  started,    \* turns started so far
  process,    \* the state of the user's process
  memory,     \* the user's memory: the turns whose exchange was saved
  offloaded,  \* the user's memory: pairs of messages moved out of the window
  fate,       \* history: what befell each turn
  mixed,      \* history: the appends of two turns to one list mingled
  late,       \* a proc_wait that was given up may still be served
  stranded    \* history: the last turn to end left the process as it was, or
              \* a late proc_wait has come since

turnVars == <<lists, current, pc, kind, number, list, started, process, memory, offloaded, fate,
              mixed, late, stranded>>
vars == <<loopVars, turnVars>>

Msg(n, role) == [turn |-> n, role |-> role]
Numbers  == 1 .. MaxTurns
Messages == [turn : Numbers, role : {"user", "model"}]
Fates    == {"none", "open", "cut", "cleared", "answered", "failed"}

Init ==
  /\ LoopInit
  /\ lists = [l \in Lists |-> <<>>]
  /\ current = 1
  /\ pc = [t \in Turns |-> "idle"]
  /\ kind = [t \in Turns |-> "chat"]
  /\ number = [t \in Turns |-> 0]
  /\ list = [t \in Turns |-> Copy]
  /\ started = 0
  /\ process = "RUNNING"
  /\ memory = {}
  /\ offloaded = {}
  /\ fate = [n \in Numbers |-> "none"]
  /\ mixed = FALSE
  /\ late = FALSE
  /\ stranded = FALSE

-----------------------------------------------------------------------------
Goto(t, label) == pc' = [pc EXCEPT ![t] = label]
Open(t) == pc[t] # "idle"

(* The process is set to each of these states in turn, by one call each.   *)
(* Number n is the last the kernel serves in time, 0 if all are lost; a    *)
(* proc_wait among the others may come later.                              *)
SetState(states, n) ==
  /\ process' = IF n = 0 THEN process ELSE states[n]
  /\ late' \in {late, late \/ \E i \in DOMAIN states : i # n /\ states[i] = "WAITING"}

SetStates(states) == \E n \in 0 .. Len(states) : SetState(states, n)

(* A proc_wait that was given up is served; another may be behind it.      *)
LateWait ==
  /\ late
  /\ late' \in BOOLEAN
  /\ process' = "WAITING"
  /\ stranded' = TRUE
  /\ UNCHANGED <<loopVars, lists, current, pc, kind, number, list, started, memory, offloaded, fate,
                 mixed>>

(* Which thread serves a turn makes no difference.                         *)
FreePlace == CHOOSE t \in Turns : pc[t] = "idle"

(* A turn takes the list of the history; its process is there already, is  *)
(* set RUNNING for the question and WAITING for the model.                 *)
Begin(t, k) ==
  /\ pc[t] = "idle" /\ t = FreePlace /\ started < MaxTurns
  /\ Goto(t, "manage")
  /\ kind' = [kind EXCEPT ![t] = k]
  /\ started' = started + 1
  /\ number' = [number EXCEPT ![t] = started']
  /\ list' = [list EXCEPT ![t] = current]
  /\ SetStates(<<"RUNNING", "WAITING">>)
  /\ fate' = [fate EXCEPT ![started'] = "open"]
  /\ UNCHANGED <<loopVars, lists, current, memory, offloaded, mixed, stranded>>

(* The pairs (old[i], old[i+1]) for i = 0, 2, .. of the messages before the*)
(* window, and whether there are any.                                      *)
Long(l)  == l # Copy /\ Len(lists[l]) > MaxActive

(* Mutant: the old messages are taken one further on.                      *)
OldFromSecond(l) == SubSeq(lists[l], 2, Len(lists[l]) - MaxActive + 1)

Old(l)   == SubSeq(lists[l], 1, Len(lists[l]) - MaxActive)
Pairs(s) == {<<s[2 * i - 1], s[2 * i]>> : i \in 1 .. Len(s) \div 2}

CutWindow(t) ==
  /\ offloaded' = offloaded \cup Pairs(Old(list[t]))
  /\ list' = [list EXCEPT ![t] = Copy]
  /\ fate' = [fate EXCEPT ![number[t]] = IF @ = "open" THEN "cut" ELSE @]

(* kernel_manage_context: a long history is cut to its window, and the     *)
(* process, WAITING meanwhile, is READY then.                              *)
ManageContext(t) ==
  /\ pc[t] = "manage"
  /\ Goto(t, "context")
  /\ IF Long(list[t]) THEN CutWindow(t) /\ SetStates(<<"WAITING", "READY">>)
     ELSE UNCHANGED <<offloaded, list, fate, process, late>>
  /\ UNCHANGED <<loopVars, lists, current, kind, number, started, memory, mixed, stranded>>

(* agent.manage_context does the same to a list that has grown too long    *)
(* since, without the process; then the loop starts.                       *)
StartAgent(t) ==
  /\ pc[t] = "context"
  /\ IF Long(list[t]) THEN CutWindow(t) ELSE UNCHANGED <<offloaded, list, fate>>
  /\ StartLoop(t)
  /\ Goto(t, "loop")
  /\ UNCHANGED <<lists, current, kind, number, started, process, memory, mixed, late, stranded>>

Loop(t) ==
  /\ pc[t] = "loop"
  /\ LoopStep(t)
  /\ UNCHANGED turnVars

-----------------------------------------------------------------------------
(* The turn ends.  Left is TRUE when the process is not set RUNNING.       *)
EndTurn(t, end, left) ==
  /\ Goto(t, "idle")
  /\ kind' = [kind EXCEPT ![t] = "chat"]
  /\ number' = [number EXCEPT ![t] = 0]
  /\ list' = [list EXCEPT ![t] = Copy]
  /\ fate' = [fate EXCEPT ![number[t]] = IF @ = "open" THEN end ELSE @]
  /\ stranded' = left
  /\ StopLoop(t)

(* A stream with an empty answer records nothing.                          *)
Empty(t) == kind[t] = "stream" /\ answer[t] = "empty"

EmptyStream(t) ==
  /\ pc[t] = "loop" /\ at[t] = "done" /\ Empty(t)
  /\ EndTurn(t, "failed", TRUE)
  /\ UNCHANGED <<lists, current, started, process, memory, offloaded, mixed, late>>

(* The client closes a stream: GeneratorExit at the event that is sent, the*)
(* final one included, ends both generators.                               *)
Abandon(t) ==
  /\ pc[t] \in {"context", "loop"} /\ kind[t] = "stream"
  /\ EndTurn(t, "failed", TRUE)
  /\ UNCHANGED <<lists, current, started, process, memory, offloaded, mixed, late>>

(* An exception of the memory's collection or embedding: /chat answers 500,*)
(* and so does a stream that has not begun; a stream sends an error, and   *)
(* goes on after its final event.                                          *)
RaiseBefore(t) ==
  /\ \/ pc[t] = "context" /\ UNCHANGED <<process, late>>
     \/ pc[t] = "manage" /\ Long(list[t]) /\ SetStates(<<"WAITING">>)
  /\ EndTurn(t, "failed", TRUE)
  /\ UNCHANGED <<lists, current, started, memory, offloaded, mixed>>

RaiseAfter(t) ==
  /\ pc[t] = "loop" /\ at[t] = "done" /\ ~Empty(t)
  /\ IF kind[t] = "stream"
     THEN /\ Goto(t, "answer")
          /\ fate' = [fate EXCEPT ![number[t]] = IF @ = "open" THEN "failed" ELSE @]
          /\ StopLoop(t)
          /\ UNCHANGED <<kind, number, list, stranded>>
     ELSE EndTurn(t, "failed", TRUE)
  /\ UNCHANGED <<lists, current, started, process, memory, offloaded, mixed, late>>

(* Mutant: the messages are appended to a copy of the history.             *)
AddToCopy(t, role) == UNCHANGED <<lists, mixed>>

(* chat_history.append of the question or the answer.                      *)
AddTo(t, role) ==
  LET l == list[t] IN
  /\ lists' = IF l = Copy THEN lists ELSE [lists EXCEPT ![l] = Append(@, Msg(number[t], role))]
  /\ mixed' = \/ mixed
              \/ l # Copy /\ \E u \in Turns \ {t} : list[u] = l /\ pc[u] = "append_model"

(* save_exchange, and the append of the question.                          *)
Save(t) ==
  /\ pc[t] = "loop" /\ at[t] = "done" /\ ~Empty(t)
  /\ memory' = memory \cup {number[t]}
  /\ AddTo(t, "user")
  /\ StopLoop(t)
  /\ Goto(t, "append_model")
  /\ UNCHANGED <<current, kind, number, list, started, process, offloaded, fate, late, stranded>>

AppendModel(t) ==
  /\ pc[t] = "append_model"
  /\ AddTo(t, "model")
  /\ Goto(t, "answer")
  /\ UNCHANGED <<loopVars, current, kind, number, list, started, process, memory, offloaded, fate,
                 late, stranded>>

(* Mutant: the answer is sent without proc_run.                            *)
AnswerOnly(t) ==
  /\ pc[t] = "answer"
  /\ EndTurn(t, "answered", FALSE)
  /\ UNCHANGED <<lists, current, started, process, memory, offloaded, mixed, late>>

(* proc_run, and the answer or the last event, be the call lost or not.    *)
Answer(t) ==
  /\ pc[t] = "answer"
  /\ \E n \in {0, 1} : SetState(<<"RUNNING">>, n) /\ EndTurn(t, "answered", n = 0)
  /\ UNCHANGED <<lists, current, started, memory, offloaded, mixed>>

(* /clear puts a new list into _histories.                                 *)
Clear ==
  /\ current < MaxClears + 1
  /\ current' = current + 1
  /\ fate' = [n \in Numbers |-> IF fate[n] \in {"open", "answered"} THEN "cleared" ELSE fate[n]]
  /\ UNCHANGED <<loopVars, lists, pc, kind, number, list, started, process, memory, offloaded, mixed,
                 late, stranded>>

TurnStep(t) ==
  \/ ManageContext(t) \/ StartAgent(t) \/ Loop(t)
  \/ EmptyStream(t) \/ Abandon(t) \/ RaiseBefore(t) \/ RaiseAfter(t)
  \/ Save(t) \/ AppendModel(t) \/ Answer(t)

Next == Clear \/ LateWait \/ \E t \in Turns : TurnStep(t) \/ \E k \in {"chat", "stream"} : Begin(t, k)

(* A thread of the web server goes on: the model's client has a time-out.  *)
Spec == Init /\ [][Next]_vars /\ \A t \in Turns : WF_vars(TurnStep(t))

-----------------------------------------------------------------------------
(* Type correctness, of the loops' dialogs too; a loop runs exactly while  *)
(* its turn is in it.                                                      *)
TurnTypeOK ==
  /\ LoopTypeOK
  /\ lists \in [Lists -> Seq(Messages)]
  /\ current \in Lists
  /\ pc \in [Turns -> {"idle", "manage", "context", "loop", "append_model", "answer"}]
  /\ kind \in [Turns -> {"chat", "stream"}]
  /\ number \in [Turns -> 0 .. MaxTurns]
  /\ list \in [Turns -> Lists \cup {Copy}]
  /\ started \in 0 .. MaxTurns
  /\ process \in {"READY", "RUNNING", "WAITING"}
  /\ memory \subseteq Numbers
  /\ offloaded \subseteq Messages \X Messages
  /\ fate \in [Numbers -> Fates]
  /\ mixed \in BOOLEAN /\ stranded \in BOOLEAN /\ late \in BOOLEAN
  /\ \A t \in Turns : pc[t] = "loop" <=> at[t] # "off"

(* A list is a sequence of questions each followed by its own answer, and  *)
(* so is what the window moved into the memory, unless two turns appended  *)
(* to the list at one time.  A turn may be between its two appends.        *)
PairOf(m1, m2) == m1 = Msg(m1.turn, "user") /\ m2 = Msg(m1.turn, "model")
ExchangesPaired ==
  ~mixed =>
    /\ \A l \in Lists : \A i \in 1 .. Len(lists[l]) \div 2 : PairOf(lists[l][2 * i - 1], lists[l][2 * i])
    /\ \A pair \in offloaded : PairOf(pair[1], pair[2])

(* An exchange in the memory whose turn has been answered is in the user's *)
(* history.  It is missing for two causes only: the turn found the history *)
(* longer than the window, or /clear was called since it began.            *)
Recorded(n) == \E i \in DOMAIN lists[current] : lists[current][i] = Msg(n, "model")
RecordedUnlessCut == \A n \in memory : fate[n] = "answered" => Recorded(n)

(* The process is WAITING only while a turn runs; or after the last one to *)
(* end failed, was abandoned, was streamed with an empty answer or lost its*)
(* proc_run; or after a proc_wait that had been given up was served late.  *)
WaitingHasCause == process = "WAITING" => stranded \/ \E t \in Turns : Open(t)

(* Every turn ends: the steps and the attempts are bounded.                *)
TurnsEnd == \A t \in Turns : Open(t) ~> ~Open(t)
=============================================================================
