------------------------------- MODULE Bridge -------------------------------
(***************************************************************************)
(* The connection of kernel_bridge.py to the kernel server: one socket and *)
(* one lock shared by the threads of the web server, the time limit on an  *)
(* answer, the reconnection, and the fall-back to the simulated kernel.    *)
(* The other end is the server's connection loop (kernel_server.cpp        *)
(* handle_client), which may be slow and may stop and start again.         *)
(*                                                                         *)
(* A call is the pair of a thread and the number of its call; requests and *)
(* answers are the calls they belong to.  An answer arrives whole, but a   *)
(* request may be longer than the buffer of the server's recv and be sent  *)
(* in pieces, each of which the server may take for a request.             *)
(***************************************************************************)
EXTENDS Integers, Sequences, FiniteSets

CONSTANTS Threads,    \* threads that make system calls
          NoThread,   \* no thread holds the lock
          NoCall,     \* no call
          Sockets,    \* sockets; an unreferenced one is closed and its name reused
          NoSocket,   \* None
          MaxCalls,   \* bound: calls of a thread
          Pieces,     \* in how many pieces the request of each call is sent
          MaxStops    \* bound: stops of the kernel

ASSUME NoThreadAssumption == NoThread \notin Threads
ASSUME NoSocketAssumption == NoSocket \notin Sockets
ASSUME MaxCallsAssumption == MaxCalls \in Nat
ASSUME PiecesAssumption   == Pieces \in [Threads \X (0 .. MaxCalls) -> Nat \ {0}]
ASSUME NoCallAssumption   == NoCall \notin Threads \X (0 .. MaxCalls)

VARIABLES
  connected,  \* _connected
  sock,       \* _sock
  lock,       \* the thread that holds _lock
  pc,         \* where a thread is
  stage,      \* whether it is in is_kernel_online or in _syscall_raw
  call,       \* the number of its call
  on,         \* the socket whose recv it waits in
  got,        \* how its last call ended
  requests,   \* what the kernel has not received of a socket, piece by piece
  busy,       \* the call the kernel dispatches for a socket
  answers,    \* what the kernel sent and nobody received
  alive,      \* the sockets the kernel has open
  up, stops,  \* whether the kernel runs, how often it stopped
  sentTo,     \* history: the socket of the latest request
  soiled,     \* history: sockets on which a call was sent and then given up,
              \*   or a request was received in more than one piece
  disturbed   \* history: threads whose connect failed during their call, or
              \*   during whose call another thread declared the kernel offline

threadVars == <<pc, stage, call, on, got>>
kernelVars == <<requests, busy, answers, alive, up, stops>>
vars == <<connected, sock, lock, threadVars, kernelVars, sentTo, soiled, disturbed>>

Calls == Threads \X (0 .. MaxCalls)
Current(t) == <<t, call[t]>>
Ending(kind, c) == [kind |-> kind, of |-> c]
Endings == [kind : {"none", "answer", "error", "offline", "simulated"}, of : Calls \cup {NoCall}]

Init ==
  /\ connected = FALSE
  /\ sock = NoSocket
  /\ lock = NoThread
  /\ pc = [t \in Threads |-> "idle"]
  /\ stage = [t \in Threads |-> "online"]
  /\ call = [t \in Threads |-> 0]
  /\ on = [t \in Threads |-> NoSocket]
  /\ got = [t \in Threads |-> Ending("none", NoCall)]
  /\ requests = [s \in Sockets |-> <<>>]
  /\ busy = [s \in Sockets |-> NoCall]
  /\ answers = [s \in Sockets |-> <<>>]
  /\ alive = {}
  /\ up \in BOOLEAN
  /\ stops = 0
  /\ sentTo = NoSocket
  /\ soiled = {}
  /\ disturbed = {}

-----------------------------------------------------------------------------
Goto(t, label) == pc' = [pc EXCEPT ![t] = label]

(* The call of t ends.                                                     *)
End(t, kind, c) == /\ Goto(t, "idle")
                   /\ got' = [got EXCEPT ![t] = Ending(kind, c)]
                   /\ stage' = [stage EXCEPT ![t] = "online"]

(* A system call starts with is_kernel_online; nothing has disturbed it.   *)
Begin(t) ==
  /\ pc[t] = "idle" /\ call[t] < MaxCalls
  /\ Goto(t, "test")
  /\ call' = [call EXCEPT ![t] = @ + 1]
  /\ got' = [got EXCEPT ![t] = Ending("none", NoCall)]
  /\ disturbed' = disturbed \ {t}
  /\ UNCHANGED <<connected, sock, lock, stage, on, kernelVars, sentTo, soiled>>

(* Mutant: is_kernel_online answers without connecting.                    *)
TestOnly(t) ==
  /\ pc[t] = "test"
  /\ Goto(t, "verdict")
  /\ UNCHANGED <<connected, sock, lock, stage, call, on, got, kernelVars, sentTo, soiled, disturbed>>

(* `if not _connected': the first test of either function.                 *)
Test(t) ==
  /\ pc[t] = "test"
  /\ Goto(t, IF connected THEN "verdict" ELSE "connect")
  /\ UNCHANGED <<connected, sock, lock, stage, call, on, got, kernelVars, sentTo, soiled, disturbed>>

(* _connect: the new socket replaces _sock, and then _connected is set.    *)
(* The old one is closed unless a thread is in its recv.                   *)
Reading(s) == \E t \in Threads : on[t] = s
Fresh == CHOOSE s \in Sockets : s # sock /\ ~Reading(s)

Connect(t) ==
  LET s == Fresh
      kept == {x \in Sockets : Reading(x)}
  IN
  /\ pc[t] = "connect" /\ up
  /\ \E x \in Sockets : x # sock /\ ~Reading(x)
  /\ sock' = s
  /\ alive' = (alive \cap kept) \cup {s}
  /\ requests' = [x \in Sockets |-> IF x \in kept THEN requests[x] ELSE <<>>]
  /\ busy' = [x \in Sockets |-> IF x \in kept THEN busy[x] ELSE NoCall]
  /\ answers' = [x \in Sockets |-> IF x \in kept THEN answers[x] ELSE <<>>]
  /\ sentTo' = IF sentTo \in kept THEN sentTo ELSE NoSocket
  /\ soiled' = soiled \cap kept
  /\ Goto(t, "mark")
  /\ UNCHANGED <<connected, lock, stage, call, on, got, up, stops, disturbed>>

Mark(t) ==
  /\ pc[t] = "mark"
  /\ connected' = TRUE
  /\ Goto(t, "verdict")
  /\ UNCHANGED <<sock, lock, stage, call, on, got, kernelVars, sentTo, soiled, disturbed>>

(* Any exception in _connect: nobody listens, or the kernel runs and the   *)
(* 0.8 s of TIMEOUT pass, or there is no socket to be had.                 *)
ConnectFails(t) ==
  /\ pc[t] = "connect"
  /\ connected' = FALSE
  /\ disturbed' = disturbed \cup {u \in Threads : u = t \/ pc[u] # "idle"}
  /\ Goto(t, "verdict")
  /\ UNCHANGED <<sock, lock, stage, call, on, got, kernelVars, sentTo, soiled>>

(* The second test: online, the call goes to _syscall_raw, which tests     *)
(* again before it waits for the lock; offline, it is simulated or refused.*)
Verdict(t) ==
  /\ pc[t] = "verdict"
  /\ IF connected
     THEN /\ Goto(t, IF stage[t] = "online" THEN "test" ELSE "lock")
          /\ stage' = [stage EXCEPT ![t] = "raw"]
          /\ UNCHANGED got
     ELSE End(t, IF stage[t] = "online" THEN "simulated" ELSE "offline", NoCall)
  /\ UNCHANGED <<connected, sock, lock, call, on, kernelVars, sentTo, soiled, disturbed>>

-----------------------------------------------------------------------------
(* Mutant: there is no lock.                                               *)
AcquireAnyway(t) ==
  /\ pc[t] = "lock"
  /\ lock' = t
  /\ Goto(t, "send")
  /\ UNCHANGED <<connected, sock, stage, call, on, got, kernelVars, sentTo, soiled, disturbed>>

(* `with _lock'.                                                           *)
Acquire(t) ==
  /\ pc[t] = "lock" /\ lock = NoThread
  /\ lock' = t
  /\ Goto(t, "send")
  /\ UNCHANGED <<connected, sock, stage, call, on, got, kernelVars, sentTo, soiled, disturbed>>

(* t gives up a call it has sent.                                          *)
Soil(t) ==
  /\ soiled' = IF pc[t] = "send" THEN soiled ELSE soiled \cup ({sentTo} \cap Sockets)
  /\ UNCHANGED sentTo

(* Mutant: an exception leaves the lock taken.                             *)
FailLocked(t) ==
  /\ Goto(t, "fail")
  /\ on' = [on EXCEPT ![t] = NoSocket]
  /\ Soil(t)
  /\ UNCHANGED lock

(* An exception: the lock is released, and only then _connected is reset.  *)
Fail(t) ==
  /\ lock' = NoThread
  /\ Goto(t, "fail")
  /\ on' = [on EXCEPT ![t] = NoSocket]
  /\ Soil(t)

(* sendall on the socket that _sock names now, in one or more pieces.      *)
Send(t) ==
  /\ pc[t] = "send" /\ sock \in alive
  /\ requests' = [requests EXCEPT ![sock] = @ \o [i \in 1 .. Pieces[Current(t)] |-> Current(t)]]
  /\ sentTo' = sock
  /\ Goto(t, "recv")
  /\ UNCHANGED <<connected, sock, lock, stage, call, on, got, busy, answers, alive, up, stops,
                 soiled, disturbed>>

SendFails(t) ==
  /\ pc[t] = "send" /\ sock \notin alive
  /\ Fail(t)
  /\ UNCHANGED <<connected, sock, stage, call, got, kernelVars, disturbed>>

(* recv on the socket that _sock names now, perhaps not the one sent on.   *)
Recv(t) ==
  /\ pc[t] = "recv"
  /\ on' = [on EXCEPT ![t] = sock]
  /\ Goto(t, "wait")
  /\ UNCHANGED <<connected, sock, lock, stage, call, got, kernelVars, sentTo, soiled, disturbed>>

(* recv returns all that has arrived: one answer is the call's result, two *)
(* are not JSON.                                                           *)
Return(t) ==
  /\ pc[t] = "wait" /\ Len(answers[on[t]]) = 1
  /\ lock' = NoThread
  /\ End(t, "answer", Head(answers[on[t]]))
  /\ answers' = [answers EXCEPT ![on[t]] = <<>>]
  /\ on' = [on EXCEPT ![t] = NoSocket]
  /\ UNCHANGED <<connected, sock, call, requests, busy, alive, up, stops, sentTo, soiled, disturbed>>

Garbled(t) ==
  /\ pc[t] = "wait" /\ Len(answers[on[t]]) > 1
  /\ Fail(t)
  /\ answers' = [answers EXCEPT ![on[t]] = <<>>]
  /\ UNCHANGED <<connected, sock, stage, call, got, requests, busy, alive, up, stops, disturbed>>

(* The time limit passes, or the kernel has closed the connection.         *)
NoAnswer(t) ==
  /\ pc[t] = "wait" /\ answers[on[t]] = <<>>
  /\ Fail(t)
  /\ UNCHANGED <<connected, sock, stage, call, got, kernelVars, disturbed>>

(* The kernel is declared offline, also to the threads that are in a call. *)
GiveUp(t) ==
  /\ pc[t] = "fail"
  /\ connected' = FALSE
  /\ disturbed' = disturbed \cup {u \in Threads \ {t} : pc[u] # "idle"}
  /\ End(t, "error", NoCall)
  /\ UNCHANGED <<sock, lock, call, on, kernelVars, sentTo, soiled>>

ThreadStep(t) ==
  \/ Test(t) \/ Connect(t) \/ Mark(t) \/ ConnectFails(t) \/ Verdict(t)
  \/ Acquire(t) \/ Send(t) \/ SendFails(t) \/ Recv(t)
  \/ Return(t) \/ Garbled(t) \/ NoAnswer(t) \/ GiveUp(t)

-----------------------------------------------------------------------------
(* The kernel's thread of a connection.  One recv takes what has come, at  *)
(* most 8191 bytes, for one request: of several, parse_json keeps the      *)
(* values of the last, and the rest of a longer one is the next request.   *)
(* Where no call was given up only one call is under way, so what one recv *)
(* leaves behind is a part of the request it took.                         *)
KernelReceives(s) ==
  \E n \in 1 .. Len(requests[s]) :
    /\ s \in alive /\ busy[s] = NoCall
    /\ busy' = [busy EXCEPT ![s] = requests[s][n]]
    /\ requests' = [requests EXCEPT ![s] = SubSeq(@, n + 1, Len(@))]
    /\ soiled' = IF n < Len(requests[s]) THEN soiled \cup {s} ELSE soiled
    /\ UNCHANGED <<connected, sock, lock, threadVars, answers, alive, up, stops, sentTo, disturbed>>

KernelAnswers(s) ==
  /\ s \in alive /\ busy[s] # NoCall
  /\ answers' = [answers EXCEPT ![s] = Append(@, busy[s])]
  /\ busy' = [busy EXCEPT ![s] = NoCall]
  /\ UNCHANGED <<connected, sock, lock, threadVars, requests, alive, up, stops, sentTo, soiled, disturbed>>

KernelStops ==
  /\ up /\ stops < MaxStops
  /\ up' = FALSE
  /\ stops' = stops + 1
  /\ alive' = {}
  /\ requests' = [s \in Sockets |-> <<>>]
  /\ busy' = [s \in Sockets |-> NoCall]
  /\ UNCHANGED <<connected, sock, lock, threadVars, answers, sentTo, soiled, disturbed>>

KernelStarts ==
  /\ ~up
  /\ up' = TRUE
  /\ UNCHANGED <<connected, sock, lock, threadVars, requests, busy, answers, alive, stops,
                 sentTo, soiled, disturbed>>

KernelStep ==
  \/ \E s \in Sockets : KernelReceives(s) \/ KernelAnswers(s)
  \/ KernelStops
  \/ KernelStarts

Next == KernelStep \/ \E t \in Threads : Begin(t) \/ ThreadStep(t)

(* A thread in a call goes on: recv has a time limit, so it never waits    *)
(* for the kernel for ever.  Nothing is assumed of the kernel.             *)
Spec == Init /\ [][Next]_vars /\ \A t \in Threads : WF_vars(ThreadStep(t))

-----------------------------------------------------------------------------
(* Type correctness; the lock is held exactly from its acquisition to the  *)
(* end of the recv loop, by the one thread that has a socket to wait on.   *)
BridgeTypeOK ==
  /\ connected \in BOOLEAN
  /\ sock \in Sockets \cup {NoSocket}
  /\ lock \in Threads \cup {NoThread}
  /\ pc \in [Threads -> {"idle", "test", "connect", "mark", "verdict", "lock", "send", "recv",
                         "wait", "fail"}]
  /\ stage \in [Threads -> {"online", "raw"}]
  /\ call \in [Threads -> 0 .. MaxCalls]
  /\ on \in [Threads -> Sockets \cup {NoSocket}]
  /\ got \in [Threads -> Endings]
  /\ requests \in [Sockets -> Seq(Calls)]
  /\ busy \in [Sockets -> Calls \cup {NoCall}]
  /\ answers \in [Sockets -> Seq(Calls)]
  /\ alive \subseteq Sockets
  /\ up \in BOOLEAN
  /\ stops \in Nat
  /\ sentTo \in Sockets \cup {NoSocket}
  /\ soiled \subseteq Sockets
  /\ disturbed \subseteq Threads
  /\ \A t \in Threads : /\ lock = t <=> pc[t] \in {"send", "recv", "wait"}
                        /\ on[t] # NoSocket <=> pc[t] = "wait"

(* A call is given the answer of another call only on a socket on which    *)
(* some call was sent and given up, or some request was received in more   *)
(* than one piece and so answered more than once: whatever the             *)
(* interleaving of time-outs, reconnections and waiting threads, no thread *)
(* takes an answer another still waits for, nor finds one on a socket that *)
(* _connect just opened.                                                   *)
StrayHasCause ==
  [][\A t \in Threads :
       Return(t) => got'[t].of = Current(t) \/ on[t] \in soiled]_vars

(* A call is simulated, or refused as offline, only if a connect of its own*)
(* failed, or another thread declared the kernel offline during it: the    *)
(* two tests of _connected, which no lock protects, never turn a call away *)
(* because of what was so before it began.                                 *)
SimulatedHasCause ==
  \A t \in Threads : got[t].kind \in {"simulated", "offline"} => t \in disturbed

(* Every call returns, whatever the kernel does: the time limit bounds the *)
(* wait and every way out of it releases the lock.                         *)
CallsReturn == \A t \in Threads : pc[t] = "test" ~> pc[t] = "idle"
=============================================================================
