---------------------------- MODULE BridgeProofs ----------------------------
(***************************************************************************)
(* Proofs about Bridge, for any number of threads, calls, sockets and stops*)
(* of the kernel.  The inductive invariant is Inv: beside the types it says*)
(* where the one outstanding call of a socket can be.                      *)
(***************************************************************************)
EXTENDS Bridge, TLAPS

(* What is under way on a socket: nothing, or one call, in one place; its  *)
(* request may be in pieces.                                               *)
Quiet(s) == requests[s] = <<>> /\ busy[s] = NoCall /\ answers[s] = <<>>
Only(s, c) ==
  \/ /\ \A i \in DOMAIN requests[s] : requests[s][i] = c
     /\ busy[s] = NoCall /\ answers[s] = <<>>
  \/ requests[s] = <<>> /\ busy[s] = c /\ answers[s] = <<>>
  \/ requests[s] = <<>> /\ busy[s] = NoCall /\ answers[s] = <<c>>

(* A thread receives on the socket it sent on, unless that one was closed. *)
ListensWhereSent ==
  \A t \in Threads :
    /\ pc[t] = "recv" => sentTo \in {sock, NoSocket}
    /\ pc[t] = "wait" => sentTo \in {on[t], NoSocket}

(* On a socket on which no call was given up there is at most the call of  *)
(* the thread that holds the lock, and only on the socket it sent it on.   *)
Expected(s) ==
  Quiet(s) \/ \E t \in Threads : /\ lock = t /\ pc[t] \in {"recv", "wait"}
                                 /\ sentTo = s /\ Only(s, Current(t))
UnsoiledIsExpected == \A s \in Sockets \ soiled : Expected(s)

(* Once the bridge was connected there is a socket.                        *)
SocketOpened ==
  /\ connected => sock # NoSocket
  /\ \A t \in Threads : pc[t] \in {"mark", "lock", "send", "recv", "wait"} => sock # NoSocket

Inv == BridgeTypeOK /\ SocketOpened /\ ListensWhereSent /\ UnsoiledIsExpected

(* A call that is about to find the bridge offline is disturbed.           *)
VerdictDisturbed ==
  \A t \in Threads : pc[t] = "verdict" /\ ~connected => t \in disturbed

OfflineInv == BridgeTypeOK /\ SocketOpened /\ VerdictDisturbed /\ SimulatedHasCause

-----------------------------------------------------------------------------
(* The types are kept.                                                     *)
LEMMA EndingTypes ==
  ASSUME NEW k \in {"none", "answer", "error", "offline", "simulated"}, NEW c \in Calls \cup {NoCall}
  PROVE  Ending(k, c) \in Endings
  BY DEF Ending, Endings

LEMMA InitTypes == Init => BridgeTypeOK
<1> SUFFICES ASSUME Init PROVE BridgeTypeOK
  OBVIOUS
<1>1. got \in [Threads -> Endings]
  <2>1. Ending("none", NoCall) \in Endings
    BY EndingTypes
  <2> QED
    BY <2>1 DEF Init
<1>2. call \in [Threads -> 0 .. MaxCalls]
  BY MaxCallsAssumption DEF Init
<1>3. /\ requests \in [Sockets -> Seq(Calls)] /\ answers \in [Sockets -> Seq(Calls)]
      /\ busy \in [Sockets -> Calls \cup {NoCall}]
  BY DEF Init
<1>4. /\ pc \in [Threads -> {"idle", "test", "connect", "mark", "verdict", "lock", "send", "recv",
                           "wait", "fail"}]
      /\ stage \in [Threads -> {"online", "raw"}]
      /\ on \in [Threads -> Sockets \cup {NoSocket}]
  BY DEF Init
<1>5. \A t \in Threads : /\ lock = t <=> pc[t] \in {"send", "recv", "wait"}
                         /\ on[t] # NoSocket <=> pc[t] = "wait"
  BY NoThreadAssumption DEF Init
<1> QED
  BY <1>1, <1>2, <1>3, <1>4, <1>5 DEF Init, BridgeTypeOK

LEMMA FreshIsFree ==
  ASSUME \E x \in Sockets : x # sock /\ ~Reading(x)
  PROVE  Fresh \in Sockets /\ Fresh # sock /\ ~Reading(Fresh)
  BY DEF Fresh

LEMMA StepOpened == BridgeTypeOK /\ SocketOpened /\ [Next]_vars => SocketOpened'
<1> SUFFICES ASSUME BridgeTypeOK, SocketOpened, [Next]_vars PROVE SocketOpened'
  OBVIOUS
<1> USE NoSocketAssumption DEF SocketOpened
<1>0. pc \in [Threads -> {"idle", "test", "connect", "mark", "verdict", "lock", "send", "recv",
                        "wait", "fail"}]
  BY DEF BridgeTypeOK
<1>1. ASSUME NEW t \in Threads, Begin(t) \/ Test(t) \/ Mark(t) \/ Verdict(t) PROVE SocketOpened'
  BY <1>0, <1>1 DEF Begin, Test, Mark, Verdict, End, Goto
<1>2. ASSUME NEW t \in Threads, Connect(t) PROVE SocketOpened'
  <2>1. Fresh \in Sockets
    BY <1>2, FreshIsFree DEF Connect
  <2> QED
    BY <1>2, <2>1 DEF Connect
<1>3. ASSUME NEW t \in Threads, ConnectFails(t) \/ GiveUp(t) PROVE SocketOpened'
  BY <1>0, <1>3 DEF ConnectFails, GiveUp, End, Goto
<1>4. ASSUME NEW t \in Threads, Acquire(t) \/ Send(t) \/ Recv(t) \/ Return(t) PROVE SocketOpened'
  BY <1>0, <1>4 DEF Acquire, Send, Recv, Return, End, Goto
<1>5. ASSUME NEW t \in Threads, SendFails(t) \/ Garbled(t) \/ NoAnswer(t) PROVE SocketOpened'
  BY <1>0, <1>5 DEF SendFails, Garbled, NoAnswer, Fail, Soil, Goto
<1>6. CASE KernelStep
  BY <1>6 DEF KernelStep, KernelReceives, KernelAnswers, KernelStops, KernelStarts, threadVars
<1>7. CASE UNCHANGED vars
  BY <1>7 DEF vars, threadVars
<1> QED
  BY <1>1, <1>2, <1>3, <1>4, <1>5, <1>6, <1>7 DEF Next, ThreadStep

LEMMA StepTypes == BridgeTypeOK /\ SocketOpened /\ [Next]_vars => BridgeTypeOK'
<1> SUFFICES ASSUME BridgeTypeOK, SocketOpened, [Next]_vars PROVE BridgeTypeOK'
  OBVIOUS
<1> USE NoThreadAssumption, NoSocketAssumption, MaxCallsAssumption, NoCallAssumption
<1>1. ASSUME NEW t \in Threads, Begin(t) PROVE BridgeTypeOK'
  BY <1>1 DEF Begin, Goto, BridgeTypeOK, kernelVars, Ending, Endings, Calls
<1>2. ASSUME NEW t \in Threads, Test(t) PROVE BridgeTypeOK'
  BY <1>2 DEF Test, Goto, BridgeTypeOK, kernelVars
<1>3. ASSUME NEW t \in Threads, Connect(t) PROVE BridgeTypeOK'
  <2>1. Fresh \in Sockets
    BY <1>3, FreshIsFree DEF Connect
  <2> QED
    BY <1>3, <2>1 DEF Connect, Goto, BridgeTypeOK
<1>4. ASSUME NEW t \in Threads, Mark(t) PROVE BridgeTypeOK'
  BY <1>4 DEF Mark, Goto, BridgeTypeOK, kernelVars
<1>5. ASSUME NEW t \in Threads, ConnectFails(t) PROVE BridgeTypeOK'
  BY <1>5 DEF ConnectFails, Goto, BridgeTypeOK, kernelVars
<1>6. ASSUME NEW t \in Threads, Verdict(t) PROVE BridgeTypeOK'
  <2>1. got' \in [Threads -> Endings]
    <3>1. got' = got \/ \E k \in {"simulated", "offline"} : got' = [got EXCEPT ![t] = Ending(k, NoCall)]
      BY <1>6 DEF Verdict, End
    <3>2. \A k \in {"simulated", "offline"} : Ending(k, NoCall) \in Endings
      BY EndingTypes
    <3>3. got \in [Threads -> Endings]
      BY DEF BridgeTypeOK
    <3> QED
      BY <3>1, <3>2, <3>3
  <2>2. /\ pc[t] = "verdict"
        /\ \E l \in {"test", "lock", "idle"} : pc' = [pc EXCEPT ![t] = l]
        /\ \E g \in {"online", "raw"} : stage' = [stage EXCEPT ![t] = g]
        /\ UNCHANGED <<connected, sock, lock, call, on, requests, busy, answers, alive, up, stops,
                       sentTo, soiled, disturbed>>
    BY <1>6 DEF Verdict, End, Goto, kernelVars
  <2> QED
    BY <2>1, <2>2 DEF BridgeTypeOK
<1>7. ASSUME NEW t \in Threads, Acquire(t) PROVE BridgeTypeOK'
  BY <1>7 DEF Acquire, Goto, BridgeTypeOK, kernelVars
<1>8. ASSUME NEW t \in Threads, Send(t) PROVE BridgeTypeOK'
  <2>1. Current(t) \in Calls /\ Pieces[Current(t)] \in Nat
    BY PiecesAssumption DEF Current, Calls, BridgeTypeOK
  <2>2. [i \in 1 .. Pieces[Current(t)] |-> Current(t)] \in Seq(Calls)
    BY <2>1
  <2> HIDE DEF Current
  <2>3. \A x \in Sockets : requests[x] \o [i \in 1 .. Pieces[Current(t)] |-> Current(t)] \in Seq(Calls)
    BY <2>2 DEF BridgeTypeOK
  <2>4. requests' \in [Sockets -> Seq(Calls)]
    BY <1>8, <2>3 DEF Send, BridgeTypeOK
  <2> QED
    BY <1>8, <2>4 DEF Send, Goto, BridgeTypeOK
<1>9. ASSUME NEW t \in Threads, SendFails(t) PROVE BridgeTypeOK'
  BY <1>9 DEF SendFails, Fail, Soil, Goto, BridgeTypeOK, kernelVars
<1>10. ASSUME NEW t \in Threads, Recv(t) PROVE BridgeTypeOK'
  BY <1>10 DEF Recv, Goto, BridgeTypeOK, SocketOpened, kernelVars
<1>11. ASSUME NEW t \in Threads, Return(t) PROVE BridgeTypeOK'
  <2>1. /\ answers[on[t]] \in Seq(Calls) /\ answers[on[t]] # <<>>
        /\ Head(answers[on[t]]) \in Calls
    BY <1>11 DEF Return, BridgeTypeOK
  <2>2. got' \in [Threads -> Endings]
    BY <1>11, <2>1, EndingTypes DEF Return, End, BridgeTypeOK
  <2> QED
    BY <1>11, <2>2 DEF Return, End, Goto, BridgeTypeOK
<1>12. ASSUME NEW t \in Threads, Garbled(t) PROVE BridgeTypeOK'
  BY <1>12 DEF Garbled, Fail, Soil, Goto, BridgeTypeOK
<1>13. ASSUME NEW t \in Threads, NoAnswer(t) PROVE BridgeTypeOK'
  BY <1>13 DEF NoAnswer, Fail, Soil, Goto, BridgeTypeOK, kernelVars
<1>14. ASSUME NEW t \in Threads, GiveUp(t) PROVE BridgeTypeOK'
  BY <1>14 DEF GiveUp, End, Ending, Endings, Goto, BridgeTypeOK, kernelVars
<1>15. ASSUME NEW s \in Sockets, KernelReceives(s) PROVE BridgeTypeOK'
  <2>1. PICK n \in 1 .. Len(requests[s]) :
           /\ busy' = [busy EXCEPT ![s] = requests[s][n]]
           /\ requests' = [requests EXCEPT ![s] = SubSeq(@, n + 1, Len(@))]
           /\ soiled' = IF n < Len(requests[s]) THEN soiled \cup {s} ELSE soiled
           /\ UNCHANGED <<connected, sock, lock, threadVars, answers, alive, up, stops, sentTo, disturbed>>
    BY <1>15 DEF KernelReceives
  <2>2. requests[s] \in Seq(Calls) /\ requests[s][n] \in Calls
    BY <2>1 DEF BridgeTypeOK
  <2>3. SubSeq(requests[s], n + 1, Len(requests[s])) \in Seq(Calls)
    BY <2>1, <2>2
  <2> QED
    BY <2>1, <2>2, <2>3 DEF BridgeTypeOK, threadVars
<1>16. ASSUME NEW s \in Sockets, KernelAnswers(s) PROVE BridgeTypeOK'
  BY <1>16 DEF KernelAnswers, BridgeTypeOK, threadVars
<1>17. CASE KernelStops
  <2>1. requests' \in [Sockets -> Seq(Calls)]
    BY <1>17 DEF KernelStops
  <2>2. busy' \in [Sockets -> Calls \cup {NoCall}]
    BY <1>17 DEF KernelStops
  <2> QED
    <3>1. UNCHANGED <<connected, sock, lock, pc, stage, call, on, got, answers, sentTo, soiled>>
      BY <1>17 DEF KernelStops, threadVars
    <3>2. alive' \subseteq Sockets /\ up' \in BOOLEAN
      BY <1>17, Zenon DEF KernelStops
    <3>3. stops' \in Nat
      BY <1>17 DEF KernelStops, BridgeTypeOK
    <3>4. disturbed' \subseteq Threads
      BY <1>17 DEF KernelStops, BridgeTypeOK
    <3> QED
      BY <2>1, <2>2, <3>1, <3>2, <3>3, <3>4 DEF BridgeTypeOK
<1>18. CASE KernelStarts
  BY <1>18 DEF KernelStarts, BridgeTypeOK, threadVars
<1>19. CASE UNCHANGED vars
  BY <1>19 DEF vars, threadVars, kernelVars, BridgeTypeOK
<1> QED
  BY <1>1, <1>2, <1>3, <1>4, <1>5, <1>6, <1>7, <1>8, <1>9, <1>10, <1>11, <1>12, <1>13, <1>14,
     <1>15, <1>16, <1>17, <1>18, <1>19 DEF Next, ThreadStep, KernelStep

-----------------------------------------------------------------------------
(* What the invariant says of program counters, in the form the steps use. *)
Labels == {"idle", "test", "connect", "mark", "verdict", "lock", "send", "recv", "wait", "fail"}

LEMMA TypeFacts ==
  ASSUME BridgeTypeOK
  PROVE  /\ pc \in [Threads -> Labels] /\ on \in [Threads -> Sockets \cup {NoSocket}]
         /\ sock \in Sockets \cup {NoSocket} /\ sentTo \in Sockets \cup {NoSocket}
         /\ soiled \subseteq Sockets
         /\ \A t \in Threads : lock = t <=> pc[t] \in {"send", "recv", "wait"}
         /\ \A t \in Threads : on[t] # NoSocket <=> pc[t] = "wait"
  BY DEF BridgeTypeOK, Labels

LEMMA StepListens ==
  BridgeTypeOK /\ SocketOpened /\ ListensWhereSent /\ [Next]_vars => ListensWhereSent'
<1> SUFFICES ASSUME BridgeTypeOK, SocketOpened, ListensWhereSent, [Next]_vars PROVE ListensWhereSent'
  OBVIOUS
<1> USE NoSocketAssumption DEF ListensWhereSent
<1>0. /\ pc \in [Threads -> Labels] /\ on \in [Threads -> Sockets \cup {NoSocket}]
      /\ \A t \in Threads : lock = t <=> pc[t] \in {"send", "recv", "wait"}
      /\ \A t \in Threads : on[t] # NoSocket <=> pc[t] = "wait"
  BY TypeFacts
<1>1. ASSUME NEW t \in Threads, Begin(t) \/ Test(t) \/ Mark(t) \/ Verdict(t) \/ Acquire(t)
      PROVE  ListensWhereSent'
  BY <1>0, <1>1 DEF Begin, Test, Mark, Verdict, Acquire, End, Goto, Labels
<1>2. ASSUME NEW t \in Threads, Connect(t) PROVE ListensWhereSent'
  <2> SUFFICES ASSUME NEW u \in Threads
               PROVE  /\ pc'[u] = "recv" => sentTo' \in {sock', NoSocket}
                      /\ pc'[u] = "wait" => sentTo' \in {on'[u], NoSocket}
    OBVIOUS
  <2>1. /\ pc[u] = pc'[u] \/ pc'[u] = "mark"
        /\ on' = on /\ sentTo' = IF Reading(sentTo) /\ sentTo \in Sockets THEN sentTo ELSE NoSocket
    BY <1>0, <1>2 DEF Connect, Goto
  <2>2. pc[u] = "recv" => ~ \E x \in Sockets : Reading(x)
    BY <1>0 DEF Reading
  <2> QED
    BY <2>1, <2>2
<1>3. ASSUME NEW t \in Threads, ConnectFails(t) \/ GiveUp(t) PROVE ListensWhereSent'
  BY <1>0, <1>3 DEF ConnectFails, GiveUp, End, Goto, Labels
<1>4. ASSUME NEW t \in Threads, Send(t) \/ Recv(t) PROVE ListensWhereSent'
  BY <1>0, <1>4 DEF Send, Recv, Goto, Labels
<1>5. ASSUME NEW t \in Threads, Return(t) PROVE ListensWhereSent'
  BY <1>0, <1>5 DEF Return, End, Goto, Labels
<1>6. ASSUME NEW t \in Threads, SendFails(t) \/ Garbled(t) \/ NoAnswer(t) PROVE ListensWhereSent'
  BY <1>0, <1>6 DEF SendFails, Garbled, NoAnswer, Fail, Soil, Goto, Labels
<1>7. CASE KernelStep
  BY <1>7 DEF KernelStep, KernelReceives, KernelAnswers, KernelStops, KernelStarts, threadVars
<1>8. CASE UNCHANGED vars
  BY <1>8 DEF vars, threadVars
<1> QED
  BY <1>1, <1>2, <1>3, <1>4, <1>5, <1>6, <1>7, <1>8 DEF Next, ThreadStep

(* The heart of the argument: a socket gets its call from the thread that  *)
(* holds the lock, and is quiet or soiled when the lock is released.       *)
LEMMA StepExpected == Inv /\ [Next]_vars => UnsoiledIsExpected'
<1> SUFFICES ASSUME Inv, [Next]_vars PROVE UnsoiledIsExpected'
  OBVIOUS
<1>0. /\ pc \in [Threads -> Labels] /\ on \in [Threads -> Sockets \cup {NoSocket}]
      /\ sock \in Sockets \cup {NoSocket} /\ sentTo \in Sockets \cup {NoSocket}
      /\ soiled \subseteq Sockets
      /\ \A t \in Threads : lock = t <=> pc[t] \in {"send", "recv", "wait"}
      /\ \A t \in Threads : on[t] # NoSocket <=> pc[t] = "wait"
  BY TypeFacts DEF Inv
<1>a. /\ call \in [Threads -> 0 .. MaxCalls] /\ busy \in [Sockets -> Calls \cup {NoCall}]
      /\ requests \in [Sockets -> Seq(Calls)] /\ answers \in [Sockets -> Seq(Calls)]
  BY DEF Inv, BridgeTypeOK
<1>b. \A s \in Sockets \ soiled : Expected(s)
  BY DEF Inv, UnsoiledIsExpected
<1>c. \A t \in Threads : /\ pc[t] = "recv" => sentTo \in {sock, NoSocket}
                         /\ pc[t] = "wait" => sentTo \in {on[t], NoSocket}
  BY DEF Inv, ListensWhereSent
<1> SUFFICES ASSUME NEW s \in Sockets, s \notin soiled' PROVE Expected(s)'
  BY DEF UnsoiledIsExpected
<1>1. ASSUME NEW t \in Threads, Begin(t) \/ Test(t) \/ Mark(t) \/ Verdict(t) \/ Acquire(t)
      PROVE  Expected(s)'
  <2>0. /\ s \notin soiled /\ UNCHANGED <<requests, busy, answers, sentTo>>
        /\ pc[t] \notin {"send", "recv", "wait"} /\ lock' = IF pc[t] = "lock" THEN t ELSE lock
        /\ pc[t] = "lock" => lock = NoThread
        /\ \E l \in Labels : pc' = [pc EXCEPT ![t] = l]
        /\ call' = call \/ call' = [call EXCEPT ![t] = @ + 1]
    BY <1>1 DEF Begin, Test, Mark, Verdict, Acquire, End, Goto, Labels, kernelVars
  <2>1. /\ s \notin soiled /\ UNCHANGED <<requests, busy, answers, sentTo>>
        /\ \A u \in Threads : lock = u /\ pc[u] \in {"recv", "wait"} => lock' = u /\ pc'[u] = pc[u]
        /\ \A u \in Threads : lock = u => call'[u] = call[u]
    BY <1>0, <1>a, <2>0, NoThreadAssumption
  <2> QED
    BY <1>b, <2>1 DEF Expected, Quiet, Only, Current
<1>2. ASSUME NEW t \in Threads, Connect(t) PROVE Expected(s)'
  <2>1. CASE Reading(s)
    <3>1. /\ s \notin soiled /\ requests'[s] = requests[s] /\ busy'[s] = busy[s]
          /\ answers'[s] = answers[s] /\ (sentTo = s => sentTo' = s)
          /\ lock' = lock /\ call' = call
          /\ \A u \in Threads : pc[u] \in {"recv", "wait"} => pc'[u] = pc[u]
      BY <1>0, <1>a, <1>2, <2>1 DEF Connect, Goto, Labels
    <3> QED
      BY <1>b, <3>1 DEF Expected, Quiet, Only, Current
  <2>2. CASE ~Reading(s)
    BY <1>2, <2>2 DEF Connect, Expected, Quiet
  <2> QED
    BY <2>1, <2>2
<1>3. ASSUME NEW t \in Threads, ConnectFails(t) \/ GiveUp(t) PROVE Expected(s)'
  <2>1. /\ s \notin soiled /\ UNCHANGED <<requests, busy, answers, sentTo, lock, call>>
        /\ \A u \in Threads : pc[u] \in {"recv", "wait"} => pc'[u] = pc[u]
    BY <1>0, <1>3 DEF ConnectFails, GiveUp, End, Goto, Labels, kernelVars
  <2> QED
    BY <1>b, <2>1 DEF Expected, Quiet, Only, Current
<1>4. ASSUME NEW t \in Threads, Send(t) PROVE Expected(s)'
  <2>1. Quiet(s)
    BY <1>0, <1>b, <1>4 DEF Send, Expected
  <2> DEFINE pieces == [i \in 1 .. Pieces[Current(t)] |-> Current(t)]
  <2>2. /\ lock' = t /\ pc'[t] = "recv" /\ sentTo' = sock /\ UNCHANGED <<busy, answers, call>>
        /\ requests'[s] = IF s = sock THEN requests[s] \o pieces ELSE requests[s]
    BY <1>0, <1>a, <1>4 DEF Send, Goto
  <2>3. Current(t) \in Calls /\ Pieces[Current(t)] \in Nat
    BY <1>a, PiecesAssumption DEF Current, Calls
  <2>4. <<>> \o pieces = pieces /\ \A i \in DOMAIN pieces : pieces[i] = Current(t)
    BY <2>3
  <2> HIDE DEF pieces
  <2>5. Current(t)' = Current(t)
    BY <2>2 DEF Current
  <2>6. CASE s = sock
    BY <2>1, <2>2, <2>4, <2>5, <2>6 DEF Expected, Quiet, Only
  <2>7. CASE s # sock
    BY <2>1, <2>2, <2>7 DEF Expected, Quiet
  <2> QED
    BY <2>6, <2>7
<1>5. ASSUME NEW t \in Threads, Recv(t) PROVE Expected(s)'
  <2>1. /\ s \notin soiled /\ UNCHANGED <<requests, busy, answers, sentTo, lock, call>>
        /\ \A u \in Threads : pc[u] \in {"recv", "wait"} => pc'[u] \in {"recv", "wait"}
    BY <1>0, <1>5 DEF Recv, Goto, Labels, kernelVars
  <2> QED
    BY <1>b, <2>1 DEF Expected, Quiet, Only, Current
<1>6. ASSUME NEW t \in Threads, Return(t) PROVE Expected(s)'
  <2>1. /\ s \notin soiled /\ lock = t /\ UNCHANGED <<requests, busy>>
        /\ answers' = [answers EXCEPT ![on[t]] = <<>>]
    BY <1>0, <1>6 DEF Return
  <2>2. CASE Quiet(s)
    BY <1>a, <2>1, <2>2 DEF Expected, Quiet
  <2>3. CASE ~Quiet(s)
    <3>1. sentTo = s /\ Only(s, Current(t))
      BY <1>b, <2>1, <2>3 DEF Expected
    <3>2. on[t] = s
      BY <1>c, <1>6, <3>1, NoSocketAssumption DEF Return
    <3>3. answers[s] # <<>>
      BY <1>6, <3>2 DEF Return
    <3> QED
      BY <1>a, <2>1, <3>1, <3>2, <3>3 DEF Expected, Quiet, Only
  <2> QED
    BY <2>2, <2>3
<1>7. ASSUME NEW t \in Threads, SendFails(t) \/ Garbled(t) \/ NoAnswer(t) PROVE Expected(s)'
  <2>1. /\ s \notin soiled /\ lock = t /\ UNCHANGED <<requests, busy>>
        /\ pc[t] = "send" \/ sentTo # s
        /\ answers'[s] \in {answers[s], <<>>}
    BY <1>0, <1>a, <1>7 DEF SendFails, Garbled, NoAnswer, Fail, Soil, kernelVars
  <2>2. Quiet(s)
    BY <1>b, <2>1 DEF Expected
  <2> QED
    BY <2>1, <2>2 DEF Expected, Quiet
<1>8. ASSUME NEW x \in Sockets, KernelReceives(x) PROVE Expected(s)'
  <2>1. PICK n \in 1 .. Len(requests[x]) :
           /\ busy[x] = NoCall
           /\ busy' = [busy EXCEPT ![x] = requests[x][n]]
           /\ requests' = [requests EXCEPT ![x] = SubSeq(@, n + 1, Len(@))]
           /\ soiled' = IF n < Len(requests[x]) THEN soiled \cup {x} ELSE soiled
           /\ UNCHANGED <<sentTo, lock, pc, call, answers>>
    BY <1>8 DEF KernelReceives, threadVars
  <2>2. s \notin soiled
    BY <2>1
  <2>3. CASE x # s
    <3>1. requests'[s] = requests[s] /\ busy'[s] = busy[s] /\ answers'[s] = answers[s]
      BY <1>a, <2>1, <2>3
    <3> QED
      BY <1>b, <2>1, <2>2, <3>1 DEF Expected, Quiet, Only, Current
  <2>4. CASE x = s
    <3>1. n = Len(requests[s]) /\ n \in Nat /\ n > 0 /\ requests[s] \in Seq(Calls) /\ requests[s] # <<>>
      BY <1>a, <2>1, <2>4
    <3>2. PICK u \in Threads : /\ lock = u /\ pc[u] \in {"recv", "wait"}
                              /\ sentTo = s /\ Only(s, Current(u))
      BY <1>b, <2>2, <3>1 DEF Expected, Quiet
    <3>3. requests[s][n] = Current(u) /\ answers[s] = <<>>
      BY <3>1, <3>2 DEF Only
    <3>4. SubSeq(requests[s], n + 1, Len(requests[s])) = <<>>
      BY <3>1
    <3>5. requests'[s] = <<>> /\ busy'[s] = Current(u) /\ answers'[s] = <<>>
      BY <1>a, <2>1, <2>4, <3>3, <3>4
    <3> QED
      BY <2>1, <3>2, <3>5 DEF Expected, Only, Current
  <2> QED
    BY <2>3, <2>4
<1>11. ASSUME NEW x \in Sockets, KernelAnswers(x) PROVE Expected(s)'
  <2>0. s \notin soiled /\ UNCHANGED <<sentTo, lock, pc, call>>
    BY <1>11 DEF KernelAnswers, threadVars
  <2>1. CASE x # s
    <3>1. requests'[s] = requests[s] /\ busy'[s] = busy[s] /\ answers'[s] = answers[s]
      BY <1>a, <1>11, <2>1 DEF KernelAnswers
    <3> QED
      BY <1>b, <2>0, <3>1 DEF Expected, Quiet, Only, Current
  <2>2. CASE x = s
    <3>1. PICK u \in Threads : /\ lock = u /\ pc[u] \in {"recv", "wait"}
                              /\ sentTo = s /\ Only(s, Current(u))
      BY <1>b, <1>11, <2>0, <2>2 DEF KernelAnswers, Expected, Quiet
    <3>2. requests[s] = <<>> /\ busy[s] = Current(u) /\ answers[s] = <<>>
      BY <1>11, <2>2, <3>1 DEF KernelAnswers, Only
    <3>3. requests'[s] = <<>> /\ busy'[s] = NoCall /\ answers'[s] = <<Current(u)>>
      BY <1>a, <1>11, <2>2, <3>2 DEF KernelAnswers
    <3> QED
      BY <2>0, <3>1, <3>3 DEF Expected, Only, Current
  <2> QED
    BY <2>1, <2>2
<1>9. CASE KernelStops
  <2>1. /\ s \notin soiled /\ UNCHANGED <<answers, sentTo, lock, pc, call>>
        /\ requests'[s] = <<>> /\ busy'[s] = NoCall
    BY <1>9 DEF KernelStops, threadVars
  <2> QED
    BY <1>b, <2>1 DEF Expected, Quiet, Only, Current
<1>10. CASE KernelStarts \/ UNCHANGED vars
  <2>1. s \notin soiled /\ UNCHANGED <<requests, busy, answers, sentTo, lock, pc, call>>
    BY <1>10 DEF KernelStarts, vars, threadVars, kernelVars
  <2> QED
    BY <1>b, <2>1 DEF Expected, Quiet, Only, Current
<1> QED
  BY <1>1, <1>2, <1>3, <1>4, <1>5, <1>6, <1>7, <1>8, <1>9, <1>10, <1>11
  DEF Next, ThreadStep, KernelStep

LEMMA InitInv == Init => Inv
<1> SUFFICES ASSUME Init PROVE Inv
  OBVIOUS
<1>1. BridgeTypeOK
  BY InitTypes
<1>2. SocketOpened /\ ListensWhereSent
  BY DEF Init, SocketOpened, ListensWhereSent
<1>3. UnsoiledIsExpected
  BY DEF Init, UnsoiledIsExpected, Expected, Quiet
<1> QED
  BY <1>1, <1>2, <1>3 DEF Inv

LEMMA StepInv == Inv /\ [Next]_vars => Inv'
  BY StepTypes, StepOpened, StepListens, StepExpected DEF Inv

-----------------------------------------------------------------------------
(* The types are kept, and the lock is held exactly around send and recv.  *)
THEOREM BridgeTypes == Spec => []BridgeTypeOK
<1>1. Inv => BridgeTypeOK
  BY DEF Inv
<1> QED
  BY <1>1, InitInv, StepInv, PTL DEF Spec

(* No thread is given the answer of another call but on a socket on which  *)
(* some call was given up or some request came in more than one piece:     *)
(* these two are the only causes of stray answers.                         *)
THEOREM StrayAnswersExplained == Spec => StrayHasCause
<1>1. ASSUME Inv, NEW t \in Threads, Return(t)
      PROVE  got'[t].of = Current(t) \/ on[t] \in soiled
  <2> SUFFICES ASSUME on[t] \notin soiled PROVE got'[t].of = Current(t)
    OBVIOUS
  <2>1. on[t] \in Sockets /\ lock = t /\ answers[on[t]] # <<>>
    BY <1>1, TypeFacts DEF Inv, Return
  <2>2. Only(on[t], Current(t))
    BY <1>1, <2>1 DEF Inv, UnsoiledIsExpected, Expected, Quiet
  <2>3. answers[on[t]] = <<Current(t)>>
    BY <2>1, <2>2 DEF Only
  <2>4. got \in [Threads -> Endings]
    BY <1>1 DEF Inv, BridgeTypeOK
  <2>5. got'[t] = Ending("answer", Head(answers[on[t]]))
    BY <1>1, <2>4 DEF Return, End
  <2> QED
    BY <2>3, <2>5 DEF Ending
<1>2. Inv => [\A t \in Threads :
                Return(t) => got'[t].of = Current(t) \/ on[t] \in soiled]_vars
  BY <1>1
<1> QED
  BY <1>2, InitInv, StepInv, PTL DEF Spec, StrayHasCause

-----------------------------------------------------------------------------
LEMMA StepOffline == OfflineInv /\ [Next]_vars => VerdictDisturbed' /\ SimulatedHasCause'
<1> SUFFICES ASSUME OfflineInv, [Next]_vars,
                    NEW u \in Threads
             PROVE  /\ pc'[u] = "verdict" /\ ~connected' => u \in disturbed'
                    /\ got'[u].kind \in {"simulated", "offline"} => u \in disturbed'
  BY DEF VerdictDisturbed, SimulatedHasCause
<1> DEFINE Goal == /\ pc'[u] = "verdict" /\ ~connected' => u \in disturbed'
                   /\ got'[u].kind \in {"simulated", "offline"} => u \in disturbed'
<1>0. /\ pc \in [Threads -> Labels] /\ got \in [Threads -> Endings]
      /\ pc[u] = "verdict" /\ ~connected => u \in disturbed
      /\ got[u].kind \in {"simulated", "offline"} => u \in disturbed
  BY TypeFacts DEF OfflineInv, BridgeTypeOK, VerdictDisturbed, SimulatedHasCause
<1>1. ASSUME NEW t \in Threads, Begin(t) PROVE Goal
  BY <1>0, <1>1 DEF Begin, Goto, Ending, kernelVars
<1>2. ASSUME NEW t \in Threads, Test(t) \/ Acquire(t) \/ Mark(t) PROVE Goal
  BY <1>0, <1>2 DEF Test, Acquire, Mark, Goto, kernelVars
<1>3. ASSUME NEW t \in Threads, Connect(t) PROVE Goal
  BY <1>0, <1>3 DEF Connect, Goto
<1>4. ASSUME NEW t \in Threads, Verdict(t) PROVE Goal
  BY <1>0, <1>4 DEF Verdict, End, Ending, Goto, kernelVars
<1>5. ASSUME NEW t \in Threads, ConnectFails(t) PROVE Goal
  <2>1. /\ disturbed' = disturbed \cup {v \in Threads : v = t \/ pc[v] # "idle"}
        /\ UNCHANGED got
        /\ pc' = [pc EXCEPT ![t] = "verdict"]
    BY <1>5 DEF ConnectFails, Goto, kernelVars
  <2> QED
    BY <1>0, <2>1
<1>6. ASSUME NEW t \in Threads, Send(t) \/ Recv(t) PROVE Goal
  BY <1>0, <1>6 DEF Send, Recv, Goto, kernelVars
<1>7. ASSUME NEW t \in Threads, Return(t) PROVE Goal
  BY <1>0, <1>7 DEF Return, End, Ending, Goto
<1>8. ASSUME NEW t \in Threads, SendFails(t) \/ Garbled(t) \/ NoAnswer(t) PROVE Goal
  BY <1>0, <1>8 DEF SendFails, Garbled, NoAnswer, Fail, Goto, kernelVars
<1>9. ASSUME NEW t \in Threads, GiveUp(t) PROVE Goal
  <2>1. /\ disturbed' = disturbed \cup {v \in Threads \ {t} : pc[v] # "idle"}
        /\ pc' = [pc EXCEPT ![t] = "idle"]
        /\ got' = [got EXCEPT ![t] = Ending("error", NoCall)]
    BY <1>9 DEF GiveUp, End, Goto, kernelVars
  <2> QED
    BY <1>0, <2>1 DEF Ending
<1>10. CASE KernelStep
  <2>1. UNCHANGED <<pc, got, connected, disturbed>>
    BY <1>10 DEF KernelStep, KernelReceives, KernelAnswers, KernelStops, KernelStarts, threadVars
  <2> QED
    BY <1>0, <2>1
<1>11. CASE UNCHANGED vars
  BY <1>0, <1>11 DEF vars, threadVars, kernelVars
<1> QED
  BY <1>1, <1>2, <1>3, <1>4, <1>5, <1>6, <1>7, <1>8, <1>9, <1>10, <1>11 DEF Next, ThreadStep

(* A call is simulated, or refused as offline, only if during it a connect *)
(* of its own failed or another thread declared the kernel offline: the    *)
(* tests of _connected outside the lock turn away no call without a cause. *)
THEOREM SimulationExplained == Spec => []SimulatedHasCause
<1>1. Init => OfflineInv
  <2>1. Init => VerdictDisturbed /\ SimulatedHasCause
    BY DEF Init, VerdictDisturbed, SimulatedHasCause, Ending
  <2> QED
    BY <2>1, InitInv DEF OfflineInv, Inv
<1>2. OfflineInv /\ [Next]_vars => OfflineInv'
  BY StepTypes, StepOpened, StepOffline DEF OfflineInv
<1>3. OfflineInv => SimulatedHasCause
  BY DEF OfflineInv
<1> QED
  BY <1>1, <1>2, <1>3, PTL DEF Spec

-----------------------------------------------------------------------------
(* How far a call is from its end: is_kernel_online, then _syscall_raw up  *)
(* to the lock, then what it does with the lock.                           *)
ToGo(t) ==
  LET round == IF stage[t] = "online" THEN 4 ELSE 0
  IN CASE pc[t] = "test" -> 9 + round
       [] pc[t] = "connect" -> 8 + round
       [] pc[t] = "mark" -> 7 + round
       [] pc[t] = "verdict" -> 6 + round
       [] pc[t] = "lock" -> 5
       [] pc[t] = "send" -> 4
       [] pc[t] = "recv" -> 3
       [] pc[t] = "wait" -> 2
       [] pc[t] = "fail" -> 1
       [] OTHER -> 0

(* Every step of a call takes it nearer its end, whether the kernel        *)
(* answers or not, and no step of another thread or of the kernel sends it *)
(* back.                                                                   *)
CallsAdvance ==
  [][\A t \in Threads : pc[t] # "idle" =>
       /\ ToGo(t)' <= ToGo(t)
       /\ ThreadStep(t) => ToGo(t)' < ToGo(t)]_vars

(* A step of a thread is a step towards the end of its own call.           *)
LEMMA OwnStep ==
  ASSUME BridgeTypeOK, NEW t \in Threads, ThreadStep(t)
  PROVE  ToGo(t)' < ToGo(t)
<1>0. pc \in [Threads -> {"idle", "test", "connect", "mark", "verdict", "lock", "send", "recv",
                         "wait", "fail"}]
      /\ stage \in [Threads -> {"online", "raw"}]
  BY DEF BridgeTypeOK
<1>1. CASE Test(t)
  BY <1>0, <1>1 DEF Test, Goto, ToGo
<1>2. CASE Connect(t)
  BY <1>0, <1>2 DEF Connect, Goto, ToGo
<1>3. CASE Mark(t)
  BY <1>0, <1>3 DEF Mark, Goto, ToGo
<1>4. CASE ConnectFails(t)
  BY <1>0, <1>4 DEF ConnectFails, Goto, ToGo
<1>5. CASE Verdict(t)
  <2>1. CASE connected /\ stage[t] = "online"
    BY <1>0, <1>5, <2>1 DEF Verdict, Goto, ToGo
  <2>2. CASE connected /\ stage[t] = "raw"
    BY <1>0, <1>5, <2>2 DEF Verdict, Goto, ToGo
  <2>3. CASE ~connected
    BY <1>0, <1>5, <2>3 DEF Verdict, End, Goto, ToGo
  <2> QED
    BY <1>0, <2>1, <2>2, <2>3
<1>6. CASE Acquire(t)
  BY <1>0, <1>6 DEF Acquire, Goto, ToGo
<1>7. CASE Send(t) \/ Recv(t)
  BY <1>0, <1>7 DEF Send, Recv, Goto, ToGo
<1>8. CASE SendFails(t) \/ Garbled(t) \/ NoAnswer(t)
  BY <1>0, <1>8 DEF SendFails, Garbled, NoAnswer, Fail, Goto, ToGo
<1>9. CASE Return(t) \/ GiveUp(t)
  BY <1>0, <1>9 DEF Return, GiveUp, End, Goto, ToGo
<1> QED
  BY <1>1, <1>2, <1>3, <1>4, <1>5, <1>6, <1>7, <1>8, <1>9 DEF ThreadStep

(* It leaves the other threads where they are.                             *)
LEMMA OthersStay ==
  ASSUME BridgeTypeOK, NEW u \in Threads, Begin(u) \/ ThreadStep(u),
         NEW t \in Threads, t # u
  PROVE  pc'[t] = pc[t] /\ stage'[t] = stage[t]
  BY DEF BridgeTypeOK, Begin, ThreadStep, Test, Connect, Mark, ConnectFails, Verdict, Acquire,
         Send, SendFails, Recv, Return, Garbled, NoAnswer, GiveUp, Fail, End, Goto

(* The safety half of CallsReturn: a thread has at most thirteen steps to  *)
(* take from the start of a call, whatever the kernel does meanwhile.      *)
THEOREM CallsGetOn == Spec => CallsAdvance
<1>1. ASSUME BridgeTypeOK, [Next]_vars, NEW t \in Threads, pc[t] # "idle"
      PROVE  /\ ToGo(t)' <= ToGo(t)
             /\ ThreadStep(t) => ToGo(t)' < ToGo(t)
  <2>1. ToGo(t) \in Nat
    BY DEF ToGo
  <2>2. CASE ThreadStep(t)
    <3>1. ToGo(t)' \in Nat
      BY DEF ToGo
    <3> QED
      BY <1>1, <2>1, <2>2, <3>1, OwnStep
  <2>3. CASE ~ThreadStep(t)
    <3>1. pc'[t] = pc[t] /\ stage'[t] = stage[t]
      <4>1. ~Begin(t)
        BY <1>1 DEF Begin
      <4>2. CASE \E u \in Threads : Begin(u) \/ ThreadStep(u)
        BY <1>1, <2>3, <4>1, <4>2, OthersStay
      <4>3. CASE KernelStep
        BY <4>3 DEF KernelStep, KernelReceives, KernelAnswers, KernelStops, KernelStarts, threadVars
      <4>4. CASE UNCHANGED vars
        BY <4>4 DEF vars, threadVars
      <4> QED
        BY <1>1, <4>2, <4>3, <4>4 DEF Next
    <3>2. ToGo(t)' = ToGo(t)
      BY <3>1 DEF ToGo
    <3> QED
      BY <2>1, <2>3, <3>2
  <2> QED
    BY <2>2, <2>3
<1>2. BridgeTypeOK /\ [Next]_vars
        => [\A t \in Threads : pc[t] # "idle" =>
              /\ ToGo(t)' <= ToGo(t)
              /\ ThreadStep(t) => ToGo(t)' < ToGo(t)]_vars
  BY <1>1
<1> QED
  BY <1>2, BridgeTypes, PTL DEF Spec, CallsAdvance
=============================================================================
