--------------------------- MODULE ChatTurnsProofs --------------------------
(***************************************************************************)
(* Proofs about ChatTurns and the ReactLoop inside it, for any number of   *)
(* turns, steps, attempts, clears and any even window.                     *)
(***************************************************************************)
EXTENDS ChatTurns, TLAPS

Places == {"idle", "manage", "context", "loop", "append_model", "answer"}

(* A turn under way has a number, one of those given out.                  *)
Numbered == \A t \in Turns : Open(t) => number[t] \in 1 .. started

(* Only a loop that runs has messages.                                     *)
QuietOff == \A t \in Turns : at[t] \in {"off", "done"} => dialog[t] = <<>>

TypeInv == TurnTypeOK /\ QuietOff /\ Numbered

(* What the loop may do in a step, whoever takes it.                       *)
LoopMoves(t) ==
  (at[t] = "off" /\ StartLoop(t)) \/ StopLoop(t) \/ LoopStep(t) \/ UNCHANGED loopVars

-----------------------------------------------------------------------------
(* The loop.                                                               *)
LEMMA Appended ==
  ASSUME NEW S, NEW q \in Seq(S), NEW x \in S
  PROVE  /\ Append(q, x) \in Seq(S) /\ Len(Append(q, x)) = Len(q) + 1
         /\ DOMAIN Append(q, x) = 1 .. Len(q) + 1
         /\ \A i \in DOMAIN q : i \in DOMAIN Append(q, x) /\ Append(q, x)[i] = q[i]
         /\ Append(q, x)[Len(q) + 1] = x
         /\ \A i \in DOMAIN Append(q, x) : i \in DOMAIN q \/ i = Len(q) + 1
  OBVIOUS

(* The dialog of one turn, of n messages so far.                           *)
Alternates(d) == \A i \in DOMAIN d : d[i] = IF i % 2 = 1 THEN "model" ELSE "user"
InStep(l, n, d) ==
  /\ Alternates(d)
  /\ l = "call" => Len(d) = 2 * (n - 1)
  /\ l \in Parsed => Len(d) = 2 * n - 1
  /\ l \in {"off", "done"} => d = <<>>

LEMMA DialogInStep ==
  DialogAlternates /\ QuietOff <=> \A t \in Turns : InStep(at[t], step[t], dialog[t])
  BY DEF DialogAlternates, QuietOff, InStep, Alternates

LEMMA ModelNext ==
  ASSUME NEW d \in Seq(Roles), NEW n \in Nat, NEW k \in Parsed, InStep("call", n, d)
  PROVE  InStep(k, n, Append(d, "model"))
<1>1. "model" \in Roles /\ Len(d) \in Nat
  BY DEF Roles
<1>2. /\ Len(Append(d, "model")) = 2 * n - 1 /\ Len(d) = 2 * (n - 1)
  BY <1>1, Appended DEF InStep
<1>3. (2 * n - 1) % 2 = 1
  OBVIOUS
<1>4. Alternates(Append(d, "model"))
  BY <1>1, <1>2, <1>3, Appended DEF InStep, Alternates
<1>5. k \notin {"call", "off", "done"}
  BY DEF Parsed
<1> QED
  BY <1>2, <1>4, <1>5 DEF InStep

LEMMA UserNext ==
  ASSUME NEW d \in Seq(Roles), NEW n \in Nat, NEW k \in Parsed, InStep(k, n, d)
  PROVE  InStep("call", n + 1, Append(d, "user"))
<1>1. "user" \in Roles /\ Len(d) \in Nat
  BY DEF Roles
<1>2. /\ Len(Append(d, "user")) = 2 * n /\ Len(d) = 2 * n - 1
  BY <1>1, Appended DEF InStep
<1>3. (2 * n) % 2 = 0
  OBVIOUS
<1>4. Alternates(Append(d, "user"))
  BY <1>1, <1>2, <1>3, Appended DEF InStep, Alternates
<1>5. "call" \notin Parsed
  BY DEF Parsed
<1> QED
  BY <1>2, <1>4, <1>5 DEF InStep

LEMMA LoopTypes ==
  ASSUME LoopTypeOK, QuietOff, NEW t \in Turns, LoopMoves(t)
  PROVE  /\ LoopTypeOK' /\ QuietOff'
         /\ \A u \in Turns \ {t} : at'[u] = at[u]
         /\ LoopStep(t) => at[t] # "off" /\ at'[t] # "off"
<1> USE StepsAssumption, AttemptsAssumption
<1>0. /\ at \in [Turns -> {"off", "call", "done"} \cup Parsed]
      /\ step \in [Turns -> 0 .. MaxSteps] /\ attempt \in [Turns -> 0 .. MaxAttempts]
      /\ dialog \in [Turns -> Seq(Roles)] /\ answer \in [Turns -> Answers]
      /\ \A u \in Turns : InStep(at[u], step[u], dialog[u])
  BY DialogInStep DEF LoopTypeOK
<1> DEFINE Kept ==
      /\ at' \in [Turns -> {"off", "call", "done"} \cup Parsed]
      /\ step' \in [Turns -> 0 .. MaxSteps] /\ attempt' \in [Turns -> 0 .. MaxAttempts]
      /\ dialog' \in [Turns -> Seq(Roles)] /\ answer' \in [Turns -> Answers]
      /\ InStep(at'[t], step'[t], dialog'[t])
      /\ \A u \in Turns \ {t} : at'[u] = at[u] /\ step'[u] = step[u] /\ dialog'[u] = dialog[u]
<1>1. ASSUME NEW w \in {"off", "done"}, NEW a \in Answers, LeaveLoop(t, w, a) PROVE Kept /\ at'[t] = w
  <2>1. w \notin Parsed /\ w # "call"
    BY DEF Parsed
  <2>2. InStep(w, 0, <<>>)
    BY <2>1 DEF InStep, Alternates
  <2> QED
    BY <1>0, <1>1, <2>2 DEF LeaveLoop
<1>2. ASSUME at[t] = "off", StartLoop(t) PROVE Kept
  <2>1. InStep("call", 1, <<>>)
    BY DEF InStep, Alternates, Parsed
  <2>2. dialog[t] = <<>>
    BY <1>2 DEF QuietOff
  <2> QED
    BY <1>0, <1>2, <2>1, <2>2 DEF StartLoop
<1>3. ASSUME StopLoop(t) PROVE Kept
  BY <1>1, <1>3 DEF StopLoop, Answers
<1>4. ASSUME NEW a \in {"text", "empty"}, Finish(t, a) PROVE Kept /\ at'[t] # "off"
  BY <1>1, <1>4 DEF Finish, Answers
<1>5. ASSUME Retry(t) PROVE Kept /\ at[t] # "off" /\ at'[t] # "off"
  BY <1>0, <1>5 DEF Retry
<1>6. ASSUME NEW k \in Parsed, ModelSays(t, k) PROVE Kept /\ at[t] # "off" /\ at'[t] # "off"
  <2>1. /\ at[t] = "call" /\ at' = [at EXCEPT ![t] = k] /\ UNCHANGED <<step, answer>>
        /\ attempt' = [attempt EXCEPT ![t] = 0]
        /\ dialog' = [dialog EXCEPT ![t] = Append(dialog[t], "model")]
    BY <1>6 DEF ModelSays, Say
  <2>2. InStep(k, step[t], Append(dialog[t], "model"))
    BY <1>0, <2>1, ModelNext
  <2>3. Append(dialog[t], "model") \in Seq(Roles) /\ k # "off"
    BY <1>0, Appended DEF Roles, Parsed
  <2> QED
    BY <1>0, <2>1, <2>2, <2>3
<1>7. ASSUME Observe(t) \/ Correct(t), step[t] # MaxSteps
      PROVE  Kept /\ at[t] # "off" /\ at'[t] # "off"
  <2>1. /\ at[t] \in Parsed /\ at' = [at EXCEPT ![t] = "call"] /\ UNCHANGED answer
        /\ step' = [step EXCEPT ![t] = step[t] + 1] /\ attempt' = [attempt EXCEPT ![t] = 1]
        /\ dialog' = [dialog EXCEPT ![t] = Append(dialog[t], "user")]
    BY <1>7 DEF Observe, Correct, Reply, Say, NextStep, Parsed
  <2>2. InStep("call", step[t] + 1, Append(dialog[t], "user"))
    BY <1>0, <2>1, UserNext
  <2>3. Append(dialog[t], "user") \in Seq(Roles) /\ at[t] # "off"
    BY <1>0, <2>1, Appended DEF Roles, Parsed
  <2>4. step[t] + 1 \in 0 .. MaxSteps
    BY <1>0, <1>7
  <2> QED
    BY <1>0, <2>1, <2>2, <2>3, <2>4
<1>8. ASSUME LoopStep(t) PROVE Kept /\ at[t] # "off" /\ at'[t] # "off"
  <2>1. CASE Final(t)
    BY <1>4, <2>1 DEF Final
  <2>2. CASE (Observe(t) \/ Correct(t)) /\ step[t] = MaxSteps
    BY <1>4, <2>2 DEF Observe, Correct, Reply
  <2> QED
    BY <1>5, <1>6, <1>7, <1>8, <2>1, <2>2 DEF LoopStep
<1>9. ASSUME UNCHANGED loopVars PROVE Kept
  BY <1>0, <1>9 DEF loopVars
<1>10. Kept
  BY <1>2, <1>3, <1>8, <1>9 DEF LoopMoves
<1>11. LoopTypeOK' /\ QuietOff' /\ \A u \in Turns \ {t} : at'[u] = at[u]
  <2>1. \A u \in Turns : InStep(at'[u], step'[u], dialog'[u])
    BY <1>0, <1>10
  <2>2. DialogAlternates' /\ QuietOff'
    BY <2>1 DEF DialogAlternates, QuietOff, InStep, Alternates
  <2> QED
    BY <1>10, <2>2 DEF LoopTypeOK
<1> QED
  BY <1>8, <1>11

(* How the loop's part fares with each of its moves.                       *)
LoopKept == LoopTypeOK' /\ QuietOff'

LEMMA LoopStarts ==
  ASSUME LoopTypeOK, QuietOff, NEW t \in Turns, at[t] = "off", StartLoop(t)
  PROVE  LoopKept /\ at' = [at EXCEPT ![t] = "call"]
  BY LoopTypes DEF LoopKept, LoopMoves, StartLoop

LEMMA LoopStops ==
  ASSUME LoopTypeOK, QuietOff, NEW t \in Turns, StopLoop(t)
  PROVE  LoopKept /\ at' = [at EXCEPT ![t] = "off"]
  BY LoopTypes DEF LoopKept, LoopMoves, StopLoop, LeaveLoop

LEMMA LoopGoesOn ==
  ASSUME LoopTypeOK, QuietOff, NEW t \in Turns, at[t] # "off", LoopStep(t)
  PROVE  LoopKept /\ \A u \in Turns : at'[u] = "off" <=> at[u] = "off"
  BY LoopTypes DEF LoopKept, LoopMoves

LEMMA LoopRests ==
  ASSUME LoopTypeOK, QuietOff, UNCHANGED loopVars
  PROVE  LoopKept /\ at' = at
<1>1. at' = at /\ step' = step /\ attempt' = attempt /\ dialog' = dialog /\ answer' = answer
  BY DEF loopVars
<1>2. DialogAlternates' /\ QuietOff'
  BY <1>1, Zenon DEF LoopTypeOK, DialogAlternates, QuietOff
<1>3. LoopTypeOK'
  BY <1>1, <1>2 DEF LoopTypeOK
<1> QED
  BY <1>1, <1>2, <1>3 DEF LoopKept

-----------------------------------------------------------------------------
(* The lists and the window.                                               *)
LEMMA Halves ==
  ASSUME NEW n \in Nat
  PROVE  /\ \A i \in Nat : 2 * i <= n <=> i <= n \div 2
         /\ n \div 2 \in Nat
  OBVIOUS

LEMMA UpTo ==
  ASSUME NEW i \in Nat \ {0}, NEW n \in Nat, i <= n
  PROVE  i \in 1 .. n
  OBVIOUS

LEMMA OldPairs ==
  ASSUME NEW l \in Lists, lists[l] \in Seq(Messages), Len(lists[l]) > MaxActive,
         NEW pair \in Pairs(Old(l))
  PROVE  \E i \in 1 .. Len(lists[l]) \div 2 : /\ pair = <<lists[l][2 * i - 1], lists[l][2 * i]>>
                                             /\ 2 * i \in 1 .. Len(lists[l])
<1>1. /\ MaxActive \in Nat /\ Len(lists[l]) \in Nat
      /\ Len(Old(l)) = Len(lists[l]) - MaxActive
      /\ \A j \in 1 .. Len(Old(l)) : Old(l)[j] = lists[l][j]
  BY ActiveAssumption DEF Old
<1>2. PICK i \in 1 .. Len(Old(l)) \div 2 : pair = <<Old(l)[2 * i - 1], Old(l)[2 * i]>>
  BY DEF Pairs
<1>3. Len(Old(l)) \in Nat
  BY <1>1
<1>4. i \in Nat \ {0} /\ 2 * i <= Len(Old(l))
  <2>1. i \in Nat \ {0} /\ i <= Len(Old(l)) \div 2
    BY <1>3, Halves
  <2> QED
    BY <1>3, <2>1, Halves
<1>5. 2 * i - 1 \in 1 .. Len(Old(l)) /\ 2 * i \in 1 .. Len(Old(l)) /\ 2 * i \in 1 .. Len(lists[l])
  BY <1>1, <1>3, <1>4
<1>a. 2 * i <= Len(lists[l]) /\ i \in Nat
  BY <1>1, <1>4, <1>5
<1>b. i <= Len(lists[l]) \div 2
  BY <1>1, <1>a, Halves
<1>c. Len(lists[l]) \div 2 \in Nat
  BY <1>1, Halves
<1>6. i \in 1 .. Len(lists[l]) \div 2
  BY <1>4, <1>b, <1>c, UpTo
<1> QED
  BY <1>1, <1>2, <1>5, <1>6

LEMMA CutTypes ==
  ASSUME TypeInv, NEW t \in Turns, Long(list[t]), CutWindow(t)
  PROVE  /\ offloaded' \subseteq Messages \X Messages
         /\ list' \in [Turns -> Lists \cup {Copy}]
         /\ fate' \in [Numbers -> Fates]
<1>1. /\ list[t] \in Lists /\ lists[list[t]] \in Seq(Messages) /\ Len(lists[list[t]]) > MaxActive
      /\ offloaded \subseteq Messages \X Messages
  BY DEF TypeInv, TurnTypeOK, Long
<1>2. ASSUME NEW pair \in Pairs(Old(list[t])) PROVE pair \in Messages \X Messages
  <2>1. PICK i \in 1 .. Len(lists[list[t]]) \div 2 :
          /\ pair = <<lists[list[t]][2 * i - 1], lists[list[t]][2 * i]>>
          /\ 2 * i \in 1 .. Len(lists[list[t]])
    BY <1>1, OldPairs
  <2>2. 2 * i - 1 \in 1 .. Len(lists[list[t]])
    BY <1>1, <2>1
  <2> QED
    BY <1>1, <2>1, <2>2
<1>3. offloaded' \subseteq Messages \X Messages
  BY <1>1, <1>2 DEF CutWindow
<1>4. /\ list' \in [Turns -> Lists \cup {Copy}] /\ fate' \in [Numbers -> Fates]
  BY DEF CutWindow, TypeInv, TurnTypeOK, Fates
<1> QED
  BY <1>3, <1>4

LEMMA AddTypes ==
  ASSUME TypeInv, NEW t \in Turns, Open(t), NEW role \in {"user", "model"}, AddTo(t, role)
  PROVE  lists' \in [Lists -> Seq(Messages)] /\ mixed' \in BOOLEAN
<1>1. number[t] \in Numbers /\ lists \in [Lists -> Seq(Messages)] /\ list[t] \in Lists \cup {Copy}
      /\ mixed \in BOOLEAN
  <2>1. started \in 0 .. MaxTurns /\ number[t] \in 1 .. started /\ number[t] \in 0 .. MaxTurns
    BY DEF TypeInv, TurnTypeOK, Numbered
  <2> QED
    BY <2>1 DEF TypeInv, TurnTypeOK, Numbers
<1>2. Msg(number[t], role) \in Messages
  BY <1>1 DEF Msg, Messages
<1>3. lists' \in [Lists -> Seq(Messages)]
  BY <1>1, <1>2, Appended DEF AddTo
<1>4. mixed' \in BOOLEAN
  BY <1>1 DEF AddTo
<1> QED
  BY <1>3, <1>4

-----------------------------------------------------------------------------
(* The turns.                                                              *)
States == {"READY", "RUNNING", "WAITING"}

(* All but the loop of the type invariant.                                 *)
TurnPart ==
  /\ lists \in [Lists -> Seq(Messages)] /\ current \in Lists
  /\ pc \in [Turns -> Places] /\ kind \in [Turns -> {"chat", "stream"}]
  /\ number \in [Turns -> 0 .. MaxTurns] /\ list \in [Turns -> Lists \cup {Copy}]
  /\ started \in 0 .. MaxTurns /\ process \in States
  /\ memory \subseteq Numbers /\ offloaded \subseteq Messages \X Messages
  /\ fate \in [Numbers -> Fates]
  /\ mixed \in BOOLEAN /\ stranded \in BOOLEAN /\ late \in BOOLEAN

LoopInTurn == \A t \in Turns : pc[t] = "loop" <=> at[t] # "off"

LEMMA TypeParts == TypeInv <=> LoopTypeOK /\ QuietOff /\ TurnPart /\ LoopInTurn /\ Numbered
  BY DEF TypeInv, TurnTypeOK, TurnPart, LoopInTurn, Places, States

LEMMA StateTypes ==
  ASSUME process \in States, late \in BOOLEAN, NEW q \in Seq(States), NEW n \in 0 .. Len(q), SetState(q, n)
  PROVE  process' \in States /\ late' \in BOOLEAN
<1>1. process' \in States
  BY DEF SetState
<1>2. late' = late \/ late' = (late \/ \E i \in DOMAIN q : i # n /\ q[i] = "WAITING")
  BY DEF SetState
<1>3. (late \/ \E i \in DOMAIN q : i # n /\ q[i] = "WAITING") \in BOOLEAN
  OBVIOUS
<1> QED
  BY <1>1, <1>2, <1>3

LEMMA StatesTypes ==
  ASSUME process \in States, late \in BOOLEAN, NEW q \in Seq(States), SetStates(q)
  PROVE  process' \in States /\ late' \in BOOLEAN
  BY StateTypes DEF SetStates

LEMMA EndTypes ==
  ASSUME TypeInv, NEW t \in Turns, NEW end \in {"answered", "failed"}, NEW left \in BOOLEAN,
         EndTurn(t, end, left), UNCHANGED <<lists, current, started, memory, offloaded, mixed>>,
         process' \in States, late' \in BOOLEAN
  PROVE  TypeInv'
<1>0. LoopTypeOK /\ QuietOff /\ TurnPart /\ LoopInTurn /\ Numbered
  BY TypeParts
<1>1. /\ pc' = [pc EXCEPT ![t] = "idle"] /\ number' = [number EXCEPT ![t] = 0]
      /\ kind' = [kind EXCEPT ![t] = "chat"] /\ list' = [list EXCEPT ![t] = Copy]
      /\ stranded' = left
      /\ fate' = [fate EXCEPT ![number[t]] = IF @ = "open" THEN end ELSE @]
  BY DEF EndTurn, Goto
<1>2. LoopKept /\ at' = [at EXCEPT ![t] = "off"]
  BY <1>0, LoopStops DEF EndTurn
<1>a. 0 \in 0 .. MaxTurns
  BY BoundsAssumption
<1>b. end \in Fates
  BY DEF Fates
<1>3. fate' \in [Numbers -> Fates]
  BY <1>0, <1>1, <1>b DEF TurnPart
<1>4. TurnPart'
  BY <1>0, <1>1, <1>a, <1>3 DEF TurnPart, Places
<1>5. LoopInTurn'
  BY <1>0, <1>1, <1>2 DEF TurnPart, LoopTypeOK, LoopInTurn
<1>6. Numbered'
  BY <1>0, <1>1 DEF TurnPart, Places, Numbered, Open
<1> QED
  BY <1>2, <1>4, <1>5, <1>6 DEF LoopKept, TypeInv, TurnTypeOK, TurnPart, LoopInTurn, Places, States

LEMMA InitTypes == Init => TypeInv
<1> SUFFICES ASSUME Init PROVE TypeInv
  OBVIOUS
<1>1. LoopTypeOK /\ QuietOff
  <2>1. <<>> \in Seq(Roles)
    OBVIOUS
  <2>2. /\ at \in [Turns -> {"off", "call", "done"} \cup Parsed] /\ answer \in [Turns -> Answers]
        /\ step \in [Turns -> 0 .. MaxSteps] /\ attempt \in [Turns -> 0 .. MaxAttempts]
        /\ dialog \in [Turns -> Seq(Roles)]
    BY <2>1, StepsAssumption, AttemptsAssumption DEF Init, LoopInit, Answers
  <2>3. DialogAlternates /\ QuietOff
    BY DEF Init, LoopInit, DialogAlternates, QuietOff, Parsed
  <2> QED
    BY <2>2, <2>3 DEF LoopTypeOK
<1>2. lists \in [Lists -> Seq(Messages)] /\ 1 \in Lists
  BY BoundsAssumption DEF Init, Lists
<1>a. 0 \in 0 .. MaxTurns /\ Copy \in Lists \cup {Copy} /\ "none" \in Fates
  BY BoundsAssumption DEF Fates
<1>b. pc \in [Turns -> Places] /\ kind \in [Turns -> {"chat", "stream"}]
  BY DEF Init, Places
<1>c. /\ number \in [Turns -> 0 .. MaxTurns] /\ list \in [Turns -> Lists \cup {Copy}]
      /\ fate \in [Numbers -> Fates]
  BY <1>a DEF Init
<1>3. TurnPart
  BY <1>2, <1>a, <1>b, <1>c DEF Init, TurnPart, States
<1>4. LoopInTurn /\ Numbered
  BY DEF Init, LoopInit, LoopInTurn, Numbered, Open
<1> QED
  BY <1>1, <1>3, <1>4, TypeParts

LEMMA NumberKnown ==
  ASSUME TypeInv, NEW t \in Turns, Open(t)
  PROVE  number[t] \in Numbers
<1>1. started \in 0 .. MaxTurns /\ number[t] \in 1 .. started
  BY DEF TypeInv, TurnTypeOK, Numbered
<1> QED
  BY <1>1, BoundsAssumption DEF Numbers

(* A step of the turn t that goes from the place a to the place b, its     *)
(* loop being off in both.                                                 *)
LEMMA PlaceTypes ==
  ASSUME TypeInv, NEW t \in Turns, NEW b \in Places \ {"loop"}, Goto(t, b), TurnPart', LoopKept,
         pc[t] # "loop" => UNCHANGED loopVars, pc[t] = "loop" => at' = [at EXCEPT ![t] = "off"],
         Open(t), UNCHANGED <<number, started>>
  PROVE  TypeInv'
<1>0. TurnPart /\ LoopInTurn /\ Numbered /\ LoopTypeOK
  BY TypeParts
<1>1. \A u \in Turns : at'[u] = IF u = t THEN "off" ELSE at[u]
  BY <1>0 DEF LoopInTurn, LoopTypeOK, loopVars
<1>2. \A u \in Turns : pc'[u] = IF u = t THEN b ELSE pc[u]
  BY <1>0 DEF TurnPart, Goto
<1>3. LoopInTurn' /\ Numbered'
  BY <1>0, <1>1, <1>2 DEF LoopInTurn, Numbered, Open
<1> QED
  BY <1>3 DEF LoopKept, TypeInv, TurnTypeOK, TurnPart, LoopInTurn, Places, States

LEMMA StepTypes == TypeInv /\ [Next]_vars => TypeInv'
<1> SUFFICES ASSUME TypeInv, [Next]_vars PROVE TypeInv'
  OBVIOUS
<1> USE DEF Places
<1>0. LoopTypeOK /\ QuietOff /\ TurnPart /\ LoopInTurn /\ Numbered
  BY TypeParts
<1> DEFINE Kept == LoopKept /\ TurnPart' /\ LoopInTurn' /\ Numbered'
<1>k. Kept => TypeInv'
  BY DEF LoopKept, TypeInv, TurnTypeOK, TurnPart, LoopInTurn, States
<1>s. process \in States /\ late \in BOOLEAN
  BY <1>0 DEF TurnPart
<1>q. /\ <<"RUNNING", "WAITING">> \in Seq(States) /\ <<"WAITING", "READY">> \in Seq(States)
      /\ <<"WAITING">> \in Seq(States) /\ <<"RUNNING">> \in Seq(States) /\ Len(<<"RUNNING">>) = 1
  BY DEF States
<1>1. ASSUME NEW t \in Turns, NEW k \in {"chat", "stream"}, Begin(t, k) PROVE Kept
  <2>1. started' = started + 1 /\ started' \in Numbers /\ started' \in 0 .. MaxTurns
    BY <1>0, <1>1, BoundsAssumption DEF Begin, TurnPart, Numbers
  <2>2. /\ pc[t] = "idle" /\ pc' = [pc EXCEPT ![t] = "manage"] /\ kind' = [kind EXCEPT ![t] = k]
        /\ number' = [number EXCEPT ![t] = started'] /\ list' = [list EXCEPT ![t] = current]
        /\ SetStates(<<"RUNNING", "WAITING">>) /\ fate' = [fate EXCEPT ![started'] = "open"]
        /\ UNCHANGED <<loopVars, lists, current, memory, offloaded, mixed, stranded>>
    BY <1>1 DEF Begin, Goto
  <2>s. process' \in States /\ late' \in BOOLEAN
    BY <1>s, <1>q, <2>2, StatesTypes
  <2>3. TurnPart'
    BY <1>0, <2>1, <2>2, <2>s DEF TurnPart, Fates
  <2>4. LoopKept /\ at' = at
    BY <1>0, <2>2, LoopRests
  <2>5. LoopInTurn'
    BY <1>0, <2>2, <2>4 DEF TurnPart, LoopInTurn
  <2>6. Numbered'
    BY <1>0, <2>1, <2>2 DEF TurnPart, Numbered, Open, Numbers
  <2> QED
    BY <2>3, <2>4, <2>5, <2>6
<1>2. ASSUME NEW t \in Turns, ManageContext(t) PROVE TypeInv'
  <2>s. process' \in States /\ late' \in BOOLEAN
    BY <1>2, <1>s, <1>q, StatesTypes DEF ManageContext
  <2>1. /\ pc[t] = "manage" /\ Goto(t, "context")
        /\ ((Long(list[t]) /\ CutWindow(t)) \/ UNCHANGED <<offloaded, list, fate>>)
        /\ UNCHANGED <<loopVars, lists, current, kind, number, started, memory, mixed, stranded>>
    BY <1>2 DEF ManageContext
  <2>2. /\ offloaded' \subseteq Messages \X Messages /\ list' \in [Turns -> Lists \cup {Copy}]
        /\ fate' \in [Numbers -> Fates]
    BY <1>0, <2>1, CutTypes DEF TurnPart
  <2>3. TurnPart'
    BY <1>0, <2>1, <2>2, <2>s DEF TurnPart, Goto
  <2> QED
    BY <1>0, <2>1, <2>3, LoopRests, PlaceTypes DEF Open
<1>3. ASSUME NEW t \in Turns, StartAgent(t) PROVE Kept
  <2>1. /\ pc[t] = "context" /\ pc' = [pc EXCEPT ![t] = "loop"]
        /\ ((Long(list[t]) /\ CutWindow(t)) \/ UNCHANGED <<offloaded, list, fate>>) /\ StartLoop(t)
        /\ UNCHANGED <<lists, current, kind, number, started, process, memory, mixed, late, stranded>>
    BY <1>3 DEF StartAgent, Goto
  <2>2. /\ offloaded' \subseteq Messages \X Messages /\ list' \in [Turns -> Lists \cup {Copy}]
        /\ fate' \in [Numbers -> Fates]
    BY <1>0, <2>1, CutTypes DEF TurnPart
  <2>3. TurnPart'
    BY <1>0, <2>1, <2>2 DEF TurnPart
  <2>4. LoopKept /\ at' = [at EXCEPT ![t] = "call"]
    BY <1>0, <2>1, LoopStarts DEF LoopInTurn
  <2>5. LoopInTurn'
    BY <1>0, <2>1, <2>4 DEF TurnPart, LoopInTurn, LoopTypeOK
  <2>6. Numbered'
    BY <1>0, <2>1 DEF TurnPart, Numbered, Open
  <2> QED
    BY <2>3, <2>4, <2>5, <2>6
<1>4. ASSUME NEW t \in Turns, Loop(t) PROVE Kept
  <2>1. LoopKept /\ \A u \in Turns : at'[u] = "off" <=> at[u] = "off"
    BY <1>0, <1>4, LoopGoesOn DEF Loop, LoopInTurn
  <2>2. UNCHANGED turnVars
    BY <1>4 DEF Loop
  <2> QED
    BY <1>0, <2>1, <2>2 DEF turnVars, TurnPart, LoopInTurn, Numbered, Open
<1>5. ASSUME NEW t \in Turns, EmptyStream(t) \/ Abandon(t) \/ RaiseBefore(t) PROVE TypeInv'
  <2>1. process' \in States /\ late' \in BOOLEAN
    <3>1. CASE UNCHANGED <<process, late>>
      BY <1>s, <3>1
    <3>2. CASE SetStates(<<"WAITING">>)
      BY <1>s, <1>q, <3>2, StatesTypes
    <3> QED
      BY <1>5, <3>1, <3>2 DEF EmptyStream, Abandon, RaiseBefore
  <2>2. /\ EndTurn(t, "failed", TRUE)
        /\ UNCHANGED <<lists, current, started, memory, offloaded, mixed>>
    BY <1>5 DEF EmptyStream, Abandon, RaiseBefore
  <2> QED
    BY <2>1, <2>2, EndTypes
<1>6. ASSUME NEW t \in Turns, RaiseAfter(t), kind[t] # "stream" PROVE TypeInv'
  BY <1>0, <1>6, EndTypes DEF RaiseAfter, TurnPart
<1>7. ASSUME NEW t \in Turns, RaiseAfter(t), kind[t] = "stream" PROVE TypeInv'
  <2>1. /\ pc[t] = "loop" /\ Goto(t, "answer") /\ StopLoop(t)
        /\ fate' = [fate EXCEPT ![number[t]] = IF @ = "open" THEN "failed" ELSE @]
        /\ UNCHANGED <<kind, number, list, stranded, lists, current, started, process, memory,
                      offloaded, mixed, late>>
    BY <1>7 DEF RaiseAfter
  <2>2. LoopKept /\ at' = [at EXCEPT ![t] = "off"]
    BY <1>0, <2>1, LoopStops
  <2>3. fate' \in [Numbers -> Fates]
    BY <1>0, <2>1 DEF TurnPart, Fates
  <2>4. TurnPart'
    BY <1>0, <2>1, <2>3 DEF TurnPart, Goto
  <2> QED
    BY <2>1, <2>2, <2>4, PlaceTypes DEF Open
<1>8. ASSUME NEW t \in Turns, Save(t) PROVE TypeInv'
  <2>1. /\ pc[t] = "loop" /\ Goto(t, "append_model") /\ StopLoop(t) /\ AddTo(t, "user")
        /\ memory' = memory \cup {number[t]} /\ Open(t)
        /\ UNCHANGED <<current, kind, number, list, started, process, offloaded, fate, late,
                      stranded>>
    BY <1>8 DEF Save, Open
  <2>2. LoopKept /\ at' = [at EXCEPT ![t] = "off"]
    BY <1>0, <2>1, LoopStops
  <2>3. lists' \in [Lists -> Seq(Messages)] /\ mixed' \in BOOLEAN /\ number[t] \in Numbers
    BY <2>1, AddTypes, NumberKnown
  <2>4. TurnPart'
    BY <1>0, <2>1, <2>3 DEF TurnPart, Goto
  <2> QED
    BY <2>1, <2>2, <2>4, PlaceTypes
<1>9. ASSUME NEW t \in Turns, AppendModel(t) PROVE TypeInv'
  <2>1. /\ pc[t] = "append_model" /\ Goto(t, "answer") /\ AddTo(t, "model") /\ Open(t)
        /\ UNCHANGED <<loopVars, current, kind, number, list, started, process, memory, offloaded,
                      fate, late, stranded>>
    BY <1>9 DEF AppendModel, Open
  <2>3. lists' \in [Lists -> Seq(Messages)] /\ mixed' \in BOOLEAN
    BY <2>1, AddTypes
  <2>4. TurnPart'
    BY <1>0, <2>1, <2>3 DEF TurnPart, Goto
  <2> QED
    BY <1>0, <2>1, <2>4, LoopRests, PlaceTypes
<1>10. ASSUME NEW t \in Turns, Answer(t) PROVE TypeInv'
  <2>1. PICK n \in {0, 1} : SetState(<<"RUNNING">>, n) /\ EndTurn(t, "answered", n = 0)
    BY <1>10 DEF Answer
  <2>2. n \in 0 .. Len(<<"RUNNING">>) /\ (n = 0) \in BOOLEAN
    BY <1>q
  <2>3. process' \in States /\ late' \in BOOLEAN
    BY <1>s, <1>q, <2>1, <2>2, StateTypes
  <2> QED
    BY <1>10, <2>1, <2>2, <2>3, EndTypes DEF Answer
<1>11. CASE Clear
  <2>1. current' \in Lists
    BY <1>0, <1>11, BoundsAssumption DEF Clear, TurnPart, Lists
  <2>2. fate' \in [Numbers -> Fates]
    BY <1>0, <1>11 DEF Clear, TurnPart, Fates
  <2>3. TurnPart'
    BY <1>0, <1>11, <2>1, <2>2 DEF Clear, TurnPart
  <2>4. LoopKept /\ at' = at
    BY <1>0, <1>11, LoopRests DEF Clear
  <2> QED
    BY <1>0, <1>11, <1>k, <2>3, <2>4 DEF Clear, LoopInTurn, Numbered, Open
<1>12. CASE UNCHANGED vars
  <2>1. LoopKept /\ at' = at
    BY <1>0, <1>12, LoopRests DEF vars
  <2>2. UNCHANGED turnVars
    BY <1>12 DEF vars
  <2> QED
    BY <1>0, <1>k, <2>1, <2>2 DEF turnVars, TurnPart, LoopInTurn, Numbered, Open
<1>13. CASE LateWait
  <2>1. LoopKept /\ at' = at
    BY <1>0, <1>13, LoopRests DEF LateWait
  <2>2. TurnPart'
    BY <1>0, <1>13 DEF LateWait, TurnPart, States
  <2> QED
    BY <1>0, <1>13, <1>k, <2>1, <2>2 DEF LateWait, LoopInTurn, Numbered, Open
<1> QED
  BY <1>1, <1>2, <1>3, <1>4, <1>5, <1>6, <1>7, <1>8, <1>9, <1>10, <1>11, <1>12, <1>13, <1>k
  DEF Next, TurnStep

(* The types are kept in every interleaving of turns and of /clear, the    *)
(* dialog of each turn's loop alternates, and a loop runs exactly while its*)
(* turn is in it, however the turn ends.                                   *)
THEOREM TurnTypes == Spec => []TurnTypeOK
<1>1. TypeInv => TurnTypeOK
  BY DEF TypeInv
<1> QED
  BY <1>1, InitTypes, StepTypes, PTL DEF Spec

-----------------------------------------------------------------------------
(* A process that waits has a turn that runs, or the last one left it so,  *)
(* its proc_run lost included, or a proc_wait given up came late.          *)
THEOREM WaitingExplained == Spec => []WaitingHasCause
<1>1. Init => WaitingHasCause
  BY DEF Init, WaitingHasCause
<1>2. TypeInv /\ WaitingHasCause /\ [Next]_vars => WaitingHasCause'
  <2> SUFFICES ASSUME TypeInv, WaitingHasCause, [Next]_vars PROVE WaitingHasCause'
    OBVIOUS
  <2>0. pc \in [Turns -> Places]
    BY DEF TypeInv, TurnTypeOK, Places
  <2> DEFINE Moved(t, b) == pc' = [pc EXCEPT ![t] = b]
  <2>1. ASSUME NEW t \in Turns, NEW b, b # "idle", Moved(t, b) PROVE WaitingHasCause'
    BY <2>0, <2>1 DEF WaitingHasCause, Open
  <2>2. ASSUME UNCHANGED <<pc, process, stranded>> PROVE WaitingHasCause'
    BY <2>2 DEF WaitingHasCause, Open
  <2>3. ASSUME stranded' \/ process' = "RUNNING" PROVE WaitingHasCause'
    BY <2>3 DEF WaitingHasCause
  <2>4. ASSUME NEW t \in Turns, TurnStep(t) PROVE WaitingHasCause'
    <3>1. CASE EmptyStream(t) \/ Abandon(t) \/ RaiseBefore(t)
      BY <2>3, <3>1 DEF EmptyStream, Abandon, RaiseBefore, EndTurn
    <3>2. CASE RaiseAfter(t)
      BY <2>1, <2>3, <3>2 DEF RaiseAfter, EndTurn, Goto
    <3>3. CASE Answer(t)
      <4>1. PICK n \in {0, 1} : SetState(<<"RUNNING">>, n) /\ EndTurn(t, "answered", n = 0)
        BY <3>3 DEF Answer
      <4>2. CASE n = 0
        BY <2>3, <4>1, <4>2 DEF EndTurn
      <4>3. CASE n = 1
        <5>1. process' = "RUNNING"
          BY <4>1, <4>3 DEF SetState
        <5> QED
          BY <2>3, <5>1
      <4> QED
        BY <4>2, <4>3
    <3>4. CASE Loop(t)
      BY <2>2, <3>4 DEF Loop, turnVars
    <3>5. CASE ManageContext(t) \/ StartAgent(t) \/ Save(t) \/ AppendModel(t)
      BY <2>1, <3>5 DEF ManageContext, StartAgent, Save, AppendModel, Goto
    <3> QED
      BY <2>4, <3>1, <3>2, <3>3, <3>4, <3>5 DEF TurnStep
  <2>5. ASSUME NEW t \in Turns, NEW k \in {"chat", "stream"}, Begin(t, k) PROVE WaitingHasCause'
    BY <2>1, <2>5 DEF Begin, Goto
  <2>6. CASE Clear \/ UNCHANGED vars
    BY <2>2, <2>6 DEF Clear, vars, turnVars
  <2>7. CASE LateWait
    BY <2>3, <2>7 DEF LateWait
  <2> QED
    BY <2>4, <2>5, <2>6, <2>7 DEF Next
<1> QED
  BY <1>1, <1>2, InitTypes, StepTypes, PTL DEF Spec

-----------------------------------------------------------------------------
(* The history.  A turn whose fate is still open has the current list in   *)
(* its hands, and once it has appended its answer, the list has it.        *)
InHand == \A t \in Turns : Open(t) /\ fate[number[t]] = "open" => list[t] = current
Told   == \A t \in Turns : pc[t] = "answer" /\ fate[number[t]] = "open" => Recorded(number[t])
Stored == \A n \in Numbers : fate[n] = "answered" => Recorded(n)

HistoryInv == TypeInv /\ InHand /\ Told /\ Stored

LEMMA Grown ==
  ASSUME TypeInv, NEW t \in Turns, Open(t), NEW role \in {"user", "model"}, AddTo(t, role),
         current' = current
  PROVE  /\ \A n \in Numbers : Recorded(n) => Recorded(n)'
         /\ \A n \in Numbers : n = number[t] /\ list[t] = current /\ role = "model" => Recorded(n)'
<1>1. /\ lists \in [Lists -> Seq(Messages)] /\ current \in Lists /\ number[t] \in Numbers
      /\ list[t] \in Lists \cup {Copy} /\ Copy \notin Lists
  BY NumberKnown, BoundsAssumption DEF TypeInv, TurnTypeOK, Lists, Copy
<1>2. Msg(number[t], role) \in Messages
  BY <1>1 DEF Msg, Messages
<1>3. CASE list[t] = current
  <2>1. /\ lists[current] \in Seq(Messages)
        /\ lists'[current] = Append(lists[current], Msg(number[t], role))
    BY <1>1, <1>3 DEF AddTo
  <2>2. /\ \A i \in DOMAIN lists[current] :
              i \in DOMAIN lists'[current] /\ lists'[current][i] = lists[current][i]
        /\ Len(lists[current]) + 1 \in DOMAIN lists'[current]
        /\ lists'[current][Len(lists[current]) + 1] = Msg(number[t], role)
    BY <1>2, <2>1, Appended
  <2> QED
    BY <2>2 DEF Recorded
<1>4. CASE list[t] # current
  BY <1>1, <1>4 DEF AddTo, Recorded
<1> QED
  BY <1>3, <1>4

LEMMA StepHistory == HistoryInv /\ [Next]_vars => InHand' /\ Told' /\ Stored'
<1> SUFFICES ASSUME HistoryInv, [Next]_vars PROVE InHand' /\ Told' /\ Stored'
  OBVIOUS
<1>0. /\ pc \in [Turns -> Places] /\ number \in [Turns -> 0 .. MaxTurns] /\ TypeInv
      /\ list \in [Turns -> Lists \cup {Copy}] /\ fate \in [Numbers -> Fates] /\ started \in Nat
      /\ \A t \in Turns : Open(t) => number[t] \in Numbers /\ number[t] <= started
  <2>1. \A t \in Turns : Open(t) => number[t] \in Numbers
    BY NumberKnown DEF HistoryInv
  <2> QED
    BY <2>1, BoundsAssumption DEF HistoryInv, TypeInv, TurnTypeOK, Places, Numbered
<1>1. ASSUME NEW t \in Turns, NEW k \in {"chat", "stream"}, Begin(t, k)
      PROVE  InHand' /\ Told' /\ Stored'
  <2>1. /\ started' = started + 1 /\ started' \in Numbers
        /\ pc' = [pc EXCEPT ![t] = "manage"] /\ number' = [number EXCEPT ![t] = started']
        /\ list' = [list EXCEPT ![t] = current] /\ fate' = [fate EXCEPT ![started'] = "open"]
        /\ UNCHANGED <<lists, current>>
    BY <1>0, <1>1, BoundsAssumption DEF Begin, Goto, Numbers
  <2>2. \A u \in Turns \ {t} : Open(u) => fate'[number[u]] = fate[number[u]]
    BY <1>0, <2>1
  <2>3. \A n : Recorded(n)' <=> Recorded(n)
    BY <2>1 DEF Recorded
  <2>4. InHand'
    BY <1>0, <2>1, <2>2 DEF HistoryInv, InHand, Open
  <2>5. Told'
    BY <1>0, <2>1, <2>2, <2>3 DEF HistoryInv, Told, Open
  <2>6. Stored'
    BY <1>0, <2>1, <2>3 DEF HistoryInv, Stored
  <2> QED
    BY <2>4, <2>5, <2>6
<1>2. ASSUME NEW t \in Turns, NEW b \in {"context", "loop"}, Goto(t, b), Open(t),
             CutWindow(t) \/ UNCHANGED <<list, fate>>, UNCHANGED <<lists, current, number>>
      PROVE  InHand' /\ Told' /\ Stored'
  <2>1. \A n \in Numbers : fate'[n] = "open" => fate[n] = "open"
    BY <1>0, <1>2 DEF CutWindow
  <2>2. \A n \in Numbers : fate'[n] = "answered" => fate[n] = "answered"
    BY <1>0, <1>2 DEF CutWindow
  <2>3. \A n : Recorded(n)' <=> Recorded(n)
    BY <1>2 DEF Recorded
  <2>4. \A u \in Turns : list'[u] # list[u] => fate'[number[u]] # "open"
    BY <1>0, <1>2 DEF CutWindow
  <2>a. \A u \in Turns : pc'[u] = IF u = t THEN b ELSE pc[u]
    BY <1>0, <1>2 DEF Goto
  <2>5. InHand'
    BY <1>0, <1>2, <2>1, <2>4, <2>a DEF HistoryInv, InHand, Open
  <2>6. Told'
    BY <1>0, <1>2, <2>1, <2>3, <2>a DEF HistoryInv, Told, Open
  <2>7. Stored'
    BY <2>2, <2>3 DEF HistoryInv, Stored
  <2> QED
    BY <2>5, <2>6, <2>7
<1>3. ASSUME NEW t \in Turns, NEW end \in {"answered", "failed"}, NEW left, Open(t),
             EndTurn(t, end, left), end = "answered" => pc[t] = "answer", UNCHANGED <<lists, current>>
      PROVE  InHand' /\ Told' /\ Stored'
  <2>1. /\ \A u \in Turns : pc'[u] = IF u = t THEN "idle" ELSE pc[u]
        /\ \A u \in Turns \ {t} : number'[u] = number[u] /\ list'[u] = list[u]
    BY <1>0, <1>3 DEF EndTurn, Goto
  <2>2. \A n \in Numbers : fate'[n] = IF n = number[t] /\ fate[n] = "open" THEN end ELSE fate[n]
    BY <1>0, <1>3 DEF EndTurn
  <2>3. \A n : Recorded(n)' <=> Recorded(n)
    BY <1>3 DEF Recorded
  <2>5. InHand'
    BY <1>0, <1>3, <2>1, <2>2 DEF HistoryInv, InHand, Open
  <2>6. Told'
    BY <1>0, <1>3, <2>1, <2>2, <2>3 DEF HistoryInv, Told, Open
  <2>7. Stored'
    BY <1>0, <1>3, <2>2, <2>3 DEF HistoryInv, Stored, Told
  <2> QED
    BY <2>5, <2>6, <2>7
<1>4. ASSUME NEW t \in Turns, RaiseAfter(t), kind[t] = "stream" PROVE InHand' /\ Told' /\ Stored'
  <2>1. /\ \A u \in Turns : pc'[u] = IF u = t THEN "answer" ELSE pc[u]
        /\ Open(t) /\ UNCHANGED <<list, number, lists, current>>
    BY <1>0, <1>4 DEF RaiseAfter, Goto, Open
  <2>2. \A n \in Numbers :
          fate'[n] = IF n = number[t] /\ fate[n] = "open" THEN "failed" ELSE fate[n]
    BY <1>0, <1>4 DEF RaiseAfter
  <2>3. \A n : Recorded(n)' <=> Recorded(n)
    BY <2>1 DEF Recorded
  <2>5. InHand'
    BY <1>0, <2>1, <2>2 DEF HistoryInv, InHand, Open
  <2>6. Told'
    BY <1>0, <2>1, <2>2, <2>3 DEF HistoryInv, Told, Open
  <2>7. Stored'
    BY <2>2, <2>3 DEF HistoryInv, Stored
  <2> QED
    BY <2>5, <2>6, <2>7
<1>5. ASSUME NEW t \in Turns, Save(t) \/ AppendModel(t) PROVE InHand' /\ Told' /\ Stored'
  <2>1. PICK b \in {"append_model", "answer"}, role \in {"user", "model"} :
          /\ Goto(t, b) /\ AddTo(t, role) /\ (b = "answer" => role = "model")
    BY <1>5 DEF Save, AppendModel
  <2>2. Open(t) /\ UNCHANGED <<current, number, list, fate>>
    BY <1>5 DEF Save, AppendModel, Open
  <2>3. /\ \A n \in Numbers : Recorded(n) => Recorded(n)'
        /\ \A n \in Numbers :
             n = number[t] /\ list[t] = current /\ role = "model" => Recorded(n)'
    BY <2>1, <2>2, Grown DEF HistoryInv
  <2>p. pc \in [Turns -> Places] /\ pc' = [pc EXCEPT ![t] = b]
    BY <1>0, <2>1 DEF Goto
  <2>a. \A u \in Turns : pc'[u] = IF u = t THEN b ELSE pc[u]
    BY <2>p
  <2>5. InHand'
    BY <2>2, <2>a DEF HistoryInv, InHand, Open
  <2>b. ASSUME NEW u \in Turns, NEW n \in Numbers, n = number[u], pc'[u] = "answer",
               fate[n] = "open"
        PROVE  Recorded(n)'
    <3>1. CASE u = t
      <4>1. list[t] = current
        BY <2>2, <2>b, <3>1 DEF HistoryInv, InHand
      <4>2. role = "model"
        BY <2>1, <2>a, <2>b, <3>1
      <4> QED
        BY <2>3, <2>b, <3>1, <4>1, <4>2
    <3>2. CASE u # t
      BY <2>3, <2>a, <2>b, <3>2 DEF HistoryInv, Told
    <3> QED
      BY <3>1, <3>2
  <2>c. \A u \in Turns : pc'[u] = "answer" => number[u] \in Numbers
    BY <1>0, <2>2, <2>a DEF Open
  <2>6. Told'
    BY <2>2, <2>b, <2>c DEF Told, Recorded
  <2>7. Stored'
    BY <2>2, <2>3 DEF HistoryInv, Stored
  <2> QED
    BY <2>5, <2>6, <2>7
<1>6. CASE Clear
  <2>1. \A n \in Numbers : fate'[n] \notin {"open", "answered"}
    BY <1>0, <1>6 DEF Clear
  <2> QED
    BY <1>0, <1>6, <2>1 DEF Clear, InHand, Told, Stored, Open
<1>7. ASSUME UNCHANGED turnVars PROVE InHand' /\ Told' /\ Stored'
  BY <1>7 DEF turnVars, HistoryInv, InHand, Told, Stored, Open, Recorded
<1>9. CASE LateWait
  BY <1>9 DEF LateWait, HistoryInv, InHand, Told, Stored, Open, Recorded
<1>8. ASSUME NEW t \in Turns, TurnStep(t) PROVE InHand' /\ Told' /\ Stored'
  <2>1. CASE ManageContext(t) \/ StartAgent(t)
    BY <1>2, <2>1 DEF ManageContext, StartAgent, Open
  <2>2. CASE EmptyStream(t) \/ Abandon(t) \/ RaiseBefore(t)
    BY <1>3, <2>2 DEF EmptyStream, Abandon, RaiseBefore, Open
  <2>3. CASE RaiseAfter(t) /\ kind[t] # "stream"
    BY <1>3, <2>3 DEF RaiseAfter, Open
  <2>4. CASE Answer(t)
    BY <1>3, <2>4 DEF Answer, Open
  <2>5. CASE Loop(t)
    BY <1>7, <2>5 DEF Loop
  <2> QED
    BY <1>4, <1>5, <1>8, <2>1, <2>2, <2>3, <2>4, <2>5 DEF TurnStep
<1> QED
  BY <1>1, <1>6, <1>7, <1>8, <1>9 DEF Next, vars

(* Whatever turns interleave, an answered exchange is in the history unless*)
(* the turn worked on a copy of it or it was cleared meanwhile.            *)
THEOREM ExchangesRecorded == Spec => []RecordedUnlessCut
<1>1. Init => InHand /\ Told /\ Stored
  BY DEF Init, InHand, Told, Stored, Open
<1>2. HistoryInv => RecordedUnlessCut
  BY DEF HistoryInv, Stored, RecordedUnlessCut, TypeInv, TurnTypeOK
<1>3. HistoryInv /\ [Next]_vars => HistoryInv'
  BY StepTypes, StepHistory DEF HistoryInv
<1> QED
  BY <1>1, <1>2, <1>3, InitTypes, PTL DEF Spec, HistoryInv

-----------------------------------------------------------------------------
(* The lists.  Every message of a list has its pair but the last of a list *)
(* of odd length, the question of the one turn between its two appends.    *)
Whole(q) == \A i \in 1 .. Len(q) \div 2 : PairOf(q[2 * i - 1], q[2 * i])
Even(q)  == Len(q) % 2 = 0

Between(t, l) == pc[t] = "append_model" /\ list[t] = l
Answering(l) ==
  /\ ~Even(lists[l]) => \E t \in Turns : Between(t, l)
  /\ \A t \in Turns : Between(t, l) =>
       ~Even(lists[l]) /\ lists[l][Len(lists[l])] = Msg(number[t], "user")

Paired ==
  ~mixed => /\ \A l \in Lists : Whole(lists[l]) /\ Answering(l)
            /\ \A pair \in offloaded : PairOf(pair[1], pair[2])

LEMMA Parity ==
  ASSUME NEW n \in Nat
  PROVE  /\ n % 2 = 0 => (n + 1) \div 2 = n \div 2 /\ (n + 1) % 2 # 0
         /\ n % 2 # 0 => (n + 1) \div 2 = n \div 2 + 1 /\ 2 * (n \div 2 + 1) = n + 1 /\ (n + 1) % 2 = 0
         /\ n \div 2 \in Nat
  OBVIOUS

LEMMA QuestionAdded ==
  ASSUME NEW q \in Seq(Messages), Whole(q), Even(q), NEW x \in Messages
  PROVE  Whole(Append(q, x)) /\ ~Even(Append(q, x)) /\ Append(q, x)[Len(Append(q, x))] = x
<1>1. Len(q) \in Nat /\ Len(Append(q, x)) = Len(q) + 1
  BY Appended
<1>2. Len(Append(q, x)) \div 2 = Len(q) \div 2 /\ ~Even(Append(q, x))
  BY <1>1, Parity DEF Even
<1>3. ASSUME NEW i \in 1 .. Len(q) \div 2
      PROVE  PairOf(Append(q, x)[2 * i - 1], Append(q, x)[2 * i])
  <2>1. i \in Nat \ {0} /\ 2 * i <= Len(q)
    BY <1>1, Halves, Parity
  <2>2. 2 * i - 1 \in DOMAIN q /\ 2 * i \in DOMAIN q
    BY <1>1, <2>1
  <2> QED
    BY <2>2, Appended DEF Whole
<1> QED
  BY <1>1, <1>2, <1>3, Appended DEF Whole

LEMMA AnswerAdded ==
  ASSUME NEW q \in Seq(Messages), Whole(q), ~Even(q), NEW n \in Numbers, q[Len(q)] = Msg(n, "user")
  PROVE  Whole(Append(q, Msg(n, "model"))) /\ Even(Append(q, Msg(n, "model")))
<1> DEFINE x == Msg(n, "model")
<1>0. x \in Messages
  BY DEF Msg, Messages
<1> HIDE DEF x
<1>1. Len(q) \in Nat /\ Len(Append(q, x)) = Len(q) + 1
  BY <1>0, Appended
<1>2. /\ Len(Append(q, x)) \div 2 = Len(q) \div 2 + 1 /\ Even(Append(q, x))
      /\ 2 * (Len(q) \div 2 + 1) = Len(q) + 1
  BY <1>1, Parity DEF Even
<1>3. ASSUME NEW i \in 1 .. Len(q) \div 2 + 1
      PROVE  PairOf(Append(q, x)[2 * i - 1], Append(q, x)[2 * i])
  <2>1. CASE i = Len(q) \div 2 + 1
    <3>1. 2 * i = Len(q) + 1 /\ 2 * i - 1 = Len(q) /\ Len(q) \in DOMAIN q
      BY <1>1, <1>2, <2>1, Parity
    <3>2. Append(q, x)[2 * i] = x /\ Append(q, x)[2 * i - 1] = Msg(n, "user")
      BY <1>0, <3>1, Appended
    <3> QED
      BY <3>2 DEF PairOf, Msg, x
  <2>2. CASE i # Len(q) \div 2 + 1
    <3>0. i \in 1 .. Len(q) \div 2
      BY <1>1, <2>2, Parity
    <3>1. i \in Nat \ {0} /\ 2 * i <= Len(q)
      BY <1>1, <3>0, Halves, Parity
    <3>2. 2 * i - 1 \in DOMAIN q /\ 2 * i \in DOMAIN q
      BY <1>1, <3>1
    <3> QED
      BY <1>0, <3>0, <3>2, Appended DEF Whole
  <2> QED
    BY <2>1, <2>2
<1> QED
  BY <1>2, <1>3 DEF Whole, x

(* A step that leaves the lists as they are and enters or leaves no pair of*)
(* appends.                                                                *)
Untouched ==
  /\ UNCHANGED <<lists, mixed>>
  /\ \A u \in Turns, l \in Lists :
       (Between(u, l)' <=> Between(u, l)) /\ (Between(u, l) => number'[u] = number[u])

LEMMA UntouchedKeeps ==
  ASSUME Paired, Untouched,
         ~mixed => \A pair \in offloaded' : PairOf(pair[1], pair[2])
  PROVE  Paired'
<1>1. \A l \in Lists : Answering(l) => Answering(l)'
  BY DEF Untouched, Answering
<1> QED
  BY <1>1 DEF Paired, Untouched

LEMMA CutPaired ==
  ASSUME TypeInv, Paired, ~mixed, NEW t \in Turns, CutWindow(t), Long(list[t])
  PROVE  \A pair \in offloaded' : PairOf(pair[1], pair[2])
<1>1. list[t] \in Lists /\ lists[list[t]] \in Seq(Messages) /\ Len(lists[list[t]]) > MaxActive
  BY DEF TypeInv, TurnTypeOK, Long
<1>2. ASSUME NEW pair \in Pairs(Old(list[t])) PROVE PairOf(pair[1], pair[2])
  <2>1. PICK i \in 1 .. Len(lists[list[t]]) \div 2 :
          pair = <<lists[list[t]][2 * i - 1], lists[list[t]][2 * i]>>
    BY <1>1, OldPairs
  <2>2. PairOf(lists[list[t]][2 * i - 1], lists[list[t]][2 * i])
    BY <1>1 DEF Paired, Whole
  <2> QED
    BY <2>1, <2>2
<1> QED
  BY <1>2 DEF CutWindow, Paired

LEMMA AddPaired ==
  ASSUME TypeInv, Paired, NEW t \in Turns, Open(t), UNCHANGED <<number, list, offloaded>>,
         \/ pc[t] # "append_model" /\ AddTo(t, "user") /\ Goto(t, "append_model")
         \/ pc[t] = "append_model" /\ AddTo(t, "model") /\ Goto(t, "answer")
  PROVE  Paired'
<1> SUFFICES ASSUME ~mixed' PROVE Paired'
  BY DEF Paired
<1>0. /\ lists \in [Lists -> Seq(Messages)] /\ pc \in [Turns -> Places] /\ number[t] \in Numbers
      /\ list[t] \in Lists \cup {Copy} /\ Copy \notin Lists
  BY NumberKnown, BoundsAssumption DEF TypeInv, TurnTypeOK, Places, Lists, Copy
<1>1. ~mixed /\ \A u \in Turns \ {t} : list[t] \in Lists => ~Between(u, list[t])
  BY <1>0 DEF AddTo, Between
<1>2. \A pair \in offloaded' : PairOf(pair[1], pair[2])
  BY <1>1 DEF Paired
<1>3. ASSUME NEW l \in Lists, l # list[t] PROVE Whole(lists'[l]) /\ Answering(l)'
  <2>1. lists'[l] = lists[l]
    BY <1>0, <1>3 DEF AddTo
  <2>2. \A u \in Turns : Between(u, l)' <=> Between(u, l)
    BY <1>0, <1>3 DEF Between, Goto
  <2> QED
    BY <1>1, <2>1, <2>2 DEF Paired, Answering
<1>4. ASSUME NEW l \in Lists, l = list[t] PROVE Whole(lists'[l]) /\ Answering(l)'
  <2>0. lists[l] \in Seq(Messages) /\ Whole(lists[l]) /\ Answering(l)
    BY <1>0, <1>1 DEF Paired
  <2>1. CASE pc[t] # "append_model" /\ AddTo(t, "user") /\ Goto(t, "append_model")
    <3>1. lists'[l] = Append(lists[l], Msg(number[t], "user")) /\ Msg(number[t], "user") \in Messages
      BY <1>0, <1>4, <2>1 DEF AddTo, Msg, Messages
    <3>2. Even(lists[l])
      BY <1>1, <1>4, <2>0, <2>1 DEF Answering, Between
    <3>3. /\ Whole(lists'[l]) /\ ~Even(lists'[l])
          /\ lists'[l][Len(lists'[l])] = Msg(number[t], "user")
      BY <2>0, <3>1, <3>2, QuestionAdded
    <3>4. \A u \in Turns : Between(u, l)' <=> u = t
      BY <1>0, <1>1, <1>4, <2>1 DEF Between, Goto
    <3> QED
      BY <3>3, <3>4 DEF Answering
  <2>2. CASE pc[t] = "append_model" /\ AddTo(t, "model") /\ Goto(t, "answer")
    <3>1. lists'[l] = Append(lists[l], Msg(number[t], "model"))
      BY <1>0, <1>4, <2>2 DEF AddTo
    <3>2. ~Even(lists[l]) /\ lists[l][Len(lists[l])] = Msg(number[t], "user")
      BY <1>4, <2>0, <2>2 DEF Answering, Between
    <3>3. Whole(lists'[l]) /\ Even(lists'[l])
      BY <1>0, <2>0, <3>1, <3>2, AnswerAdded
    <3>4. \A u \in Turns : ~Between(u, l)'
      BY <1>0, <1>1, <1>4, <2>2 DEF Between, Goto
    <3> QED
      BY <3>3, <3>4 DEF Answering
  <2> QED
    BY <2>1, <2>2
<1> QED
  BY <1>2, <1>3, <1>4 DEF Paired

(* A step of t that begins and ends outside a pair of appends.             *)
LEMMA OutsideKeeps ==
  ASSUME TypeInv, NEW t \in Turns, pc[t] # "append_model", NEW b \in Places \ {"append_model"},
         Goto(t, b), UNCHANGED <<lists, mixed>>,
         \A u \in Turns \ {t} : number'[u] = number[u] /\ list'[u] = list[u]
  PROVE  Untouched
<1>1. \A u \in Turns : pc'[u] = IF u = t THEN b ELSE pc[u]
  BY DEF TypeInv, TurnTypeOK, Goto
<1> QED
  BY <1>1 DEF Untouched, Between

LEMMA StepPaired == TypeInv /\ Paired /\ [Next]_vars => Paired'
<1> SUFFICES ASSUME TypeInv, Paired, [Next]_vars PROVE Paired'
  OBVIOUS
<1> USE DEF Places
<1>0. number \in [Turns -> 0 .. MaxTurns] /\ list \in [Turns -> Lists \cup {Copy}]
  BY DEF TypeInv, TurnTypeOK
<1>1. ASSUME NEW t \in Turns, NEW k \in {"chat", "stream"}, Begin(t, k) PROVE Paired'
  <2>1. Untouched
    BY <1>0, <1>1, OutsideKeeps DEF Begin
  <2> QED
    BY <1>1, <2>1, UntouchedKeeps DEF Begin, Paired
<1>2. ASSUME NEW t \in Turns, ManageContext(t) \/ StartAgent(t) PROVE Paired'
  <2>1. /\ pc[t] # "append_model" /\ \E b \in {"context", "loop"} : Goto(t, b)
        /\ UNCHANGED <<lists, mixed, number>>
        /\ ((Long(list[t]) /\ CutWindow(t)) \/ UNCHANGED <<offloaded, list>>)
    BY <1>2 DEF ManageContext, StartAgent
  <2>2. \A u \in Turns \ {t} : number'[u] = number[u] /\ list'[u] = list[u]
    BY <1>0, <2>1 DEF CutWindow
  <2>3. Untouched
    BY <2>1, <2>2, OutsideKeeps
  <2>4. ~mixed => \A pair \in offloaded' : PairOf(pair[1], pair[2])
    BY <2>1, CutPaired DEF Paired
  <2> QED
    BY <2>3, <2>4, UntouchedKeeps
<1>3. ASSUME NEW t \in Turns, NEW end, NEW left, EndTurn(t, end, left), pc[t] # "append_model",
             UNCHANGED <<lists, offloaded, mixed>>
      PROVE  Paired'
  <2>1. Untouched
    BY <1>0, <1>3, OutsideKeeps DEF EndTurn
  <2> QED
    BY <1>3, <2>1, UntouchedKeeps DEF Paired
<1>4. ASSUME NEW t \in Turns, RaiseAfter(t), kind[t] = "stream" PROVE Paired'
  <2>1. Untouched
    BY <1>4, OutsideKeeps DEF RaiseAfter
  <2> QED
    BY <1>4, <2>1, UntouchedKeeps DEF RaiseAfter, Paired
<1>5. ASSUME NEW t \in Turns, Save(t) \/ AppendModel(t) PROVE Paired'
  BY <1>5, AddPaired DEF Save, AppendModel, Open
<1>6. ASSUME UNCHANGED <<lists, mixed, pc, list, number, offloaded>> PROVE Paired'
  <2>1. Untouched
    BY <1>6 DEF Untouched, Between
  <2> QED
    BY <1>6, <2>1, UntouchedKeeps DEF Paired
<1>7. ASSUME NEW t \in Turns, TurnStep(t) PROVE Paired'
  <2>1. CASE EmptyStream(t) \/ Abandon(t) \/ RaiseBefore(t)
    BY <1>3, <2>1 DEF EmptyStream, Abandon, RaiseBefore
  <2>2. CASE RaiseAfter(t) /\ kind[t] # "stream"
    BY <1>3, <2>2 DEF RaiseAfter
  <2>3. CASE Answer(t)
    BY <1>3, <2>3 DEF Answer
  <2>4. CASE Loop(t)
    BY <1>6, <2>4 DEF Loop, turnVars
  <2> QED
    BY <1>2, <1>4, <1>5, <1>7, <2>1, <2>2, <2>3, <2>4 DEF TurnStep
<1>8. CASE Clear \/ LateWait \/ UNCHANGED vars
  BY <1>6, <1>8 DEF Clear, LateWait, vars, turnVars
<1> QED
  BY <1>1, <1>7, <1>8 DEF Next

(* While no two turns append to one list at one time, every list, and what *)
(* was moved out of a window into the memory, is questions each followed by*)
(* its own answer, however many turns run.                                 *)
THEOREM ExchangesStayPaired == Spec => []ExchangesPaired
<1>1. Init => Paired
  <2> SUFFICES ASSUME Init PROVE Paired
    OBVIOUS
  <2>1. \A l \in Lists : lists[l] = <<>>
    BY DEF Init
  <2>a. ASSUME NEW q, q = <<>> PROVE Whole(q) /\ Even(q)
    <3>1. Len(q) = 0
      BY <2>a
    <3>2. 1 .. Len(q) \div 2 = {} /\ Len(q) % 2 = 0
      BY <3>1
    <3> QED
      BY <3>2 DEF Whole, Even
  <2>3. \A l \in Lists : Whole(lists[l]) /\ Even(lists[l])
    BY <2>1, <2>a
  <2>4. \A t \in Turns : pc[t] # "append_model"
    BY DEF Init
  <2> QED
    BY <2>3, <2>4 DEF Init, Paired, Answering, Between
<1>2. Paired => ExchangesPaired
  BY DEF Paired, ExchangesPaired, Whole
<1> QED
  BY <1>1, <1>2, InitTypes, StepTypes, StepPaired, PTL DEF Spec

-----------------------------------------------------------------------------
(* How far a turn is from its end: first its place, then, in the loop, the *)
(* steps left, whether the model is still to answer, the attempts left.    *)
Distance(t) ==
  CASE pc[t] = "manage" -> 6
    [] pc[t] = "context" -> 5
    [] pc[t] = "loop" -> IF at[t] = "done" THEN 3 ELSE 4
    [] pc[t] = "append_model" -> 2
    [] pc[t] = "answer" -> 1
    [] OTHER -> 0
StepsLeft(t)    == MaxSteps - step[t]
Asking(t)       == IF at[t] = "call" THEN 1 ELSE 0
AttemptsLeft(t) == MaxAttempts - attempt[t]

Nearer(t) ==
  \/ Distance(t)' < Distance(t)
  \/ /\ Distance(t)' = Distance(t)
     /\ \/ StepsLeft(t)' < StepsLeft(t)
        \/ /\ StepsLeft(t)' = StepsLeft(t)
           /\ \/ Asking(t)' < Asking(t)
              \/ Asking(t)' = Asking(t) /\ AttemptsLeft(t)' < AttemptsLeft(t)

(* Every step of an open turn takes it nearer its end, and no other step   *)
(* takes it away from it.                                                  *)
TurnsAdvance ==
  [][\A t \in Turns : Open(t) =>
       /\ TurnStep(t) => Nearer(t)
       /\ Nearer(t) \/ UNCHANGED <<pc[t], at[t], step[t], attempt[t]>>]_vars

LEMMA LoopAdvances ==
  ASSUME LoopTypeOK, NEW t \in Turns, pc[t] = "loop", at[t] # "done", LoopStep(t), pc' = pc
  PROVE  Nearer(t)
<1>0. /\ at \in [Turns -> {"off", "call", "done"} \cup Parsed]
      /\ step \in [Turns -> 0 .. MaxSteps] /\ attempt \in [Turns -> 0 .. MaxAttempts]
      /\ MaxSteps \in Nat /\ MaxAttempts \in Nat
      /\ "call" \notin Parsed /\ "done" \notin Parsed
  BY StepsAssumption, AttemptsAssumption DEF LoopTypeOK, Parsed
<1>1. step[t] \in Nat /\ attempt[t] \in Nat
  BY <1>0
<1>2. Distance(t) = 4 /\ Distance(t)' = IF at'[t] = "done" THEN 3 ELSE 4
  BY DEF Distance
<1>3. ASSUME Retry(t) PROVE Nearer(t)
  <2>1. at' = at /\ step' = step /\ attempt'[t] = attempt[t] + 1
    BY <1>0, <1>3 DEF Retry
  <2> QED
    BY <1>0, <1>1, <1>2, <2>1 DEF Nearer, StepsLeft, Asking, AttemptsLeft
<1>4. ASSUME NEW k \in Parsed, ModelSays(t, k) PROVE Nearer(t)
  <2>1. at[t] = "call" /\ at'[t] = k /\ k # "call" /\ k # "done" /\ step' = step
    BY <1>0, <1>4 DEF ModelSays
  <2> QED
    BY <1>1, <1>2, <2>1 DEF Nearer, StepsLeft, Asking
<1>5. ASSUME NEW a, Finish(t, a) PROVE Nearer(t)
  <2>1. at'[t] = "done"
    BY <1>0, <1>5 DEF Finish, LeaveLoop
  <2> QED
    BY <1>2, <2>1 DEF Nearer
<1>6. ASSUME NextStep(t) PROVE Nearer(t)
  <2>1. at'[t] = "call" /\ step'[t] = step[t] + 1
    BY <1>0, <1>6 DEF NextStep
  <2> QED
    BY <1>0, <1>1, <1>2, <2>1 DEF Nearer, StepsLeft
<1>7. ASSUME Reply(t) PROVE Nearer(t)
  BY <1>5, <1>6, <1>7 DEF Reply
<1>8. ASSUME Final(t) PROVE Nearer(t)
  BY <1>5, <1>8 DEF Final
<1> QED
  BY <1>3, <1>4, <1>7, <1>8 DEF LoopStep, Observe, Correct

(* The safety half of TurnsEnd: Distance, StepsLeft, Asking and            *)
(* AttemptsLeft are natural numbers, so a turn has finitely many steps.    *)
THEOREM TurnsGetOn == Spec => TurnsAdvance
<1> DEFINE Still(t) == UNCHANGED <<pc[t], at[t], step[t], attempt[t]>>
<1>0. TypeInv => LoopTypeOK /\ pc \in [Turns -> Places] /\ \A t \in Turns : at[t] # "off" <=> pc[t] = "loop"
  BY DEF TypeInv, TurnTypeOK, Places
<1>1. ASSUME TypeInv, NEW t \in Turns, Open(t), TurnStep(t) PROVE Nearer(t)
  <2> USE DEF Places
  <2>0. LoopTypeOK /\ pc \in [Turns -> Places]
    BY <1>0, <1>1
  <2>1. ASSUME NEW b, Goto(t, b), Distance(t)' < Distance(t) PROVE Nearer(t)
    BY <2>1 DEF Nearer
  <2>2. ASSUME Loop(t) PROVE Nearer(t)
    <3>1. pc[t] = "loop" /\ LoopStep(t) /\ pc' = pc
      BY <2>2 DEF Loop, turnVars
    <3>2. at[t] # "done"
      BY <3>1 DEF LoopStep, Retry, ModelSays, Final, Observe, Correct
    <3> QED
      BY <2>0, <3>1, <3>2, LoopAdvances
  <2>3. ASSUME ManageContext(t) PROVE Distance(t)' < Distance(t)
    BY <2>0, <2>3 DEF ManageContext, Goto, Distance
  <2>4. ASSUME StartAgent(t) PROVE Distance(t)' < Distance(t)
    <3>1. pc[t] = "context" /\ pc'[t] = "loop" /\ at'[t] = "call"
      BY <2>0, <2>4 DEF StartAgent, Goto, StartLoop, LoopTypeOK
    <3> QED
      BY <3>1 DEF Distance
  <2>5. ASSUME NEW end, NEW left, EndTurn(t, end, left) PROVE Distance(t)' < Distance(t)
    <3>1. pc'[t] = "idle" /\ pc[t] \in Places \ {"idle"}
      BY <1>1, <2>0, <2>5 DEF EndTurn, Goto, Open
    <3> QED
      BY <3>1 DEF Distance
  <2>6. ASSUME pc[t] = "loop", at[t] = "done", NEW b \in {"append_model", "answer"}, Goto(t, b)
        PROVE  Distance(t)' < Distance(t)
    BY <2>0, <2>6 DEF Goto, Distance
  <2>7. ASSUME AppendModel(t) PROVE Distance(t)' < Distance(t)
    BY <2>0, <2>7 DEF AppendModel, Goto, Distance
  <2>8. ASSUME Save(t) \/ RaiseAfter(t) PROVE Distance(t)' < Distance(t)
    BY <2>5, <2>6, <2>8 DEF Save, RaiseAfter
  <2> QED
    BY <1>1, <2>2, <2>3, <2>4, <2>5, <2>7, <2>8
    DEF TurnStep, EmptyStream, Abandon, RaiseBefore, Answer, Nearer
<1>2. ASSUME TypeInv, NEW t \in Turns, NEW u \in Turns \ {t}, TurnStep(u) PROVE Still(t)
  <2>0. /\ pc \in [Turns -> Places] /\ DOMAIN at = Turns /\ DOMAIN step = Turns /\ DOMAIN attempt = Turns
    BY <1>0, <1>2 DEF LoopTypeOK
  <2>1. ASSUME NEW b, Goto(u, b) PROVE pc'[t] = pc[t]
    BY <2>0, <2>1 DEF Goto
  <2>2. ASSUME LoopStep(u) \/ StartLoop(u) \/ StopLoop(u) \/ UNCHANGED loopVars
        PROVE  at'[t] = at[t] /\ step'[t] = step[t] /\ attempt'[t] = attempt[t]
    BY <2>0, <2>2
    DEF LoopStep, StartLoop, StopLoop, LeaveLoop, loopVars, Retry, ModelSays, Final, Observe, Correct,
        Reply, Finish, NextStep
  <2> QED
    BY <1>2, <2>1, <2>2
    DEF TurnStep, ManageContext, StartAgent, Loop, turnVars, EmptyStream, Abandon, RaiseBefore,
        RaiseAfter, Save, AppendModel, Answer, EndTurn
<1>3. ASSUME TypeInv, NEW t \in Turns, Open(t), NEW u \in Turns, NEW k \in {"chat", "stream"}, Begin(u, k)
      PROVE  Still(t)
  <2>1. u # t /\ pc'[t] = pc[t]
    BY <1>0, <1>3 DEF Begin, Open, Goto
  <2> QED
    BY <1>3, <2>1 DEF Begin, loopVars
<1>4. ASSUME NEW t \in Turns, Clear \/ LateWait \/ UNCHANGED vars PROVE Still(t)
  BY <1>4 DEF Clear, LateWait, vars, loopVars, turnVars
<1>5. ASSUME TypeInv, [Next]_vars, NEW t \in Turns, Open(t)
      PROVE  (TurnStep(t) => Nearer(t)) /\ (Nearer(t) \/ Still(t))
  <2> HIDE DEF Still
  <2> QED
    BY <1>1, <1>2, <1>3, <1>4, <1>5 DEF Next
<1>6. TypeInv /\ [Next]_vars
        => [\A t \in Turns : Open(t) =>
              /\ TurnStep(t) => Nearer(t)
              /\ Nearer(t) \/ UNCHANGED <<pc[t], at[t], step[t], attempt[t]>>]_vars
  BY <1>5
<1> QED
  BY <1>6, InitTypes, StepTypes, PTL DEF Spec, TurnsAdvance
=============================================================================
