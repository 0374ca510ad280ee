-------------------------- MODULE SemaphoreProofs --------------------------
(***************************************************************************)
(* Proofs about SemaphoreManager, DeadlockDetector, ProcessTable and their *)
(* composition KernelSync, for any set of semaphores and processes, any    *)
(* initial values and any bounds.  The inductive invariant of every call   *)
(* sequence is Inv; callers that follow the rules also keep FairInv, the   *)
(* server as a whole keeps SyncInv, and the detector's search DetInv.      *)
(***************************************************************************)
EXTENDS KernelSync, DeadlockDetector, FiniteSetTheorems, SequenceTheorems, TLAPS

Elements(q) == {q[i] : i \in DOMAIN q}

(* A semaphore that was never created has no queue and no edges.           *)
FreshUntilCreated == \A s \in Sems \ created : queue[s] = <<>> /\ assigned[s] = {}

Inv == SemTypeOK /\ SemConsistent /\ FreshUntilCreated

-----------------------------------------------------------------------------
(* Lemmas about queues.                                                    *)

(* What a push does to a queue.                                            *)
LEMMA PushBack ==
  ASSUME NEW S, NEW q \in Seq(S), NEW x \in S
  PROVE  /\ Append(q, x) \in Seq(S)
         /\ Elements(Append(q, x)) = Elements(q) \cup {x}
         /\ \A i \in DOMAIN Append(q, x) :
              Append(q, x)[i] = IF i \in DOMAIN q THEN q[i] ELSE x
         /\ \A i, j \in DOMAIN Append(q, x) \ DOMAIN q : i = j
<1>1. /\ Append(q, x) \in Seq(S) /\ Len(q) \in Nat
      /\ DOMAIN q = 1 .. Len(q) /\ DOMAIN Append(q, x) = 1 .. Len(q) + 1
      /\ \A i \in 1 .. Len(q) : Append(q, x)[i] = q[i]
      /\ Append(q, x)[Len(q) + 1] = x
  OBVIOUS
<1>2. \A i \in DOMAIN Append(q, x) : i \in DOMAIN q \/ i = Len(q) + 1
  BY <1>1
<1>3. \A i \in DOMAIN q : i # Len(q) + 1
  BY <1>1
<1>4. Elements(Append(q, x)) = Elements(q) \cup {x}
  <2>1. DOMAIN q \subseteq DOMAIN Append(q, x) /\ Len(q) + 1 \in DOMAIN Append(q, x)
    BY <1>1
  <2> QED
    BY <1>1, <1>2, <2>1 DEF Elements
<1> QED
  BY <1>1, <1>2, <1>3, <1>4

(* What a pop does to a queue.                                             *)
LEMMA PopFront ==
  ASSUME NEW S, NEW q \in Seq(S), q # <<>>
  PROVE  /\ Head(q) \in Elements(q) /\ Head(q) \in S
         /\ Tail(q) \in Seq(S)
         /\ Elements(q) = {Head(q)} \cup Elements(Tail(q))
         /\ \A i \in DOMAIN Tail(q) : i + 1 \in DOMAIN q /\ Tail(q)[i] = q[i + 1] /\ i \in Nat \ {0}
         /\ 1 \in DOMAIN q /\ Head(q) = q[1]
<1>1. /\ Len(q) \in Nat \ {0} /\ DOMAIN q = 1 .. Len(q)
      /\ Head(q) = q[1] /\ Head(q) \in S
      /\ Tail(q) \in Seq(S) /\ DOMAIN Tail(q) = 1 .. Len(q) - 1
      /\ \A i \in 1 .. Len(q) - 1 : Tail(q)[i] = q[i + 1]
  OBVIOUS
<1>2. \A i \in DOMAIN Tail(q) : i + 1 \in DOMAIN q /\ Tail(q)[i] = q[i + 1] /\ i \in Nat \ {0}
  BY <1>1
<1>3. 1 \in DOMAIN q
  BY <1>1
<1>4. \A i \in DOMAIN q : i = 1 \/ (i - 1 \in DOMAIN Tail(q) /\ Tail(q)[i - 1] = q[i])
  BY <1>1
<1>5. Elements(q) = {Head(q)} \cup Elements(Tail(q))
  <2>1. ASSUME NEW x \in Elements(q) PROVE x = Head(q) \/ x \in Elements(Tail(q))
    <3>1. PICK i \in DOMAIN q : x = q[i]
      BY <2>1 DEF Elements
    <3> QED
      BY <3>1, <1>1, <1>4 DEF Elements
  <2>2. ASSUME NEW x \in Elements(Tail(q)) PROVE x \in Elements(q)
    <3>1. PICK i \in DOMAIN Tail(q) : x = Tail(q)[i]
      BY <2>2 DEF Elements
    <3> QED
      BY <3>1, <1>2 DEF Elements
  <2>3. Head(q) \in Elements(q)
    BY <1>1, <1>3 DEF Elements
  <2> QED
    BY <2>1, <2>2, <2>3
<1> QED
  BY <1>1, <1>2, <1>3, <1>5 DEF Elements

-----------------------------------------------------------------------------
(* Every sequence of calls.                                                *)

LEMMA QueuedElements == ASSUME NEW s PROVE Queued(s) = Elements(queue[s])
  BY DEF Queued, Elements

LEMMA InitInv == SemInit => Inv
  BY HolderAssumption, ValuesAssumption
  DEF SemInit, Inv, SemTypeOK, SemConsistent, NoneWaitsOnFree, RequestsAreQueued,
      HolderIsAssigned, FreshUntilCreated

(* The types, and what a step leaves of the queue it works on.             *)
LEMMA TypeStep ==
  ASSUME Inv, [SemNext]_semVars
  PROVE  SemTypeOK'
<1>1. ASSUME NEW s \in Sems, NEW n \in InitValues, Create(s, n) PROVE SemTypeOK'
  BY <1>1, ValuesAssumption DEF Inv, SemTypeOK, Create
<1>2. ASSUME NEW s \in Sems, NEW p \in Procs, Acquire(s, p) PROVE SemTypeOK'
  BY <1>2 DEF Inv, SemTypeOK, Acquire
<1>3. ASSUME NEW s \in Sems, NEW p \in Procs, Block(s, p) PROVE SemTypeOK'
  <2>1. Append(queue[s], p) \in Seq(Procs)
    BY PushBack DEF Inv, SemTypeOK
  <2> QED
    BY <1>3, <2>1 DEF Inv, SemTypeOK, Block
<1>4. ASSUME NEW s \in Sems, NEW p \in Procs, HandOver(s, p) PROVE SemTypeOK'
  <2>1. Tail(queue[s]) \in Seq(Procs) /\ Head(queue[s]) \in Procs
    BY <1>4, PopFront DEF Inv, SemTypeOK, HandOver
  <2> QED
    BY <1>4, <2>1 DEF Inv, SemTypeOK, HandOver
<1>5. ASSUME NEW s \in Sems, NEW p \in Procs, Free(s, p) PROVE SemTypeOK'
  BY <1>5 DEF Inv, SemTypeOK, Free
<1>6. CASE UNCHANGED semVars
  BY <1>6 DEF semVars, Inv, SemTypeOK
<1> QED
  BY <1>1, <1>2, <1>3, <1>4, <1>5, <1>6 DEF SemNext, Signal

LEMMA FreeStep ==
  ASSUME Inv, [SemNext]_semVars
  PROVE  NoneWaitsOnFree' /\ FreshUntilCreated'
<1> USE DEF NoneWaitsOnFree, FreshUntilCreated
<1>1. ASSUME NEW s \in Sems, NEW n \in InitValues, Create(s, n)
      PROVE  NoneWaitsOnFree' /\ FreshUntilCreated'
  BY <1>1 DEF Inv, SemTypeOK, SemConsistent, Create
<1>2. ASSUME NEW s \in Sems, NEW p \in Procs, Acquire(s, p)
      PROVE  NoneWaitsOnFree' /\ FreshUntilCreated'
  BY <1>2 DEF Inv, SemTypeOK, SemConsistent, Acquire
<1>3. ASSUME NEW s \in Sems, NEW p \in Procs, Block(s, p)
      PROVE  NoneWaitsOnFree' /\ FreshUntilCreated'
  BY <1>3 DEF Inv, SemTypeOK, SemConsistent, Block
<1>4. ASSUME NEW s \in Sems, NEW p \in Procs, HandOver(s, p)
      PROVE  NoneWaitsOnFree' /\ FreshUntilCreated'
  BY <1>4 DEF Inv, SemTypeOK, SemConsistent, HandOver
<1>5. ASSUME NEW s \in Sems, NEW p \in Procs, Free(s, p)
      PROVE  NoneWaitsOnFree' /\ FreshUntilCreated'
  BY <1>5 DEF Inv, SemTypeOK, SemConsistent, Free
<1>6. CASE UNCHANGED semVars
  BY <1>6 DEF semVars, Inv, SemConsistent
<1> QED
  BY <1>1, <1>2, <1>3, <1>4, <1>5, <1>6 DEF SemNext, Signal

LEMMA RequestsStep ==
  ASSUME Inv, [SemNext]_semVars
  PROVE  RequestsAreQueued'
<1> SUFFICES ASSUME NEW q \in Procs, NEW r \in Sems, r \in requests'[q]
             PROVE  q \in Elements(queue'[r])
  BY TypeStep, QueuedElements DEF RequestsAreQueued, SemTypeOK, Queued, Elements
<1>0. r \in requests[q] => q \in Elements(queue[r])
  BY QueuedElements DEF Inv, SemConsistent, RequestsAreQueued
<1>1. ASSUME NEW s \in Sems, NEW n \in InitValues, Create(s, n) PROVE q \in Elements(queue'[r])
  BY <1>1, <1>0 DEF Create
<1>2. ASSUME NEW s \in Sems, NEW p \in Procs, Acquire(s, p) PROVE q \in Elements(queue'[r])
  BY <1>2, <1>0 DEF Acquire, Inv, SemTypeOK
<1>3. ASSUME NEW s \in Sems, NEW p \in Procs, Block(s, p) PROVE q \in Elements(queue'[r])
  <2>1. queue[s] \in Seq(Procs)
    BY DEF Inv, SemTypeOK
  <2>2. Elements(Append(queue[s], p)) = Elements(queue[s]) \cup {p}
    BY <2>1, PushBack
  <2>3. CASE r = s
    <3>1. queue'[r] = Append(queue[s], p)
      BY <1>3, <2>3 DEF Block, Inv, SemTypeOK
    <3>2. r \in requests[q] \/ q = p
      BY <1>3, <2>3 DEF Block, Inv, SemTypeOK
    <3> QED
      BY <1>0, <2>2, <2>3, <3>1, <3>2
  <2>4. CASE r # s
    BY <1>3, <1>0, <2>4 DEF Block, Inv, SemTypeOK
  <2> QED
    BY <2>3, <2>4
<1>4. ASSUME NEW s \in Sems, NEW p \in Procs, HandOver(s, p) PROVE q \in Elements(queue'[r])
  <2>1. queue[s] \in Seq(Procs) /\ queue[s] # <<>>
    BY <1>4 DEF HandOver, Inv, SemTypeOK
  <2>2. Head(queue[s]) \in Procs /\ Elements(queue[s]) = {Head(queue[s])} \cup Elements(Tail(queue[s]))
    BY <2>1, PopFront
  <2>3. CASE r = s
    <3>1. queue'[r] = Tail(queue[s])
      BY <1>4, <2>3 DEF HandOver, Inv, SemTypeOK
    <3>2. q # Head(queue[s]) /\ r \in requests[q]
      BY <1>4, <2>2, <2>3 DEF HandOver, Inv, SemTypeOK
    <3> QED
      BY <1>0, <2>2, <2>3, <3>1, <3>2
  <2>4. CASE r # s
    BY <1>4, <1>0, <2>2, <2>4 DEF HandOver, Inv, SemTypeOK
  <2> QED
    BY <2>3, <2>4
<1>5. ASSUME NEW s \in Sems, NEW p \in Procs, Free(s, p) PROVE q \in Elements(queue'[r])
  BY <1>5, <1>0 DEF Free
<1>6. CASE UNCHANGED semVars
  BY <1>6, <1>0 DEF semVars
<1> QED
  BY <1>1, <1>2, <1>3, <1>4, <1>5, <1>6 DEF SemNext, Signal

LEMMA HolderStep ==
  ASSUME Inv, [SemNext]_semVars
  PROVE  HolderIsAssigned'
<1> USE HolderAssumption DEF HolderIsAssigned
<1>1. ASSUME NEW s \in Sems, NEW n \in InitValues, Create(s, n) PROVE HolderIsAssigned'
  BY <1>1 DEF Create, Inv, SemConsistent
<1>2. ASSUME NEW s \in Sems, NEW p \in Procs, Acquire(s, p) PROVE HolderIsAssigned'
  BY <1>2 DEF Acquire, Inv, SemConsistent, SemTypeOK
<1>3. ASSUME NEW s \in Sems, NEW p \in Procs, Block(s, p) PROVE HolderIsAssigned'
  BY <1>3 DEF Block, Inv, SemConsistent
<1>4. ASSUME NEW s \in Sems, NEW p \in Procs, HandOver(s, p) PROVE HolderIsAssigned'
  BY <1>4 DEF HandOver, Inv, SemConsistent, SemTypeOK
<1>5. ASSUME NEW s \in Sems, NEW p \in Procs, Free(s, p) PROVE HolderIsAssigned'
  BY <1>5 DEF Free, Inv, SemConsistent, SemTypeOK
<1>6. CASE UNCHANGED semVars
  BY <1>6 DEF semVars, Inv, SemConsistent
<1> QED
  BY <1>1, <1>2, <1>3, <1>4, <1>5, <1>6 DEF SemNext, Signal

LEMMA StepInv == Inv /\ [SemNext]_semVars => Inv'
  BY TypeStep, FreeStep, RequestsStep, HolderStep DEF Inv, SemConsistent

(* Whatever sequence of calls arrives, no process sleeps on a free         *)
(* semaphore and the edges the deadlock detector reads agree with the      *)
(* queues and the holders.                                                 *)
THEOREM ManagerConsistent == Spec => [](SemTypeOK /\ SemConsistent)
<1>1. Inv => SemTypeOK /\ SemConsistent
  BY DEF Inv
<1> QED
  BY <1>1, InitInv, StepInv, PTL DEF Spec

(* Types are kept, whoever calls.                                          *)
COROLLARY ManagerTypes == Spec => []SemTypeOK
<1>1. SemTypeOK /\ SemConsistent => SemTypeOK
  OBVIOUS
<1> QED
  BY <1>1, ManagerConsistent, PTL

(* While processes wait, semaphores change hands in the order of the       *)
(* queue.                                                                  *)
THEOREM GrantsInOrder == Spec => NoOvertaking
<1>1. ASSUME Inv, [SemNext]_semVars,
             NEW r \in Sems, NEW q \in assigned'[r] \ assigned[r], queue[r] # <<>>
      PROVE  q = Head(queue[r])
  <2>1. ASSUME NEW s \in Sems, NEW p \in Procs, Acquire(s, p) PROVE FALSE
    <3>1. r = s
      BY <2>1, <1>1 DEF Acquire, Inv, SemTypeOK
    <3> QED
      BY <3>1, <2>1, <1>1 DEF Acquire, Inv, SemConsistent, NoneWaitsOnFree
  <2>2. ASSUME NEW s \in Sems, NEW p \in Procs, HandOver(s, p) PROVE q = Head(queue[r])
    BY <2>2, <1>1 DEF HandOver, Inv, SemTypeOK
  <2>3. ASSUME NEW s \in Sems, NEW p \in Procs, Free(s, p) PROVE FALSE
    BY <2>3, <1>1 DEF Free, Inv, SemTypeOK
  <2>4. ASSUME assigned' = assigned PROVE FALSE
    BY <2>4, <1>1
  <2>5. ASSUME NEW s \in Sems, NEW p \in Procs, Block(s, p) PROVE FALSE
    BY <2>4, <2>5 DEF Block
  <2>6. ASSUME NEW s \in Sems, NEW n \in InitValues, Create(s, n) PROVE FALSE
    BY <2>4, <2>6 DEF Create
  <2>7. CASE UNCHANGED semVars
    BY <2>4, <2>7 DEF semVars
  <2> QED
    BY <1>1, <2>1, <2>2, <2>3, <2>5, <2>6, <2>7 DEF SemNext, Signal
<1>2. Inv /\ [SemNext]_semVars
        => [\A s \in Sems : \A p \in assigned'[s] \ assigned[s] :
              queue[s] # <<>> => p = Head(queue[s])]_semVars
  BY <1>1
<1> QED
  BY <1>2, InitInv, StepInv, PTL DEF Spec, NoOvertaking

-----------------------------------------------------------------------------
(* Callers that follow the rules.                                          *)

Distinct(q) == \A i, j \in DOMAIN q : q[i] = q[j] => i = j

FiniteHolders == \A s \in Sems : IsFiniteSet(assigned[s])

FairInv == Inv /\ QueuesAreRequests /\ FiniteHolders /\ UnitsConserved

LEMMA FairIsAny == [FairNext]_semVars => [SemNext]_semVars
  BY DEF FairNext, SemNext

LEMMA QueueFacts ==
  ASSUME QueuesAreRequests, NEW s \in Sems
  PROVE  /\ Distinct(queue[s])
         /\ \A p \in Elements(queue[s]) : requests[p] = {s} /\ p \notin assigned[s]
  BY QueuedElements DEF QueuesAreRequests, Distinct

LEMMA FairInitInv == SemInit => FairInv
<1> SUFFICES ASSUME SemInit PROVE FairInv
  OBVIOUS
<1>1. QueuesAreRequests
  BY DEF SemInit, QueuesAreRequests, Queued
<1>2. FiniteHolders
  BY FS_EmptySet DEF SemInit, FiniteHolders
<1>3. UnitsConserved
  BY DEF SemInit, UnitsConserved
<1> QED
  BY <1>1, <1>2, <1>3, InitInv DEF FairInv

LEMMA DistinctPush ==
  ASSUME NEW S, NEW q \in Seq(S), NEW x \in S, Distinct(q), x \notin Elements(q)
  PROVE  Distinct(Append(q, x))
<1> SUFFICES ASSUME NEW i \in DOMAIN Append(q, x), NEW j \in DOMAIN Append(q, x),
                    Append(q, x)[i] = Append(q, x)[j]
             PROVE  i = j
  BY DEF Distinct
<1>1. /\ Append(q, x)[i] = IF i \in DOMAIN q THEN q[i] ELSE x
      /\ Append(q, x)[j] = IF j \in DOMAIN q THEN q[j] ELSE x
      /\ i \notin DOMAIN q /\ j \notin DOMAIN q => i = j
  BY PushBack
<1>2. \A k \in DOMAIN q : q[k] # x
  BY DEF Elements
<1> QED
  BY <1>1, <1>2 DEF Distinct

LEMMA DistinctPop ==
  ASSUME NEW S, NEW q \in Seq(S), q # <<>>, Distinct(q)
  PROVE  Distinct(Tail(q)) /\ Head(q) \notin Elements(Tail(q))
<1>1. /\ \A i \in DOMAIN Tail(q) : i + 1 \in DOMAIN q /\ Tail(q)[i] = q[i + 1] /\ i \in Nat \ {0}
      /\ 1 \in DOMAIN q /\ Head(q) = q[1]
  BY PopFront
<1>2. ASSUME NEW i \in DOMAIN Tail(q), NEW j \in DOMAIN Tail(q), Tail(q)[i] = Tail(q)[j]
      PROVE  i = j
  <2>1. i + 1 = j + 1
    BY <1>1, <1>2 DEF Distinct
  <2> QED
    BY <1>1, <2>1
<1>3. ASSUME NEW i \in DOMAIN Tail(q) PROVE Tail(q)[i] # Head(q)
  <2>1. i + 1 # 1
    BY <1>1, <1>3
  <2> QED
    BY <1>1, <1>3, <2>1 DEF Distinct
<1> QED
  BY <1>2, <1>3 DEF Distinct, Elements

LEMMA QueuesStep ==
  ASSUME FairInv, [FairNext]_semVars
  PROVE  QueuesAreRequests'
<1> SUFFICES ASSUME NEW r \in Sems
             PROVE  /\ Distinct(queue'[r])
                    /\ \A q \in Elements(queue'[r]) : requests'[q] = {r} /\ q \notin assigned'[r]
  BY QueuedElements DEF QueuesAreRequests, Distinct, Queued, Elements
<1> DEFINE Goal == /\ Distinct(queue'[r])
                   /\ \A q \in Elements(queue'[r]) : requests'[q] = {r} /\ q \notin assigned'[r]
<1>0. /\ Distinct(queue[r])
      /\ \A q \in Elements(queue[r]) : requests[q] = {r} /\ q \notin assigned[r] /\ q \in Procs
  <2>1. queue[r] \in Seq(Procs)
    BY DEF FairInv, Inv, SemTypeOK
  <2>2. \A q \in Elements(queue[r]) : q \in Procs
    BY <2>1 DEF Elements
  <2> QED
    BY <2>2, QueueFacts DEF FairInv
<1>1. ASSUME NEW s \in Sems, NEW n \in InitValues, Create(s, n) PROVE Goal
  BY <1>1, <1>0 DEF Create
<1>2. ASSUME NEW s \in Sems, NEW p \in Procs, MayWait(s, p), Acquire(s, p) PROVE Goal
  <2>1. requests' = requests /\ queue' = queue
    BY <1>2 DEF Acquire, MayWait, Waits, FairInv, Inv, SemTypeOK
  <2>2. p \notin Elements(queue[r])
    BY <1>0, <1>2 DEF MayWait, Waits
  <2>3. assigned'[r] \subseteq assigned[r] \cup {p}
    BY <1>2 DEF Acquire, FairInv, Inv, SemTypeOK
  <2> QED
    BY <1>0, <2>1, <2>2, <2>3
<1>3. ASSUME NEW s \in Sems, NEW p \in Procs, MayWait(s, p), Block(s, p) PROVE Goal
  <2>1. requests' = [requests EXCEPT ![p] = {s}] /\ assigned' = assigned
    BY <1>3 DEF Block, MayWait, Waits
  <2>2. p \notin Elements(queue[r])
    BY <1>0, <1>3 DEF MayWait, Waits
  <2>3. \A q \in Elements(queue[r]) : requests'[q] = {r} /\ q \notin assigned'[r]
    BY <1>0, <2>1, <2>2 DEF FairInv, Inv, SemTypeOK
  <2>4. CASE r = s
    <3>1. queue[r] \in Seq(Procs) /\ queue'[r] = Append(queue[r], p)
      BY <1>3, <2>4 DEF Block, FairInv, Inv, SemTypeOK
    <3>2. Elements(queue'[r]) = Elements(queue[r]) \cup {p}
      BY <3>1, PushBack
    <3>3. Distinct(queue'[r])
      BY <1>0, <2>2, <3>1, DistinctPush
    <3>4. requests'[p] = {r} /\ p \notin assigned'[r]
      BY <1>3, <2>1, <2>4 DEF MayWait, FairInv, Inv, SemTypeOK
    <3> QED
      BY <2>3, <3>2, <3>3, <3>4
  <2>5. CASE r # s
    <3>1. queue'[r] = queue[r]
      BY <1>3, <2>5 DEF Block, FairInv, Inv, SemTypeOK
    <3> QED
      BY <1>0, <2>3, <3>1
  <2> QED
    BY <2>4, <2>5
<1>4. ASSUME NEW s \in Sems, NEW p \in Procs, MaySignal(s, p), HandOver(s, p) PROVE Goal
  <2> DEFINE next == Head(queue[s])
  <2>1. queue[s] \in Seq(Procs) /\ queue[s] # <<>>
    BY <1>4 DEF HandOver, FairInv, Inv, SemTypeOK
  <2>2. next \in Elements(queue[s]) /\ Elements(queue[s]) = {next} \cup Elements(Tail(queue[s]))
    BY <2>1, PopFront
  <2>3. Distinct(queue[s]) /\ requests[next] = {s}
    BY <2>2, QueueFacts DEF FairInv
  <2>4. Distinct(Tail(queue[s])) /\ next \notin Elements(Tail(queue[s]))
    BY <2>1, <2>3, DistinctPop
  <2>5. /\ requests' = [requests EXCEPT ![next] = requests[next] \ {s}]
        /\ queue' = [queue EXCEPT ![s] = Tail(queue[s])]
        /\ assigned' = [assigned EXCEPT ![s] = (assigned[s] \ {p}) \cup {next}]
    BY <1>4 DEF HandOver
  <2> HIDE DEF next
  <2>6. CASE r = s
    <3>1. queue'[r] = Tail(queue[s])
      BY <2>5, <2>6 DEF FairInv, Inv, SemTypeOK
    <3>2. \A q \in Elements(queue'[r]) : q \in Elements(queue[r]) /\ q # next
      BY <2>2, <2>4, <2>6, <3>1
    <3>3. \A q \in Elements(queue'[r]) : requests'[q] = requests[q]
      BY <1>0, <2>5, <3>2 DEF FairInv, Inv, SemTypeOK
    <3>4. assigned'[r] \subseteq assigned[r] \cup {next}
      BY <2>5, <2>6 DEF FairInv, Inv, SemTypeOK
    <3> QED
      BY <1>0, <2>4, <3>1, <3>2, <3>3, <3>4
  <2>7. CASE r # s
    <3>1. queue'[r] = queue[r] /\ assigned'[r] = assigned[r]
      BY <2>5, <2>7 DEF FairInv, Inv, SemTypeOK
    <3>2. next \notin Elements(queue[r])
      BY <1>0, <2>3, <2>7
    <3>3. \A q \in Elements(queue[r]) : requests'[q] = requests[q]
      BY <1>0, <2>5, <3>2 DEF FairInv, Inv, SemTypeOK
    <3> QED
      BY <1>0, <3>1, <3>3
  <2> QED
    BY <2>6, <2>7
<1>5. ASSUME NEW s \in Sems, NEW p \in Procs, Free(s, p) PROVE Goal
  <2>1. assigned'[r] \subseteq assigned[r] /\ queue' = queue /\ requests' = requests
    BY <1>5 DEF Free, FairInv, Inv, SemTypeOK
  <2> QED
    BY <1>0, <2>1
<1>6. CASE UNCHANGED semVars
  BY <1>6, <1>0 DEF semVars
<1> QED
  BY <1>1, <1>2, <1>3, <1>4, <1>5, <1>6 DEF FairNext, Signal

LEMMA FiniteStep ==
  ASSUME FairInv, [FairNext]_semVars
  PROVE  FiniteHolders'
<1> SUFFICES ASSUME NEW r \in Sems PROVE IsFiniteSet(assigned'[r])
  BY DEF FiniteHolders
<1>1. PICK p : assigned'[r] \subseteq assigned[r] \cup {p}
  <2>1. ASSUME NEW s \in Sems, NEW p \in Procs, Acquire(s, p)
        PROVE  assigned'[r] \subseteq assigned[r] \cup {p}
    BY <2>1 DEF Acquire, FairInv, Inv, SemTypeOK
  <2>2. ASSUME NEW s \in Sems, NEW p \in Procs, HandOver(s, p)
        PROVE  \E n : assigned'[r] \subseteq assigned[r] \cup {n}
    BY <2>2 DEF HandOver, FairInv, Inv, SemTypeOK
  <2>3. ASSUME NEW s \in Sems, NEW p \in Procs, Free(s, p)
        PROVE  assigned'[r] \subseteq assigned[r] \cup {p}
    BY <2>3 DEF Free, FairInv, Inv, SemTypeOK
  <2>4. ASSUME NEW s \in Sems, NEW p \in Procs, Block(s, p) PROVE assigned' = assigned
    BY <2>4 DEF Block
  <2>5. ASSUME NEW s \in Sems, NEW n \in InitValues, Create(s, n) PROVE assigned' = assigned
    BY <2>5 DEF Create
  <2>6. ASSUME UNCHANGED semVars PROVE assigned' = assigned
    BY <2>6 DEF semVars
  <2> QED
    BY <2>1, <2>2, <2>3, <2>4, <2>5, <2>6 DEF FairNext, Signal
<1>2. IsFiniteSet(assigned[r] \cup {p})
  BY FS_AddElement DEF FairInv, FiniteHolders
<1> QED
  BY <1>1, <1>2, FS_Subset

LEMMA UnitsStep ==
  ASSUME FairInv, [FairNext]_semVars
  PROVE  UnitsConserved'
<1> SUFFICES ASSUME NEW r \in created', units'[r] >= 0
             PROVE  value'[r] + Cardinality(assigned'[r]) = units'[r]
  BY DEF UnitsConserved
<1> DEFINE Goal == value'[r] + Cardinality(assigned'[r]) = units'[r]
<1>0. /\ r \in Sems /\ value[r] \in Int /\ units[r] \in Int
      /\ IsFiniteSet(assigned[r]) /\ Cardinality(assigned[r]) \in Nat
      /\ r \in created /\ units[r] >= 0 => value[r] + Cardinality(assigned[r]) = units[r]
  <2>1. r \in Sems
    BY TypeStep, FairIsAny DEF FairInv, SemTypeOK
  <2> QED
    BY <2>1, FS_CardinalityType DEF FairInv, Inv, SemTypeOK, FiniteHolders, UnitsConserved
<1>1. ASSUME NEW s \in Sems, NEW n \in InitValues, Create(s, n) PROVE Goal
  <2>1. CASE r = s
    <3>1. assigned'[r] = {} /\ value'[r] = n /\ units'[r] = n /\ n \in Int
      BY <1>1, <2>1, ValuesAssumption DEF Create, FairInv, Inv, SemTypeOK, FreshUntilCreated
    <3> QED
      BY <3>1, FS_EmptySet
  <2>2. CASE r # s
    BY <1>0, <1>1, <2>2 DEF Create, FairInv, Inv, SemTypeOK
  <2> QED
    BY <2>1, <2>2
<1>2. ASSUME NEW s \in Sems, NEW p \in Procs, MayWait(s, p), Acquire(s, p) PROVE Goal
  <2>1. CASE r = s
    <3>1. /\ value'[r] = value[r] - 1 /\ units'[r] = units[r] /\ r \in created
          /\ assigned'[r] = assigned[r] \cup {p} /\ p \notin assigned[r]
      BY <1>2, <2>1 DEF Acquire, MayWait, FairInv, Inv, SemTypeOK
    <3>2. Cardinality(assigned'[r]) = Cardinality(assigned[r]) + 1
      BY <1>0, <3>1, FS_AddElement
    <3> QED
      BY <1>0, <3>1, <3>2
  <2>2. CASE r # s
    BY <1>0, <1>2, <2>2 DEF Acquire, FairInv, Inv, SemTypeOK
  <2> QED
    BY <2>1, <2>2
<1>3. ASSUME NEW s \in Sems, NEW p \in Procs, Block(s, p) PROVE Goal
  BY <1>0, <1>3 DEF Block
<1>4. ASSUME NEW s \in Sems, NEW p \in Procs, MaySignal(s, p), HandOver(s, p) PROVE Goal
  <2>1. CASE r = s
    <3> DEFINE next == Head(queue[s])
    <3>1. queue[s] \in Seq(Procs) /\ queue[s] # <<>>
      BY <1>4 DEF HandOver, FairInv, Inv, SemTypeOK
    <3>2. next \in Elements(queue[s])
      BY <3>1, PopFront
    <3>3. next \notin assigned[r] /\ p \in assigned[r]
      BY <1>4, <2>1, <3>2, QueueFacts DEF FairInv, MaySignal
    <3>4. /\ value'[r] = value[r] /\ units'[r] = units[r] /\ r \in created
          /\ assigned'[r] = (assigned[r] \ {p}) \cup {next}
      BY <1>4, <2>1 DEF HandOver, FairInv, Inv, SemTypeOK
    <3> HIDE DEF next
    <3>5. /\ IsFiniteSet(assigned[r] \ {p})
          /\ Cardinality(assigned[r] \ {p}) = Cardinality(assigned[r]) - 1
      BY <1>0, <3>3, FS_RemoveElement
    <3>6. Cardinality(assigned'[r]) = Cardinality(assigned[r] \ {p}) + 1
      BY <3>3, <3>4, <3>5, FS_AddElement
    <3> QED
      BY <1>0, <3>4, <3>5, <3>6
  <2>2. CASE r # s
    BY <1>0, <1>4, <2>2 DEF HandOver, FairInv, Inv, SemTypeOK
  <2> QED
    BY <2>1, <2>2
<1>5. ASSUME NEW s \in Sems, NEW p \in Procs, MaySignal(s, p), Free(s, p) PROVE Goal
  <2>1. CASE r = s
    <3>1. /\ value'[r] = value[r] + 1 /\ units'[r] = units[r] /\ r \in created
          /\ assigned'[r] = assigned[r] \ {p} /\ p \in assigned[r]
      BY <1>5, <2>1 DEF Free, MaySignal, FairInv, Inv, SemTypeOK
    <3>2. Cardinality(assigned'[r]) = Cardinality(assigned[r]) - 1
      BY <1>0, <3>1, FS_RemoveElement
    <3> QED
      BY <1>0, <3>1, <3>2
  <2>2. CASE r # s
    BY <1>0, <1>5, <2>2 DEF Free, FairInv, Inv, SemTypeOK
  <2> QED
    BY <2>1, <2>2
<1>6. CASE UNCHANGED semVars
  BY <1>0, <1>6 DEF semVars
<1> QED
  BY <1>1, <1>2, <1>3, <1>4, <1>5, <1>6 DEF FairNext, Signal

LEMMA FairStepInv == FairInv /\ [FairNext]_semVars => FairInv'
  BY FairIsAny, StepInv, QueuesStep, FiniteStep, UnitsStep DEF FairInv

(* Among callers that follow the rules no unit of a semaphore is made or   *)
(* lost: at most as many processes hold it as it was created with.         *)
THEOREM MutualExclusion == FairSpec => [](UnitsConserved /\ QueuesAreRequests)
<1>1. FairInv => UnitsConserved /\ QueuesAreRequests
  BY DEF FairInv
<1> QED
  BY <1>1, FairInitInv, FairStepInv, PTL DEF FairSpec

(* They keep every promise of the manager to arbitrary callers.            *)
THEOREM FairIsConsistent == FairSpec => [](SemTypeOK /\ SemConsistent)
<1>1. FairSpec => Spec
  BY FairIsAny, PTL DEF FairSpec, Spec
<1> QED
  BY <1>1, ManagerConsistent, PTL

-----------------------------------------------------------------------------
(* Deadlocks.  A set of processes is closed when each of them requests a   *)
(* semaphore that is held by processes of the set only.                    *)
Closed(C) == \A p \in C : \E s \in requests[p] : assigned[s] # {} /\ assigned[s] \subseteq C

(* The processes of a closed set wait for ever: no call releases one.      *)
ClosedLasts == [][\A C \in SUBSET Procs : Closed(C) => Closed(C)']_semVars

(* The semaphore a process of a closed set requests keeps its holders and  *)
(* its requests: nobody acquires it, and its holders cannot signal.        *)
LEMMA ClosedKept ==
  ASSUME FairInv, [FairNext]_semVars,
         NEW C \in SUBSET Procs, \A h \in C : Waits(h),
         NEW p \in Procs, NEW r \in requests[p], assigned[r] # {}, assigned[r] \subseteq C
  PROVE  r \in requests'[p] /\ assigned'[r] = assigned[r]
<1> DEFINE Goal == r \in requests'[p] /\ assigned'[r] = assigned[r]
<1>0. /\ r \in Sems /\ value[r] \in Int /\ queue[r] \in Seq(Procs)
      /\ p \in Elements(queue[r]) /\ queue[r] # <<>> /\ ~(value[r] > 0)
  <2>1. r \in Sems
    BY DEF FairInv, Inv, SemTypeOK
  <2>2. p \in Elements(queue[r])
    BY QueuedElements DEF FairInv, Inv, SemConsistent, RequestsAreQueued
  <2>3. queue[r] # <<>>
    BY <2>2 DEF Elements
  <2> QED
    BY <2>1, <2>2, <2>3 DEF FairInv, Inv, SemTypeOK, SemConsistent, NoneWaitsOnFree
<1>1. ASSUME NEW s \in Sems, NEW n \in InitValues, Create(s, n) PROVE Goal
  BY <1>1 DEF Create
<1>2. ASSUME NEW s \in Sems, NEW q \in Procs, Acquire(s, q) PROVE Goal
  <2>1. s # r
    BY <1>0, <1>2 DEF Acquire
  <2> QED
    BY <1>0, <1>2, <2>1 DEF Acquire, FairInv, Inv, SemTypeOK
<1>3. ASSUME NEW s \in Sems, NEW q \in Procs, Block(s, q) PROVE Goal
  BY <1>3 DEF Block, FairInv, Inv, SemTypeOK
<1>4. ASSUME NEW s \in Sems, NEW q \in Procs, MaySignal(s, q), HandOver(s, q) PROVE Goal
  <2>1. s # r
    BY <1>4 DEF MaySignal
  <2>2. Head(queue[s]) \in Procs
    BY <1>4, PopFront DEF HandOver, FairInv, Inv, SemTypeOK
  <2> QED
    BY <1>0, <1>4, <2>1, <2>2 DEF HandOver, FairInv, Inv, SemTypeOK
<1>5. ASSUME NEW s \in Sems, NEW q \in Procs, MaySignal(s, q), Free(s, q) PROVE Goal
  <2>1. s # r
    BY <1>5 DEF MaySignal
  <2> QED
    BY <1>0, <1>5, <2>1 DEF Free, FairInv, Inv, SemTypeOK
<1>6. CASE UNCHANGED semVars
  BY <1>6 DEF semVars
<1> QED
  BY <1>1, <1>2, <1>3, <1>4, <1>5, <1>6 DEF FairNext, Signal

(* Among callers that follow the rules, whatever values the semaphores     *)
(* were created with, a closed set of waiting processes never gets out.    *)
THEOREM ClosedSetsLast == FairSpec => ClosedLasts
<1>1. ASSUME FairInv, [FairNext]_semVars, NEW C \in SUBSET Procs, Closed(C)
      PROVE  Closed(C)'
  <2> SUFFICES ASSUME NEW p \in C
               PROVE  \E s \in requests'[p] : assigned'[s] # {} /\ assigned'[s] \subseteq C
    BY DEF Closed
  <2>1. PICK r \in requests[p] : assigned[r] # {} /\ assigned[r] \subseteq C
    BY <1>1 DEF Closed
  <2>2. \A h \in C : Waits(h)
    BY <1>1 DEF Closed, Waits
  <2>3. r \in requests'[p] /\ assigned'[r] = assigned[r]
    BY <1>1, <2>1, <2>2, ClosedKept
  <2> QED
    BY <2>1, <2>3
<1>2. FairInv /\ [FairNext]_semVars
        => [\A C \in SUBSET Procs : Closed(C) => Closed(C)']_semVars
  BY <1>1
<1> QED
  BY <1>2, FairInitInv, FairStepInv, PTL DEF FairSpec, ClosedLasts

(* The processes of a deadlock stay in it.                                 *)
NeverResolved == [][\A C \in SUBSET Procs : Deadlocked(C) => Deadlocked(C)']_semVars

(* What semaphores created with 1 add to the invariant.                    *)
Binary == /\ \A s \in created : units[s] = 1
          /\ \A s \in Sems : value[s] >= 0

LEMMA BinaryStep ==
  ASSUME InitValues \subseteq {1}, Inv, Binary, [SemNext]_semVars
  PROVE  Binary'
<1>1. ASSUME NEW s \in Sems, NEW n \in InitValues, Create(s, n) PROVE Binary'
  BY <1>1 DEF Create, Binary, Inv, SemTypeOK
<1>2. ASSUME NEW s \in Sems, NEW p \in Procs, Acquire(s, p) PROVE Binary'
  BY <1>2 DEF Acquire, Binary, Inv, SemTypeOK
<1>3. ASSUME NEW s \in Sems, NEW p \in Procs, Block(s, p) PROVE Binary'
  BY <1>3 DEF Block, Binary
<1>4. ASSUME NEW s \in Sems, NEW p \in Procs, HandOver(s, p) PROVE Binary'
  BY <1>4 DEF HandOver, Binary
<1>5. ASSUME NEW s \in Sems, NEW p \in Procs, Free(s, p) PROVE Binary'
  BY <1>5 DEF Free, Binary, Inv, SemTypeOK
<1>6. CASE UNCHANGED semVars
  BY <1>6 DEF semVars, Binary
<1> QED
  BY <1>1, <1>2, <1>3, <1>4, <1>5, <1>6 DEF SemNext, Signal

(* A process has one holder at most to wait for.                           *)
LEMMA OneHolder ==
  ASSUME FairInv, Binary, NEW s \in Sems, NEW h \in assigned[s]
  PROVE  assigned[s] = {h}
<1>1. s \in created
  BY DEF FairInv, Inv, FreshUntilCreated
<1>2. /\ value[s] + Cardinality(assigned[s]) = 1 /\ value[s] \in Int /\ value[s] >= 0
      /\ IsFiniteSet(assigned[s])
  <2>1. units[s] = 1 /\ value[s] >= 0
    BY <1>1 DEF Binary
  <2>2. value[s] + Cardinality(assigned[s]) = units[s]
    BY <1>1, <2>1 DEF FairInv, UnitsConserved
  <2> QED
    BY <2>1, <2>2 DEF FairInv, Inv, SemTypeOK, FiniteHolders
<1>3. /\ IsFiniteSet(assigned[s] \ {h})
      /\ Cardinality(assigned[s] \ {h}) = Cardinality(assigned[s]) - 1
      /\ Cardinality(assigned[s]) \in Nat /\ Cardinality(assigned[s] \ {h}) \in Nat
  BY <1>2, FS_RemoveElement, FS_CardinalityType
<1>4. Cardinality(assigned[s] \ {h}) = 0
  BY <1>2, <1>3
<1>5. assigned[s] \ {h} = {}
  BY <1>3, <1>4, FS_EmptySet
<1> QED
  BY <1>5

(* Among callers that follow the rules, on semaphores created with 1, the  *)
(* processes of a deadlock wait for each other for ever.                   *)
THEOREM DeadlockedStay ==
  ASSUME InitValues \subseteq {1}
  PROVE  FairSpec => NeverResolved
<1>1. ASSUME FairInv, Binary, [FairNext]_semVars, NEW C \in SUBSET Procs, Deadlocked(C)
      PROVE  Deadlocked(C)'
  <2> SUFFICES ASSUME NEW p \in C
               PROVE  \E q \in C : q \in WaitsFor'[p]
    BY DEF Deadlocked
  <2>1. ASSUME NEW q \in C
        PROVE  \E h \in C : \E s \in requests[q] : s \in Sems /\ h # q /\ h \in assigned[s]
    <3>1. PICK h \in C : h \in WaitsFor[q]
      BY <1>1 DEF Deadlocked
    <3>2. h # q /\ h \in UNION {assigned[s] : s \in requests[q]}
      BY <3>1 DEF WaitsFor
    <3>3. PICK s \in requests[q] : h \in assigned[s]
      BY <3>2
    <3>4. s \in Sems
      BY <1>1 DEF FairInv, Inv, SemTypeOK
    <3> QED
      BY <3>2, <3>3, <3>4
  <2>2. \A h \in C : Waits(h)
    BY <2>1 DEF Waits
  <2>3. PICK h \in C, r \in requests[p] : r \in Sems /\ h # p /\ h \in assigned[r]
    BY <2>1
  <2>4. assigned[r] = {h}
    BY <1>1, <2>3, OneHolder
  <2>5. assigned[r] # {} /\ assigned[r] \subseteq C
    BY <2>4
  <2>6. r \in requests'[p] /\ assigned'[r] = {h}
    BY <1>1, <2>2, <2>4, <2>5, ClosedKept
  <2> QED
    BY <2>3, <2>6 DEF WaitsFor
<1>2. FairInv /\ Binary /\ [FairNext]_semVars
        => [\A C \in SUBSET Procs : Deadlocked(C) => Deadlocked(C)']_semVars
  BY <1>1
<1>3. SemInit => Binary
  BY DEF SemInit, Binary
<1>4. FairInv /\ Binary /\ [FairNext]_semVars => FairInv' /\ Binary'
  BY FairStepInv, FairIsAny, BinaryStep DEF FairInv
<1> QED
  BY <1>2, <1>3, <1>4, FairInitInv, PTL DEF FairSpec, NeverResolved

(* So what the detector reports is never resolved by a later call.         *)
COROLLARY DeadlocksLast ==
  ASSUME InitValues \subseteq {1}
  PROVE  FairSpec => DeadlockLasts
<1>1. [\A C \in SUBSET Procs : Deadlocked(C) => Deadlocked(C)']_semVars
        => [Deadlock => Deadlock']_semVars
  BY DEF Deadlock
<1>2. FairSpec => NeverResolved
  BY DeadlockedStay
<1> QED
  BY <1>1, <1>2, PTL DEF NeverResolved, DeadlockLasts

-----------------------------------------------------------------------------
(* The process table.                                                      *)

States == {"NONE", "READY", "RUNNING", "WAITING", "TERMINATED"}

LEMMA ProcInitTypes == ProcInit => ProcTypeOK
<1> SUFFICES ASSUME ProcInit PROVE ProcTypeOK
  OBVIOUS
<1>1. \A p \in Pids : p \in Nat /\ p >= FirstPid /\ FirstPid \in Nat
  BY PidsAssumption
<1>2. 0 \in 0 .. MaxTicks /\ nextPid \in Int
  BY TicksAssumption, PidsAssumption DEF ProcInit
<1> QED
  BY <1>1, <1>2 DEF ProcInit, ProcTypeOK, Forked

LEMMA ProcStep ==
  ASSUME ProcTypeOK, [ProcNext]_procVars
  PROVE  ProcTypeOK'
<1>0. Pids \subseteq Nat /\ MaxTicks \in Nat /\ Priorities \subseteq Nat
  BY PidsAssumption, TicksAssumption, PrioritiesAssumption
<1>1. ASSUME NEW n \in Priorities, Fork(n) PROVE ProcTypeOK'
  <2>1. /\ nextPid \in Pids /\ nextPid' = nextPid + 1
        /\ state' = [state EXCEPT ![nextPid] = "READY"]
        /\ priority' = [priority EXCEPT ![nextPid] = n]
        /\ ticks' = [ticks EXCEPT ![nextPid] = 0]
    BY <1>1 DEF Fork
  <2>2. \A p \in Pids : Forked(p)' <=> p < nextPid'
    <3> SUFFICES ASSUME NEW p \in Pids PROVE Forked(p)' <=> p < nextPid'
      OBVIOUS
    <3>1. p \in Nat /\ nextPid \in Nat /\ (p < nextPid' <=> p < nextPid \/ p = nextPid)
      BY <1>0, <2>1
    <3>2. Forked(p)' <=> Forked(p) \/ p = nextPid
      BY <2>1 DEF Forked, ProcTypeOK
    <3> QED
      BY <3>1, <3>2 DEF ProcTypeOK
  <2>3. nextPid' \in Int /\ 0 \in 0 .. MaxTicks /\ n \in Nat
    BY <1>0, <2>1
  <2> QED
    BY <2>1, <2>2, <2>3 DEF ProcTypeOK
<1>2. ASSUME NEW p \in Pids, NEW s \in States \ {"NONE"}, Transition(p, s) PROVE ProcTypeOK'
  <2>1. /\ UNCHANGED <<nextPid, priority, ticks>>
        /\ state' \in [Pids -> States]
        /\ \A q \in Pids : Forked(q)' <=> Forked(q)
    BY <1>2 DEF Transition, ProcTypeOK, Forked, States
  <2> QED
    BY <2>1 DEF ProcTypeOK, States
<1>3. ASSUME Tick PROVE ProcTypeOK'
  <2>1. ASSUME NEW p \in Pids, ticks[p] < MaxTicks PROVE ticks[p] + 1 \in 0 .. MaxTicks
    BY <1>0, <2>1 DEF ProcTypeOK
  <2>2. ticks' \in [Pids -> 0 .. MaxTicks]
    BY <1>3, <2>1 DEF Tick, ProcTypeOK
  <2> QED
    BY <1>3, <2>2 DEF Tick, ProcTypeOK, Forked
<1>4. CASE UNCHANGED procVars
  BY <1>4 DEF procVars, ProcTypeOK, Forked
<1>5. ASSUME NEW p \in Pids, ProcCall(p) PROVE ProcTypeOK'
  BY <1>2, <1>5 DEF ProcCall, ProcRun, ProcWait, ProcReady, ProcExit, States
<1> QED
  BY <1>1, <1>3, <1>4, <1>5 DEF ProcNext

LEMMA AlwaysProcTypes == ProcInit /\ [][ProcNext]_procVars => []ProcTypeOK
  BY ProcInitTypes, ProcStep, PTL

(* The table has an entry for every pid given out and for no other.        *)
THEOREM ProcessTypes == ProcSpec => []ProcTypeOK
  BY AlwaysProcTypes, PTL DEF ProcSpec

(* The effective priority is a number that age lowers to 0 at least.       *)
LEMMA Boost ==
  ASSUME ProcTypeOK, NEW p \in Pids
  PROVE  /\ EffectivePriority(p) \in Nat
         /\ ticks[p] >= 5 * priority[p] => EffectivePriority(p) = 0
<1>1. ticks[p] \in Nat /\ priority[p] \in Nat
  BY TicksAssumption DEF ProcTypeOK
<1>2. /\ ticks[p] \div 5 \in Nat
      /\ ticks[p] >= 5 * priority[p] => ~(priority[p] - ticks[p] \div 5 > 0)
  BY <1>1
<1> QED
  BY <1>1, <1>2 DEF EffectivePriority

(* Five ticks for each unit of its priority bring a process to the front   *)
(* of the ready queue, whatever the others were forked with.               *)
AgedIsFirst == \A p \in Ready : ticks[p] >= 5 * priority[p] => AtFront(p)

(* The effective priority of a READY process never gets worse: no fork     *)
(* takes its entry, no transition forgets how long it has waited.          *)
AgeCounts == [][\A p \in Ready : EffectivePriority(p)' <= EffectivePriority(p)]_procVars

(* The safety half of AgingReachesFront: ageing never goes back, and       *)
(* enough of it ends at the front.                                         *)
THEOREM AgingHelps == ProcSpec => []AgedIsFirst /\ AgeCounts
<1>1. ProcTypeOK => AgedIsFirst
  <2> SUFFICES ASSUME ProcTypeOK, NEW p \in Ready, ticks[p] >= 5 * priority[p]
               PROVE  AtFront(p)
    BY DEF AgedIsFirst
  <2>1. \A q \in Ready : EffectivePriority(q) \in Nat
    BY Boost DEF Ready
  <2>2. EffectivePriority(p) = 0
    BY Boost DEF Ready
  <2> QED
    BY <2>1, <2>2 DEF AtFront
<1>2. ASSUME ProcTypeOK, [ProcNext]_procVars, NEW p \in Ready
      PROVE  EffectivePriority(p)' <= EffectivePriority(p)
  <2>1. /\ p \in Pids /\ p # nextPid
        /\ ticks[p] \in Nat /\ priority[p] \in Nat /\ MaxTicks \in Nat
    <3>1. p \in Pids /\ p \in Nat /\ p < nextPid
      BY <1>2, PidsAssumption DEF Ready, ProcTypeOK, Forked
    <3> QED
      BY <1>2, <3>1, TicksAssumption DEF ProcTypeOK
  <2>2. ASSUME NEW n \in Priorities, Fork(n) PROVE ticks'[p] = ticks[p] /\ priority'[p] = priority[p]
    BY <1>2, <2>1, <2>2 DEF Fork, ProcTypeOK
  <2>3. ASSUME NEW q \in Pids, ProcCall(q) PROVE ticks'[p] = ticks[p] /\ priority'[p] = priority[p]
    BY <2>3 DEF ProcCall, ProcRun, ProcWait, ProcReady, ProcExit, Transition
  <2>4. ASSUME Tick PROVE ticks'[p] \in {ticks[p], ticks[p] + 1} /\ priority'[p] = priority[p]
    BY <2>1, <2>4 DEF Tick
  <2>5. ASSUME UNCHANGED procVars PROVE ticks'[p] = ticks[p] /\ priority'[p] = priority[p]
    BY <2>5 DEF procVars
  <2>6. ticks'[p] \in {ticks[p], ticks[p] + 1} /\ priority'[p] = priority[p]
    BY <1>2, <2>2, <2>3, <2>4, <2>5 DEF ProcNext
  <2>7. ticks[p] \div 5 \in Nat /\ ticks'[p] \div 5 \in Nat /\ ticks'[p] \div 5 >= ticks[p] \div 5
    BY <2>1, <2>6
  <2> QED
    BY <2>1, <2>6, <2>7 DEF EffectivePriority
<1>3. ProcTypeOK /\ [ProcNext]_procVars
        => [\A p \in Ready : EffectivePriority(p)' <= EffectivePriority(p)]_procVars
  BY <1>2
<1> QED
  BY <1>1, <1>3, AlwaysProcTypes, PTL DEF ProcSpec, AgeCounts

-----------------------------------------------------------------------------
(* The semaphore calls of the server.                                      *)

LEMMA SyncSteps ==
  ASSUME [SyncNext]_syncVars
  PROVE  [FairNext]_semVars /\ [ProcNext]_procVars
<1>1. ASSUME NEW s \in Sems, NEW n \in InitValues, SemCreate(s, n)
      PROVE  FairNext /\ UNCHANGED procVars
  BY <1>1 DEF SemCreate, FairNext
<1>2. ASSUME NEW p \in Procs, NEW s \in Sems, SemWait(s, p)
      PROVE  FairNext /\ UNCHANGED procVars
  BY <1>2 DEF SemWait, FairNext
<1>3. ASSUME NEW p \in Procs, NEW s \in Sems, SemSignal(s, p)
      PROVE  FairNext /\ UNCHANGED procVars
  BY <1>3 DEF SemSignal, FairNext
<1>4. ASSUME NEW p \in Procs, Park(p) PROVE ProcNext /\ UNCHANGED semVars
  BY <1>4, SamePidsAssumption DEF Park, ProcNext, ProcCall, ProcWait
<1>5. ASSUME NEW p \in Procs, OwnCall(p) PROVE ProcNext /\ UNCHANGED semVars
  BY <1>5, SamePidsAssumption DEF OwnCall, ProcNext
<1>6. ASSUME NEW p \in Procs, NEW s \in Sems, SemWaitUnknown(s, p)
      PROVE  UNCHANGED <<semVars, procVars>>
  BY <1>6 DEF SemWaitUnknown
<1>7. ASSUME Rest PROVE ProcNext /\ UNCHANGED semVars
  BY <1>7 DEF Rest, ProcNext
<1>8. ASSUME UNCHANGED syncVars PROVE UNCHANGED <<semVars, procVars>>
  BY <1>8 DEF syncVars
<1> HIDE DEF FairNext, ProcNext
<1> QED
  BY <1>1, <1>2, <1>3, <1>4, <1>5, <1>6, <1>7, <1>8 DEF SyncNext

(* The server's calls are calls of callers that follow the rules, so what  *)
(* holds of those holds of the server.                                     *)
THEOREM CallsFollowRules == SyncSpec => FairSpec
<1>1. SyncInit => SemInit
  BY DEF SyncInit
<1>2. [SyncNext]_syncVars => [FairNext]_semVars
  BY SyncSteps
<1> QED
  BY <1>1, <1>2, PTL DEF SyncSpec, FairSpec

(* Deadlocks last while processes run, wait and exit in between.           *)
COROLLARY DeadlocksLastInServer ==
  ASSUME InitValues \subseteq {1}
  PROVE  SyncSpec => DeadlockLasts
<1>1. FairSpec => DeadlockLasts
  BY DeadlocksLast
<1> QED
  BY <1>1, CallsFollowRules, PTL

(* Units are conserved while processes run, wait and exit in between.      *)
COROLLARY UnitsConservedInServer == SyncSpec => []UnitsConserved
<1>1. UnitsConserved /\ QueuesAreRequests => UnitsConserved
  OBVIOUS
<1> QED
  BY <1>1, CallsFollowRules, MutualExclusion, PTL

(* Only forked processes are about to be made WAITING.                     *)
ParkingForked == parking \subseteq {p \in Procs : Forked(p)}

SyncInv == FairInv /\ ProcTypeOK /\ ParkingForked /\ BlockedIsParked

LEMMA ParkingStep ==
  ASSUME SyncInv, [SyncNext]_syncVars
  PROVE  ParkingForked' /\ BlockedIsParked'
<1> DEFINE Goal == ParkingForked' /\ BlockedIsParked'
<1> USE SamePidsAssumption DEF ParkingForked, BlockedIsParked, Forked
<1>0. /\ requests \in [Procs -> SUBSET Sems] /\ queue \in [Sems -> Seq(Procs)]
      /\ state \in [Procs -> States]
      /\ parking \subseteq {p \in Procs : state[p] # "NONE"}
      /\ \A p \in Procs : Waits(p) => state[p] = "WAITING" \/ p \in parking
  BY DEF SyncInv, FairInv, Inv, SemTypeOK, ProcTypeOK, States
<1>1. ASSUME state' = state, parking \subseteq parking', parking' \subseteq {p \in Procs : state[p] # "NONE"},
             \A p \in Procs : Waits(p)' => Waits(p) \/ p \in parking'
      PROVE  Goal
  BY <1>0, <1>1
<1>2. ASSUME NEW s \in Sems, NEW n \in InitValues, SemCreate(s, n) PROVE Goal
  BY <1>0, <1>1, <1>2 DEF SemCreate, Create, procVars, Waits
<1>3. ASSUME NEW p \in Procs, NEW s \in Sems, SemWait(s, p) PROVE Goal
  <2>1. state' = state /\ state[p] # "NONE"
    BY <1>3 DEF SemWait, Calls, Alive, procVars
  <2>2. CASE Acquire(s, p) /\ UNCHANGED parking
    <3>1. \A q \in Procs : requests'[q] \subseteq requests[q]
      BY <1>0, <2>2 DEF Acquire
    <3> QED
      BY <1>0, <1>1, <2>1, <2>2, <3>1 DEF Waits
  <2>3. CASE Block(s, p) /\ parking' = parking \cup {p}
    <3>1. \A q \in Procs : q # p => requests'[q] = requests[q]
      BY <1>0, <2>3 DEF Block
    <3> QED
      BY <1>0, <1>1, <2>1, <2>3, <3>1 DEF Waits
  <2> QED
    BY <1>3, <2>2, <2>3 DEF SemWait
<1>4. ASSUME NEW p \in Procs, NEW s \in Sems, SemWaitUnknown(s, p) PROVE Goal
  <2>1. /\ state' = state /\ state[p] # "NONE" /\ parking' = parking \cup {p}
        /\ requests' = requests
    BY <1>4 DEF SemWaitUnknown, Calls, Alive, procVars, semVars
  <2> QED
    BY <1>0, <1>1, <2>1 DEF Waits
<1>5. ASSUME NEW p \in Procs, NEW s \in Sems, SemSignal(s, p) PROVE Goal
  <2>1. state' = state /\ parking' = parking
    BY <1>5 DEF SemSignal, procVars
  <2>2. ASSUME HandOver(s, p) PROVE \A q \in Procs : requests'[q] \subseteq requests[q]
    BY <1>0, <2>2 DEF HandOver
  <2>3. ASSUME Free(s, p) PROVE \A q \in Procs : requests'[q] \subseteq requests[q]
    BY <2>3 DEF Free
  <2> QED
    BY <1>0, <1>1, <1>5, <2>1, <2>2, <2>3 DEF SemSignal, Signal, Waits
<1>6. ASSUME NEW p \in Procs, Park(p) PROVE Goal
  <2>1. /\ parking' = parking \ {p} /\ state[p] # "NONE" /\ requests' = requests
        /\ state' = [state EXCEPT ![p] = "WAITING"]
    BY <1>0, <1>6 DEF Park, Transition, semVars
  <2> QED
    BY <1>0, <2>1 DEF Waits
<1>7. ASSUME NEW p \in Procs, OwnCall(p) PROVE Goal
  <2>1. /\ ~Waits(p) /\ state[p] # "NONE" /\ parking' = parking /\ requests' = requests
        /\ p \notin parking
    BY <1>7 DEF OwnCall, Calls, Alive, semVars
  <2>2. PICK t \in States \ {"NONE"} : state' = [state EXCEPT ![p] = t]
    BY <1>7, <2>1 DEF OwnCall, ProcCall, ProcRun, ProcWait, ProcReady, ProcExit, Transition, States
  <2> QED
    BY <1>0, <2>1, <2>2 DEF Waits
<1>8. ASSUME NEW n \in Priorities, Fork(n), UNCHANGED <<semVars, parking, told>> PROVE Goal
  <2>1. /\ nextPid \in Procs /\ parking' = parking /\ requests' = requests
        /\ state' = [state EXCEPT ![nextPid] = "READY"]
    BY <1>8 DEF Fork, semVars
  <2>2. state[nextPid] = "NONE"
    BY <2>1, PidsAssumption DEF SyncInv, ProcTypeOK
  <2>3. ~Waits(nextPid)
    BY <1>0, <2>1, <2>2
  <2> QED
    BY <1>0, <2>1, <2>3 DEF Waits
<1>9. ASSUME Tick, UNCHANGED <<semVars, parking, told>> PROVE Goal
  BY <1>0, <1>1, <1>9 DEF Tick, semVars, Waits
<1>10. CASE UNCHANGED syncVars
  BY <1>0, <1>1, <1>10 DEF syncVars, semVars, procVars, Waits
<1> HIDE DEF Goal
<1> QED
  BY <1>2, <1>3, <1>4, <1>5, <1>6, <1>7, <1>8, <1>9, <1>10 DEF SyncNext, Rest, Goal

(* No blocked process is in the ready queue: one that waits is WAITING, or *)
(* its sem_wait is still about to make it so, although the manager and the *)
(* process table are changed under two mutexes.                            *)
THEOREM BlockedAreParked == SyncSpec => []BlockedIsParked
<1>1. SyncInit => SyncInv
  BY FairInitInv, ProcInitTypes
  DEF SyncInit, SyncInv, ParkingForked, BlockedIsParked, SemInit, Waits
<1>2. SyncInv /\ [SyncNext]_syncVars => SyncInv'
  BY SyncSteps, FairStepInv, ProcStep, ParkingStep DEF SyncInv
<1>3. SyncInv => BlockedIsParked
  BY DEF SyncInv
<1> QED
  BY <1>1, <1>2, <1>3, PTL DEF SyncSpec

-----------------------------------------------------------------------------
(* The deadlock detector.                                                  *)

(* Its steps are calls of the manager, or leave the manager alone.         *)
LEMMA DetectorSteps ==
  ASSUME [DetNext]_detVars
  PROVE  [SemNext]_semVars
<1>1. ASSUME NEW s \in Sems, NEW p \in Procs, BlockAndCheck(s, p) PROVE SemNext
  BY <1>1 DEF BlockAndCheck, SemNext
<1>2. ASSUME OtherCall PROVE SemNext
  BY <1>2 DEF OtherCall, SemNext
<1>3. ASSUME SearchStep PROVE UNCHANGED semVars
  BY <1>3 DEF SearchStep, NextRoot, Descend, BackEdge, PassOver, Leave, Unwind, Answer, Return
<1>4. ASSUME CheckDeadlock PROVE UNCHANGED semVars
  BY <1>4 DEF CheckDeadlock
<1>5. ASSUME UNCHANGED detVars PROVE UNCHANGED semVars
  BY <1>5 DEF detVars
<1> QED
  BY <1>1, <1>2, <1>3, <1>4, <1>5 DEF DetNext

(* The manager with its detector keeps every promise of the manager.       *)
THEOREM DetectorChangesNothing == DetSpec => Spec
<1>1. DetInit => SemInit
  BY DEF DetInit
<1> QED
  BY <1>1, DetectorSteps, PTL DEF DetSpec, Spec

(* The nodes whose activation has returned FALSE.                          *)
Left == visited \ recStack

DetTypeOK ==
  /\ phase \in {"idle", "search", "done"}
  /\ roots \subseteq Procs
  /\ path \in Seq(Procs)
  /\ left \in [Procs -> SUBSET Procs]
  /\ visited \subseteq Procs /\ recStack \subseteq visited
  /\ found \in BOOLEAN
  /\ cycle \in Seq(Procs)

(* While nothing is found, rec_stack is the nodes of the activations, ...  *)
StackIsPath == Elements(path) = recStack /\ Distinct(path) /\ cycle = <<>>

(* ... each activation was called by the next and has come to neighbours   *)
(* that were left and to the one it has called, ...                        *)
Tried(i) ==
  /\ left[path[i]] \subseteq WaitsFor[path[i]]
  /\ \A q \in WaitsFor[path[i]] :
       q \in left[path[i]] \/ q \in Left \/ (i - 1 \in DOMAIN path /\ q = path[i - 1])
  /\ i - 1 \in DOMAIN path => path[i - 1] \in WaitsFor[path[i]]
PathTried == \A i \in DOMAIN path : Tried(i)

(* ... a node that was left waits for such nodes only and none of them is  *)
(* deadlocked, ...                                                         *)
LeftIsClean ==
  /\ \A p \in Left : WaitsFor[p] \subseteq Left
  /\ \A C \in SUBSET Left : C # {} => ~Deadlocked(C)

(* ... and the loop over waits_for comes to every node.                    *)
RootsRemain == \A p \in Procs : WaitsFor[p] # {} => p \in roots \cup visited

Searching == StackIsPath /\ PathTried /\ LeftIsClean

DetInv ==
  /\ Inv /\ DetTypeOK
  /\ ~found => Searching
  /\ ~found /\ phase # "idle" => RootsRemain
  /\ found => phase # "idle" /\ IsReport(cycle \o path)
  /\ phase = "idle" => path = <<>> /\ visited = {}
  /\ phase = "done" => path = <<>> /\ (found \/ roots = {})

LEMMA WaitsForType == Inv => WaitsFor \in [Procs -> SUBSET Procs]
  BY DEF Inv, SemTypeOK, WaitsFor

(* A report shows a deadlock.                                              *)
LEMMA ReportShowsDeadlock ==
  ASSUME Inv, NEW c \in Seq(Procs), IsReport(c)
  PROVE  Deadlock
<1>1. PICK j \in 2 .. Len(c) : c[j] = c[1]
  BY DEF IsReport
<1> DEFINE C == {c[i] : i \in 1 .. j}
<1>2. Len(c) \in Nat /\ j \in Nat /\ 1 \in 1 .. j /\ \A i \in 1 .. j : c[i] \in Procs
  BY <1>1
<1>3. C \in SUBSET Procs /\ C # {}
  BY <1>2
<1>4. ASSUME NEW i \in 2 .. j PROVE WaitsFor[c[i]] \cap C # {}
  <2>1. i - 1 \in 1 .. Len(c) - 1 /\ i - 1 \in 1 .. j /\ (i - 1) + 1 = i
    BY <1>1, <1>2
  <2>2. c[i - 1] \in WaitsFor[c[(i - 1) + 1]]
    BY <2>1 DEF IsReport
  <2> QED
    BY <2>1, <2>2
<1>5. ASSUME NEW p \in C PROVE WaitsFor[p] \cap C # {}
  <2>1. PICK i \in 1 .. j : p = c[i]
    OBVIOUS
  <2>2. CASE i = 1
    <3>1. j \in 2 .. j /\ p = c[j]
      BY <1>1, <1>2, <2>1, <2>2
    <3> QED
      BY <1>4, <3>1
  <2>3. CASE i # 1
    BY <1>2, <1>4, <2>1, <2>3
  <2> QED
    BY <2>2, <2>3
<1> QED
  BY <1>3, <1>5 DEF Deadlock, Deadlocked

(* The invariant gives the answer.                                         *)
LEMMA AnswerIsExact == DetInv => DetectorExact
<1> SUFFICES ASSUME DetInv, phase = "done"
             PROVE  (found <=> Deadlock) /\ (found => IsReport(cycle))
  BY DEF DetectorExact
<1>1. Inv /\ cycle \in Seq(Procs) /\ path = <<>> /\ found \in BOOLEAN
  BY DEF DetInv, DetTypeOK
<1>2. cycle \o path = cycle
  BY <1>1, ConcatEmptySeq
<1>3. ASSUME found PROVE IsReport(cycle) /\ Deadlock
  <2>1. IsReport(cycle)
    BY <1>2, <1>3 DEF DetInv
  <2> QED
    BY <1>1, <2>1, ReportShowsDeadlock
<1>4. ASSUME ~found, Deadlock PROVE FALSE
  <2>1. PICK C \in SUBSET Procs : C # {} /\ Deadlocked(C)
    BY <1>4 DEF Deadlock
  <2>2. recStack = {}
    BY <1>1, <1>4 DEF DetInv, Searching, StackIsPath, Elements
  <2>3. Left = visited /\ roots = {}
    BY <1>4, <2>2 DEF Left, DetInv
  <2>4. \A p \in C : p \in Left
    BY <1>4, <2>1, <2>3 DEF DetInv, RootsRemain, Deadlocked
  <2> QED
    BY <1>4, <2>1, <2>4 DEF DetInv, Searching, LeftIsClean
<1> QED
  BY <1>1, <1>3, <1>4

(* What the entry of an activation does to the path.                       *)
LEMMA PushFront ==
  ASSUME NEW S, NEW q \in Seq(S), NEW x \in S
  PROVE  LET r == <<x>> \o q IN
         /\ r \in Seq(S)
         /\ 1 \in DOMAIN r /\ r[1] = x
         /\ \A i \in DOMAIN q : i + 1 \in DOMAIN r /\ r[i + 1] = q[i]
         /\ \A i \in DOMAIN r : i \in Nat /\ (i = 1 \/ (i - 1 \in DOMAIN q /\ r[i] = q[i - 1]))
         /\ Elements(r) = {x} \cup Elements(q)
         /\ Distinct(q) /\ x \notin Elements(q) => Distinct(r)
<1> DEFINE r == <<x>> \o q
<1>1. /\ r \in Seq(S) /\ Len(q) \in Nat /\ Len(r) = Len(q) + 1
      /\ DOMAIN q = 1 .. Len(q) /\ DOMAIN r = 1 .. Len(q) + 1
      /\ r[1] = x /\ \A i \in 1 .. Len(q) : r[i + 1] = q[i]
  OBVIOUS
<1> HIDE DEF r
<1>2. 1 \in DOMAIN r /\ \A i \in DOMAIN q : i + 1 \in DOMAIN r /\ r[i + 1] = q[i]
  BY <1>1
<1>3. ASSUME NEW i \in DOMAIN r, i # 1 PROVE i \in Nat /\ i - 1 \in DOMAIN q /\ r[i] = q[i - 1]
  <2>1. i \in Nat /\ i - 1 \in 1 .. Len(q) /\ (i - 1) + 1 = i
    BY <1>1, <1>3
  <2> QED
    BY <1>1, <2>1
<1>4. Elements(r) = {x} \cup Elements(q)
  <2>1. ASSUME NEW y \in Elements(r) PROVE y \in {x} \cup Elements(q)
    BY <1>1, <1>3, <2>1 DEF Elements
  <2>2. ASSUME NEW y \in {x} \cup Elements(q) PROVE y \in Elements(r)
    BY <1>1, <1>2, <2>2 DEF Elements
  <2> QED
    BY <2>1, <2>2
<1>5. ASSUME Distinct(q), x \notin Elements(q), NEW i \in DOMAIN r, NEW j \in DOMAIN r, r[i] = r[j]
      PROVE  i = j
  <2>1. \A n \in DOMAIN q : q[n] # x
    BY <1>5 DEF Elements
  <2>2. CASE i = 1 \/ j = 1
    BY <1>1, <1>3, <1>5, <2>1, <2>2
  <2>3. CASE i # 1 /\ j # 1
    <3>1. i - 1 = j - 1 /\ i \in Nat /\ j \in Nat
      BY <1>3, <1>5, <2>3 DEF Distinct
    <3> QED
      BY <3>1
  <2> QED
    BY <2>2, <2>3
<1>6. \A i \in DOMAIN r : i \in Nat
  BY <1>1
<1> QED
  BY <1>1, <1>2, <1>3, <1>4, <1>5, <1>6 DEF r, Distinct

LEMMA SearchKeepsGraph ==
  ASSUME UNCHANGED semVars
  PROVE  WaitsFor' = WaitsFor
  BY DEF semVars, WaitsFor

LEMMA EnterKeeps ==
  ASSUME DetInv, ~found, UNCHANGED <<semVars, cycle>>,
         NEW p \in Procs, p \notin visited, Enter(p),
         left'[p] = WaitsFor[p],
         \A i \in DOMAIN path :
           left'[path[i]] = IF i = 1 THEN left[path[i]] \ {p} ELSE left[path[i]],
         path # <<>> => p \in left[path[1]]
  PROVE  Searching'
<1>1. /\ path \in Seq(Procs) /\ Elements(path) = recStack /\ Distinct(path) /\ cycle = <<>>
      /\ recStack \subseteq visited /\ p \notin recStack
  BY DEF DetInv, DetTypeOK, Searching, StackIsPath
<1> DEFINE r == <<p>> \o path
<1>2. /\ path' = r /\ visited' = visited \cup {p} /\ recStack' = recStack \cup {p}
      /\ WaitsFor' = WaitsFor
  BY SearchKeepsGraph DEF Enter
<1>3. Left' = Left
  BY <1>1, <1>2 DEF Left
<1>4. /\ r \in Seq(Procs)
      /\ 1 \in DOMAIN r /\ r[1] = p
      /\ \A i \in DOMAIN path : i + 1 \in DOMAIN r /\ r[i + 1] = path[i]
      /\ \A i \in DOMAIN r : i \in Nat /\ (i = 1 \/ (i - 1 \in DOMAIN path /\ r[i] = path[i - 1]))
      /\ Elements(r) = {p} \cup Elements(path)
      /\ Distinct(r)
  BY <1>1, PushFront
<1> HIDE DEF r
<1>5. StackIsPath'
  BY <1>1, <1>2, <1>4 DEF StackIsPath
<1>6. PathTried'
  <2> SUFFICES ASSUME NEW i \in DOMAIN r
               PROVE  /\ left'[r[i]] \subseteq WaitsFor[r[i]]
                      /\ \A q \in WaitsFor[r[i]] :
                           q \in left'[r[i]] \/ q \in Left \/ (i - 1 \in DOMAIN r /\ q = r[i - 1])
                      /\ i - 1 \in DOMAIN r => r[i - 1] \in WaitsFor[r[i]]
    BY <1>2, <1>3 DEF PathTried, Tried
  <2>1. CASE i = 1
    <3>1. i - 1 \notin DOMAIN r
      BY <1>4, <2>1
    <3> QED
      BY <1>4, <2>1, <3>1
  <2>2. CASE i # 1
    <3>1. i \in Nat /\ i - 1 \in DOMAIN path /\ r[i] = path[i - 1] /\ i - 1 \in DOMAIN r
      <4>1. i \in Nat /\ i - 1 \in DOMAIN path /\ r[i] = path[i - 1]
        BY <1>4, <2>2
      <4>2. DOMAIN path = 1 .. Len(path) /\ Len(path) \in Nat /\ DOMAIN r = 1 .. Len(r) /\ Len(r) \in Nat
        BY <1>1, <1>4
      <4> QED
        BY <4>1, <4>2
    <3>2. Tried(i - 1)
      BY <3>1 DEF DetInv, Searching, PathTried
    <3>3. CASE i = 2
      <4>1. i - 1 = 1 /\ r[i - 1] = p /\ path # <<>> /\ (i - 1) - 1 \notin DOMAIN path
        BY <1>1, <1>4, <3>1, <3>3
      <4> QED
        BY <3>1, <3>2, <4>1 DEF Tried
    <3>4. CASE i # 2
      <4>1. i - 1 # 1
        BY <3>1, <3>4
      <4>2. (i - 1) - 1 \in DOMAIN path /\ r[i - 1] = path[(i - 1) - 1]
        BY <1>4, <3>1, <4>1
      <4> QED
        BY <3>1, <3>2, <4>1, <4>2 DEF Tried
    <3> QED
      BY <3>3, <3>4
  <2> QED
    BY <2>1, <2>2
<1>7. LeftIsClean'
  BY <1>2, <1>3 DEF DetInv, Searching, LeftIsClean, Deadlocked
<1> QED
  BY <1>5, <1>6, <1>7 DEF Searching

LEMMA RootKeeps ==
  ASSUME DetInv, NEW p \in Procs, NextRoot(p)
  PROVE  DetInv'
<1>1. /\ phase = "search" /\ path = <<>> /\ ~found /\ p \in roots /\ roots' = roots \ {p}
      /\ UNCHANGED <<semVars, phase, found, cycle>>
      /\ WaitsFor' = WaitsFor
  BY SearchKeepsGraph DEF NextRoot, Least
<1>2. Inv' /\ WaitsFor \in [Procs -> SUBSET Procs]
  BY <1>1, WaitsForType, StepInv DEF DetInv
<1>3. CASE p \in visited
  <2>1. UNCHANGED <<path, left, visited, recStack>>
    BY <1>3 DEF NextRoot
  <2>2. DetTypeOK'
    BY <1>1, <2>1 DEF DetInv, DetTypeOK
  <2>3. Searching'
    BY <1>1, <2>1
    DEF DetInv, Searching, StackIsPath, PathTried, Tried, LeftIsClean, Left, Deadlocked
  <2>4. RootsRemain'
    BY <1>1, <1>3, <2>1 DEF DetInv, RootsRemain
  <2> QED
    BY <1>1, <1>2, <2>2, <2>3, <2>4 DEF DetInv
<1>4. CASE p \notin visited
  <2>1. Enter(p) /\ left' = [left EXCEPT ![p] = WaitsFor[p]]
    BY <1>4 DEF NextRoot
  <2>2. DetTypeOK'
    <3>1. path' \in Seq(Procs)
      BY <2>1, PushFront DEF DetInv, DetTypeOK, Enter
    <3> QED
      BY <1>1, <1>2, <2>1, <3>1 DEF DetInv, DetTypeOK, Enter
  <2>3. Searching'
    <3>1. left'[p] = WaitsFor[p] /\ DOMAIN path = {}
      BY <1>1, <2>1 DEF DetInv, DetTypeOK
    <3> QED
      BY <1>1, <1>4, <2>1, <3>1, EnterKeeps
  <2>4. RootsRemain'
    BY <1>1, <2>1 DEF DetInv, RootsRemain, Enter
  <2> QED
    BY <1>1, <1>2, <2>2, <2>3, <2>4 DEF DetInv
<1> QED
  BY <1>3, <1>4

(* The activation at work and the neighbour it has come to.                *)
LEMMA AtNeighbour ==
  ASSUME DetInv, NEW nb \in Procs, Neighbour(nb)
  PROVE  /\ phase = "search" /\ ~found /\ Searching /\ path # <<>> /\ path \in Seq(Procs)
         /\ 1 \in DOMAIN path /\ Head(path) = path[1] /\ path[1] \in recStack /\ path[1] \in Procs
         /\ \A i \in DOMAIN path : path[i] \in Procs /\ (path[i] = path[1] <=> i = 1)
         /\ nb \in left[path[1]] /\ nb \in WaitsFor[path[1]]
<1>1. phase = "search" /\ ~found /\ Searching /\ path # <<>> /\ path \in Seq(Procs)
  BY DEF DetInv, DetTypeOK, Neighbour
<1>2. 1 \in DOMAIN path /\ Head(path) = path[1] /\ \A i \in DOMAIN path : path[i] \in Procs
  BY <1>1
<1>3. path[1] \in recStack /\ \A i \in DOMAIN path : path[i] = path[1] <=> i = 1
  BY <1>1, <1>2 DEF Searching, StackIsPath, Elements, Distinct
<1>4. nb \in left[path[1]]
  BY <1>2 DEF Neighbour, Least
<1>5. Tried(1)
  BY <1>1, <1>2 DEF Searching, PathTried
<1> QED
  BY <1>1, <1>2, <1>3, <1>4, <1>5 DEF Tried

LEMMA DescendKeeps ==
  ASSUME DetInv, NEW nb \in Procs, Descend(nb)
  PROVE  DetInv'
<1>1. /\ phase = "search" /\ ~found /\ path # <<>> /\ path \in Seq(Procs)
      /\ Head(path) = path[1] /\ path[1] \in recStack /\ path[1] \in Procs
      /\ \A i \in DOMAIN path : path[i] \in Procs /\ (path[i] = path[1] <=> i = 1)
      /\ nb \in left[path[1]]
  BY AtNeighbour DEF Descend
<1>2. /\ nb \notin visited /\ Enter(nb) /\ UNCHANGED <<semVars, phase, roots, found, cycle>>
      /\ left' = [left EXCEPT ![path[1]] = left[path[1]] \ {nb}, ![nb] = WaitsFor[nb]]
      /\ WaitsFor' = WaitsFor
  BY <1>1, SearchKeepsGraph DEF Descend, DetInv, DetTypeOK
<1>3. Inv' /\ WaitsFor \in [Procs -> SUBSET Procs]
  BY <1>2, WaitsForType, StepInv DEF DetInv
<1>4. DetTypeOK'
  <2>1. path' \in Seq(Procs)
    BY <1>1, <1>2, PushFront DEF Enter
  <2>2. left' \in [Procs -> SUBSET Procs]
    BY <1>1, <1>2, <1>3 DEF DetInv, DetTypeOK
  <2> QED
    BY <1>2, <2>1, <2>2 DEF DetInv, DetTypeOK, Enter
<1>5. Searching'
  <2>1. \A i \in DOMAIN path : path[i] # nb
    BY <1>1, <1>2 DEF DetInv, DetTypeOK, Searching, StackIsPath, Elements
  <2>2. left'[nb] = WaitsFor[nb]
    BY <1>1, <1>2 DEF DetInv, DetTypeOK
  <2>3. \A i \in DOMAIN path :
          left'[path[i]] = IF i = 1 THEN left[path[i]] \ {nb} ELSE left[path[i]]
    BY <1>1, <1>2, <2>1 DEF DetInv, DetTypeOK
  <2> QED
    BY <1>1, <1>2, <2>2, <2>3, EnterKeeps
<1>6. RootsRemain'
  BY <1>1, <1>2 DEF DetInv, RootsRemain, Enter
<1>7. path' # <<>>
  BY <1>1, <1>2, PushFront DEF Enter
<1> QED
  BY <1>1, <1>2, <1>3, <1>4, <1>5, <1>6, <1>7 DEF DetInv

LEMMA PassOverKeeps ==
  ASSUME DetInv, NEW nb \in Procs, PassOver(nb)
  PROVE  DetInv'
<1>1. /\ phase = "search" /\ ~found /\ path # <<>>
      /\ Head(path) = path[1] /\ path[1] \in Procs
      /\ \A i \in DOMAIN path : path[i] \in Procs /\ (path[i] = path[1] <=> i = 1)
  BY AtNeighbour DEF PassOver
<1>2. /\ nb \in Left /\ UNCHANGED <<semVars, phase, roots, path, visited, recStack, found, cycle>>
      /\ left' = [left EXCEPT ![path[1]] = left[path[1]] \ {nb}]
      /\ WaitsFor' = WaitsFor
  BY <1>1, SearchKeepsGraph DEF PassOver, Left
<1>3. Inv' /\ DetTypeOK'
  BY <1>1, <1>2, StepInv DEF DetInv, DetTypeOK
<1>4. StackIsPath' /\ LeftIsClean' /\ RootsRemain' /\ Left' = Left
  BY <1>1, <1>2
  DEF DetInv, Searching, StackIsPath, LeftIsClean, Left, Deadlocked, RootsRemain
<1>5. PathTried'
  <2> SUFFICES ASSUME NEW i \in DOMAIN path PROVE Tried(i)'
    BY <1>2 DEF PathTried
  <2>1. Tried(i)
    BY <1>1 DEF DetInv, Searching, PathTried
  <2>2. /\ left'[path[i]] \subseteq left[path[i]]
        /\ \A q \in left[path[i]] : q \in left'[path[i]] \/ q \in Left
    BY <1>1, <1>2 DEF DetInv, DetTypeOK
  <2> QED
    BY <1>2, <1>4, <2>1, <2>2 DEF Tried
<1> QED
  BY <1>1, <1>2, <1>3, <1>4, <1>5 DEF DetInv, Searching

(* A node that is left adds no deadlock to those left before it.           *)
LEMMA LeaveKeeps ==
  ASSUME DetInv, Leave
  PROVE  DetInv'
<1> DEFINE node == path[1]
           t == Tail(path)
<1>1. /\ phase = "search" /\ ~found /\ path # <<>> /\ path \in Seq(Procs) /\ Searching
      /\ Elements(path) = recStack /\ Distinct(path) /\ recStack \subseteq visited
  BY DEF Leave, DetInv, DetTypeOK, Searching, StackIsPath
<1>2. /\ Head(path) = node /\ 1 \in DOMAIN path /\ node \in Procs /\ node \in recStack
      /\ t \in Seq(Procs) /\ Elements(path) = {node} \cup Elements(t)
      /\ \A i \in DOMAIN t : i + 1 \in DOMAIN path /\ t[i] = path[i + 1] /\ i \in Nat \ {0}
      /\ Distinct(t) /\ node \notin Elements(t)
  BY <1>1, PopFront, DistinctPop
<1>3. /\ left[node] = {} /\ recStack' = recStack \ {node} /\ path' = t
      /\ UNCHANGED <<semVars, phase, roots, left, visited, found, cycle>>
      /\ WaitsFor' = WaitsFor
  BY <1>2, SearchKeepsGraph DEF Leave
<1>4. Left' = Left \cup {node} /\ node \notin Left
  BY <1>1, <1>2, <1>3 DEF Left
<1> HIDE DEF node, t
<1>5. Inv' /\ DetTypeOK'
  BY <1>2, <1>3, StepInv DEF DetInv, DetTypeOK
<1>6. StackIsPath'
  BY <1>1, <1>2, <1>3 DEF DetInv, Searching, StackIsPath
<1>7. PathTried'
  <2> SUFFICES ASSUME NEW i \in DOMAIN t
               PROVE  /\ left[t[i]] \subseteq WaitsFor[t[i]]
                      /\ \A q \in WaitsFor[t[i]] :
                           \/ q \in left[t[i]]
                           \/ q \in Left \cup {node}
                           \/ (i - 1 \in DOMAIN t /\ q = t[i - 1])
                      /\ i - 1 \in DOMAIN t => t[i - 1] \in WaitsFor[t[i]]
    BY <1>3, <1>4 DEF PathTried, Tried
  <2>1. i \in Nat \ {0} /\ i + 1 \in DOMAIN path /\ t[i] = path[i + 1] /\ (i + 1) - 1 = i
    BY <1>2
  <2>2. Tried(i + 1)
    BY <1>1, <2>1 DEF Searching, PathTried
  <2>3. CASE i = 1
    <3>1. path[i] = node /\ i - 1 \notin DOMAIN t
      BY <1>2, <2>3 DEF node
    <3> QED
      BY <2>1, <2>2, <3>1 DEF Tried
  <2>4. CASE i # 1
    <3>1. i - 1 \in DOMAIN t
      <4>1. DOMAIN t = 1 .. Len(t) /\ Len(t) \in Nat
        BY <1>2
      <4> QED
        BY <2>1, <2>4, <4>1
    <3>2. (i - 1) + 1 = i
      BY <2>1
    <3>3. t[i - 1] = path[i] /\ i \in DOMAIN path
      BY <1>2, <3>1, <3>2
    <3> QED
      BY <2>1, <2>2, <3>1, <3>3 DEF Tried
  <2> QED
    BY <2>3, <2>4
<1>8. LeftIsClean'
  <2>1. /\ \A p \in Left : WaitsFor[p] \subseteq Left
        /\ \A C \in SUBSET Left : C # {} => ~Deadlocked(C)
    BY <1>1 DEF Searching, LeftIsClean
  <2>2. WaitsFor[node] \subseteq Left
    <3>1. Tried(1) /\ 0 \notin DOMAIN path
      BY <1>1, <1>2 DEF Searching, PathTried
    <3> QED
      BY <1>3, <3>1 DEF Tried, node
  <2>3. ASSUME NEW C \in SUBSET (Left \cup {node}), C # {}, Deadlocked(C) PROVE FALSE
    <3>1. Deadlocked(C \ {node})
      <4> SUFFICES ASSUME NEW p \in C, p # node PROVE WaitsFor[p] \cap (C \ {node}) # {}
        BY DEF Deadlocked
      <4>1. p \in Left
        BY <2>3
      <4> QED
        BY <1>4, <2>1, <2>3, <4>1 DEF Deadlocked
    <3>2. C \ {node} # {}
      BY <1>4, <2>2, <2>3 DEF Deadlocked
    <3> QED
      BY <2>1, <3>1, <3>2
  <2> QED
    BY <1>3, <1>4, <2>1, <2>2, <2>3 DEF LeftIsClean, Deadlocked
<1>9. RootsRemain'
  BY <1>1, <1>3 DEF DetInv, RootsRemain
<1> QED
  BY <1>1, <1>3, <1>5, <1>6, <1>7, <1>8, <1>9 DEF DetInv, Searching

(* A neighbour on rec_stack is a node of the path: from there on the path  *)
(* is a cycle.                                                             *)
LEMMA BackEdgeKeeps ==
  ASSUME DetInv, NEW nb \in Procs, BackEdge(nb)
  PROVE  DetInv'
<1> DEFINE two == <<nb, path[1]>>
           t == Tail(path)
           c == two \o t
<1>1. /\ phase = "search" /\ ~found /\ path # <<>> /\ path \in Seq(Procs) /\ Searching
      /\ Head(path) = path[1] /\ path[1] \in Procs
      /\ nb \in WaitsFor[path[1]]
  BY AtNeighbour DEF BackEdge
<1>2. /\ nb \in recStack /\ UNCHANGED <<semVars, phase, roots, left, visited, recStack>>
      /\ found' = TRUE /\ cycle' = cycle \o two /\ path' = t
      /\ WaitsFor' = WaitsFor
  BY <1>1, SearchKeepsGraph DEF BackEdge
<1>3. two \in Seq(Procs) /\ Len(two) = 2 /\ two[1] = nb /\ two[2] = path[1]
  BY <1>1
<1>4. t \in Seq(Procs) /\ Len(t) = Len(path) - 1 /\ \A i \in 1 .. Len(t) : t[i] = path[i + 1]
  BY <1>1, HeadTailProperties
<1>5. cycle' = two
  <2>1. cycle = <<>>
    BY <1>1 DEF Searching, StackIsPath
  <2> QED
    BY <1>2, <1>3, <2>1, ConcatEmptySeq
<1> HIDE DEF two, t
<1>6. /\ c \in Seq(Procs) /\ Len(c) = Len(t) + 2 /\ Len(t) \in Nat
      /\ \A i \in 1 .. Len(t) + 2 : c[i] = IF i <= 2 THEN two[i] ELSE t[i - 2]
  <2>1. /\ c \in Seq(Procs) /\ Len(c) = Len(two) + Len(t)
        /\ \A i \in 1 .. Len(two) + Len(t) : c[i] = IF i <= Len(two) THEN two[i] ELSE t[i - Len(two)]
    BY <1>3, <1>4, ConcatProperties
  <2>2. Len(t) \in Nat /\ Len(two) + Len(t) = Len(t) + 2
    BY <1>3, <1>4
  <2> HIDE DEF c
  <2> QED
    BY <1>3, <2>1, <2>2
<1> HIDE DEF c
<1>7. /\ Len(path) \in Nat \ {0} /\ Len(c) = Len(path) + 1 /\ c[1] = nb
      /\ \A i \in 1 .. Len(path) : c[i + 1] = path[i]
  <2>1. Len(path) \in Nat \ {0}
    BY <1>1
  <2>2. c[1] = nb /\ c[2] = path[1]
    BY <1>3, <1>6
  <2>3. ASSUME NEW i \in 1 .. Len(path), i # 1 PROVE c[i + 1] = path[i]
    <3>1. i + 1 \in 1 .. Len(t) + 2 /\ ~(i + 1 <= 2) /\ (i + 1) - 2 = i - 1 /\ i - 1 \in 1 .. Len(t)
          /\ (i - 1) + 1 = i
      BY <1>4, <2>1, <2>3
    <3> QED
      BY <1>4, <1>6, <3>1
  <2> QED
    BY <1>4, <1>6, <2>1, <2>2, <2>3
<1>8. IsReport(c)
  <2>1. ASSUME NEW i \in 1 .. Len(c) - 1 PROVE c[i] \in WaitsFor[c[i + 1]]
    <3>1. i \in 1 .. Len(path) /\ c[i + 1] = path[i]
      BY <1>7
    <3>2. CASE i = 1
      BY <1>1, <1>7, <3>1, <3>2
    <3>3. CASE i # 1
      <4>1. i - 1 \in 1 .. Len(path) /\ (i - 1) + 1 = i
        BY <1>7, <3>1, <3>3
      <4>2. c[i] = path[i - 1]
        BY <1>7, <4>1
      <4>3. Tried(i) /\ i - 1 \in DOMAIN path
        BY <1>1, <3>1, <4>1 DEF Searching, PathTried
      <4> QED
        BY <3>1, <4>2, <4>3 DEF Tried
    <3> QED
      BY <3>2, <3>3
  <2>2. \E j \in 2 .. Len(c) : c[j] = c[1]
    <3>1. PICK k \in 1 .. Len(path) : path[k] = nb
      BY <1>1, <1>2 DEF Searching, StackIsPath, Elements
    <3>2. k + 1 \in 2 .. Len(c) /\ c[k + 1] = c[1]
      BY <1>7, <3>1
    <3> QED
      BY <3>2
  <2> QED
    BY <2>1, <2>2 DEF IsReport
<1>9. IsReport(cycle \o path)'
  BY <1>2, <1>5, <1>8 DEF IsReport, c
<1>10. Inv' /\ DetTypeOK'
  BY <1>2, <1>3, <1>4, <1>5, StepInv DEF DetInv, DetTypeOK
<1> QED
  BY <1>1, <1>2, <1>9, <1>10 DEF DetInv

(* The activations that return add themselves to the report in the order   *)
(* of the path.                                                            *)
LEMMA UnwindKeeps ==
  ASSUME DetInv, Unwind
  PROVE  DetInv'
<1> DEFINE h == Head(path)
           t == Tail(path)
<1>1. /\ phase = "search" /\ found /\ path # <<>> /\ path \in Seq(Procs) /\ cycle \in Seq(Procs)
      /\ IsReport(cycle \o path)
  BY DEF Unwind, DetInv, DetTypeOK
<1>2. /\ cycle' = Append(cycle, h) /\ path' = t /\ WaitsFor' = WaitsFor
      /\ UNCHANGED <<semVars, phase, roots, left, visited, recStack, found>>
  BY SearchKeepsGraph DEF Unwind
<1>3. h \in Procs /\ t \in Seq(Procs) /\ <<h>> \in Seq(Procs) /\ Append(cycle, h) \in Seq(Procs)
  BY <1>1, HeadTailProperties, AppendProperties
<1>4. <<h>> \o t = path
  <2>1. Len(path) \in Nat /\ Len(t) = Len(path) - 1 /\ \A i \in 1 .. Len(t) : t[i] = path[i + 1]
    BY <1>1, HeadTailProperties
  <2> QED
    BY <1>1, <1>3, <2>1
<1>5. Append(cycle, h) \o t = cycle \o path
  <2>1. Append(cycle, h) = cycle \o <<h>>
    BY <1>1, <1>3, AppendIsConcat
  <2>2. (cycle \o <<h>>) \o t = cycle \o (<<h>> \o t)
    BY <1>1, <1>3, ConcatAssociative
  <2> QED
    BY <1>4, <2>1, <2>2
<1>6. IsReport(cycle \o path)'
  BY <1>1, <1>2, <1>5 DEF IsReport
<1>7. Inv' /\ DetTypeOK'
  BY <1>2, <1>3, StepInv DEF DetInv, DetTypeOK
<1> QED
  BY <1>1, <1>2, <1>6, <1>7 DEF DetInv

(* Where the detector starts, and where no search is on.                   *)
LEMMA StartKeeps ==
  ASSUME DetInv, phase = "idle", Start, [SemNext]_semVars
  PROVE  DetInv'
<1>1. /\ phase' = "search" /\ roots' = {p \in Procs : WaitsFor'[p] # {}}
      /\ UNCHANGED <<path, left, visited, recStack, found, cycle>>
      /\ path = <<>> /\ visited = {} /\ found = FALSE /\ recStack = {}
  BY DEF Start, DetInv, DetTypeOK
<1>2. Inv' /\ DetTypeOK' /\ StackIsPath'
  BY <1>1, StepInv DEF DetInv, DetTypeOK, Searching, StackIsPath
<1>3. PathTried' /\ LeftIsClean'
  BY <1>1 DEF PathTried, LeftIsClean, Left
<1>4. RootsRemain'
  BY <1>1 DEF RootsRemain
<1> QED
  BY <1>1, <1>2, <1>3, <1>4 DEF DetInv, Searching

LEMMA IdleKeeps ==
  ASSUME [SemNext]_semVars, Inv, DetTypeOK',
         phase' = "idle", path' = <<>>, visited' = {}, found' = FALSE, cycle' = <<>>
  PROVE  DetInv'
<1>1. Inv'
  BY StepInv
<1>2. recStack' = {} /\ Left' = {}
  BY DEF DetTypeOK, Left
<1>3. StackIsPath'
  BY <1>2 DEF StackIsPath, Elements, Distinct
<1>4. PathTried' /\ LeftIsClean'
  BY <1>2 DEF PathTried, LeftIsClean
<1> QED
  BY <1>1, <1>3, <1>4 DEF DetInv, Searching

LEMMA DetStep ==
  ASSUME DetInv, [DetNext]_detVars
  PROVE  DetInv'
<1>0. [SemNext]_semVars
  BY DetectorSteps
<1>1. ASSUME NEW s \in Sems, NEW p \in Procs, BlockAndCheck(s, p) PROVE DetInv'
  BY <1>0, <1>1, StartKeeps DEF BlockAndCheck
<1>2. ASSUME OtherCall PROVE DetInv'
  BY <1>0, <1>2, IdleKeeps
  DEF OtherCall, searchVars, DetInv, DetTypeOK, Searching, StackIsPath
<1>3. ASSUME CheckDeadlock PROVE DetInv'
  BY <1>0, <1>3, StartKeeps DEF CheckDeadlock
<1>4. ASSUME NEW p \in Procs, NextRoot(p) \/ Descend(p) \/ BackEdge(p) \/ PassOver(p) PROVE DetInv'
  BY <1>4, RootKeeps, DescendKeeps, BackEdgeKeeps, PassOverKeeps
<1>5. ASSUME Answer PROVE DetInv'
  <2>1. /\ phase = "search" /\ path = <<>> /\ (found \/ roots = {}) /\ phase' = "done"
        /\ UNCHANGED <<semVars, roots, path, left, visited, recStack, found, cycle>>
        /\ WaitsFor' = WaitsFor
    BY <1>5, SearchKeepsGraph DEF Answer
  <2>2. Inv' /\ DetTypeOK'
    BY <2>1, StepInv DEF DetInv, DetTypeOK
  <2>3. (~found)' => Searching' /\ RootsRemain'
    BY <2>1 DEF DetInv, Searching, StackIsPath, PathTried, Tried, LeftIsClean, Left, Deadlocked, RootsRemain
  <2>4. found' => IsReport(cycle \o path)'
    BY <2>1 DEF DetInv, IsReport
  <2> QED
    BY <2>1, <2>2, <2>3, <2>4 DEF DetInv
<1>6. ASSUME Return PROVE DetInv'
  BY <1>0, <1>6, IdleKeeps DEF Return, DetInv, DetTypeOK
<1>7. ASSUME UNCHANGED detVars PROVE DetInv'
  <2>1. UNCHANGED <<semVars, searchVars>> /\ WaitsFor' = WaitsFor
    BY <1>7, SearchKeepsGraph DEF detVars
  <2>2. Inv' /\ DetTypeOK'
    BY <2>1, StepInv DEF DetInv, DetTypeOK, searchVars
  <2>3. (~found)' => Searching'
    BY <2>1 DEF DetInv, Searching, StackIsPath, PathTried, Tried, LeftIsClean, Left, Deadlocked, searchVars
  <2>4. found' => (phase # "idle")' /\ IsReport(cycle \o path)'
    BY <2>1 DEF DetInv, IsReport, searchVars
  <2>5. (~found)' /\ (phase # "idle")' => RootsRemain'
    BY <2>1 DEF DetInv, RootsRemain, searchVars
  <2> QED
    BY <2>1, <2>2, <2>3, <2>4, <2>5 DEF DetInv, searchVars
<1> QED
  BY <1>1, <1>2, <1>3, <1>4, <1>5, <1>6, <1>7, LeaveKeeps, UnwindKeeps DEF DetNext, SearchStep

(* The detector is sound and complete, for any number of processes and     *)
(* semaphores and after any calls: it answers TRUE exactly when there is a *)
(* deadlock, and what it reports is a walk that closes a cycle.            *)
THEOREM DetectorIsExact == DetSpec => []DetectorExact
<1>1. DetInit => DetInv
  <2> SUFFICES ASSUME DetInit PROVE DetInv
    OBVIOUS
  <2>1. Inv
    BY InitInv DEF DetInit
  <2>2. <<>> \in Seq(Procs) /\ [p \in Procs |-> {}] \in [Procs -> SUBSET Procs]
    OBVIOUS
  <2>3. DetTypeOK
    BY <2>2 DEF DetInit, DetTypeOK
  <2>4. StackIsPath /\ PathTried /\ LeftIsClean
    BY DEF DetInit, StackIsPath, Elements, Distinct, PathTried, LeftIsClean, Left
  <2> QED
    BY <2>1, <2>3, <2>4 DEF DetInv, DetInit, Searching
<1>2. DetInv /\ [DetNext]_detVars => DetInv'
  BY DetStep
<1> QED
  BY <1>1, <1>2, AnswerIsExact, PTL DEF DetSpec
=============================================================================
